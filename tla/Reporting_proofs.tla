--------------------------- MODULE Reporting_proofs ---------------------------
(***************************************************************************)
(* Theorems about Reporting, for any workers, criteria and bounds.          *)
(***************************************************************************)
EXTENDS Reporting, WellFoundedInduction, SequenceTheorems, TLAPS

-----------------------------------------------------------------------------
(* The inductive invariant *)

RowsOf(outbox, assets, transcripts, reports) ==
    [outbox |-> outbox, assets |-> assets, transcripts |-> transcripts, reports |-> reports]

\* A table without a row, and one with one.
Empty == <<>>

One(row) == <<row>>

\* The rows after a completion whose handler did not run, and what the handler adds.
Announced == RowsOf({"interview.completed"}, Empty, Empty, Empty)

Reported(outbox, i) ==
    RowsOf(outbox, One(RecordingAsset(i)), One(Transcripts(i)),
           One(Report(i, RecordingAsset(i), Transcripts(i))))

Handled(i) == Reported(Events \ {"interview.completed"}, i)

Done(i) == Reported(Events, i)

\* The rows are those of a running interview, of one that is announced, or of one
\* that is reported on: there is nothing in between.
RowsWhole ==
    /\ "state" \in DOMAIN interview
    /\ \/ interview.state = "awaiting_answer" /\ rows = NoRows
       \/ interview.state = "completed" /\ rows \in {Announced, Done(interview)}

\* What a transaction has found or written.
Txn(phase, event, new) == [phase |-> phase, event |-> event, new |-> new]

Found(t) ==
    /\ t.new = NoRows
    /\ t.event \in Events \ {"report.ready"}
    /\ Has(rows, t.event)

Repeated(t) == t.new = NoRows /\ rows = Done(interview)

First(t) == t.new = Handled(interview) /\ rows = Announced

Earned(t) ==
    \/ t = Idle
    \/ t = Txn("found", t.event, t.new) /\ Found(t)
    \/ /\ t = Txn("written", t.event, t.new)
       /\ Repeated(t) \/ First(t)

StepsEarned ==
    /\ txn = [w \in Workers |-> txn[w]]
    /\ \A w \in Workers : Earned(txn[w])

\* At most one transaction is about to add the report.
WriterAlone ==
    \A v, w \in Workers : txn[v].new # NoRows /\ txn[w].new # NoRows => v = w

IInv == RowsWhole /\ StepsEarned /\ WriterAlone

-----------------------------------------------------------------------------
(* Rows *)

\* Rows are added table by table.
Joins(table, new, all) == table \o new = all

LEMMA AddTo ==
    ASSUME NEW a, NEW b, NEW c, NEW d, NEW e, NEW f, NEW g, NEW h, NEW s, NEW t, NEW u, NEW v,
           a \cup e = s, Joins(b, f, t), Joins(c, g, u), Joins(d, h, v)
    PROVE  And(RowsOf(a, b, c, d), RowsOf(e, f, g, h)) = RowsOf(s, t, u, v)
  <1>1. And(RowsOf(a, b, c, d), RowsOf(e, f, g, h)) = RowsOf(a \cup e, b \o f, c \o g, d \o h)
    BY DEF And, RowsOf
  <1>2. b \o f = t /\ c \o g = u /\ d \o h = v
    BY DEF Joins
  <1> QED
    BY <1>1, <1>2

\* Tables here are empty or have one row.
IsTable(t) == Joins(t, Empty, t) /\ Joins(Empty, t, t)

LEMMA Tables == IsTable(Empty) /\ \A x : IsTable(One(x))
  BY DEF IsTable, Joins, Empty, One

LEMMA NoRowsAre == NoRows = RowsOf({}, Empty, Empty, Empty)
  BY DEF NoRows, RowsOf, Empty

\* What adding an event does, or adding nothing.
LEMMA OutboxAdds ==
    ASSUME NEW o, NEW e, NEW p, NEW a, NEW b, NEW c,
           o \cup {e} = p, IsTable(a), IsTable(b), IsTable(c)
    PROVE  And(RowsOf(o, a, b, c), Outbox(e)) = RowsOf(p, a, b, c)
  <1> DEFINE event == {e}
  <1>1. Outbox(e) = [NoRows EXCEPT !.outbox = event] /\ o \cup event = p
    BY DEF Outbox
  <1> HIDE DEF event
  <1>2. Outbox(e) = RowsOf(event, Empty, Empty, Empty)
    BY <1>1 DEF NoRows, RowsOf, Empty
  <1> QED
    BY <1>1, <1>2, AddTo DEF IsTable

LEMMA NothingAdds ==
    ASSUME NEW o, NEW a, NEW b, NEW c, IsTable(a), IsTable(b), IsTable(c)
    PROVE  And(RowsOf(o, a, b, c), NoRows) = RowsOf(o, a, b, c)
  <1> DEFINE none == {}
  <1>1. NoRows = RowsOf(none, Empty, Empty, Empty) /\ o \cup none = o
    BY NoRowsAre
  <1> HIDE DEF none
  <1> QED
    BY <1>1, AddTo DEF IsTable

\* A transaction adds the handled rows to the announcement, or nothing.
LEMMA Added ==
    ASSUME NEW i
    PROVE  /\ And(NoRows, Outbox("interview.completed")) = Announced
           /\ And(Announced, Handled(i)) = Done(i)
           /\ And(Done(i), NoRows) = Done(i)
  <1> DEFINE none == {}
             asset == One(RecordingAsset(i))
             all == One(Transcripts(i))
             report == One(Report(i, RecordingAsset(i), Transcripts(i)))
             first == {"interview.completed"}
             rest == Events \ {"interview.completed"}
  <1>1. /\ IsTable(asset) /\ IsTable(all) /\ IsTable(report)
        /\ Announced = RowsOf(first, Empty, Empty, Empty)
        /\ Handled(i) = RowsOf(rest, asset, all, report)
        /\ Done(i) = RowsOf(Events, asset, all, report)
        /\ first \cup rest = Events
        /\ none \cup {"interview.completed"} = first
        /\ NoRows = RowsOf(none, Empty, Empty, Empty)
    BY NoRowsAre, Tables DEF Announced, Handled, Done, Reported, Events
  <1> HIDE DEF none, asset, all, report, first, rest
  <1>2. And(NoRows, Outbox("interview.completed")) = Announced
    BY <1>1, OutboxAdds, Tables
  <1>3. And(Announced, Handled(i)) = Done(i)
    BY <1>1, AddTo DEF IsTable
  <1>4. And(Done(i), NoRows) = Done(i)
    BY <1>1, NothingAdds
  <1> QED
    BY <1>2, <1>3, <1>4

\* The media handler adds the asset to tables that are empty, the report's handler the
\* transcripts and the report to those that have the asset.
LEMMA HandlersAdd ==
    ASSUME NEW i, NEW o, NEW asset, asset = RecordingAsset(i),
           NEW all, all = Transcripts(i), NEW report, report = Report(i, asset, all)
    PROVE  /\ Media(i, RowsOf(o, Empty, Empty, Empty)) = RowsOf({}, One(asset), Empty, Empty)
           /\ Generation(i, RowsOf(o, One(asset), Empty, Empty))
                = RowsOf({}, Empty, One(all), One(report))
  <1>1. Media(i, RowsOf(o, Empty, Empty, Empty)) = RowsOf({}, One(asset), Empty, Empty)
    <2>1. RowsOf(o, Empty, Empty, Empty).assets = <<>>
      BY DEF RowsOf, Empty
    <2> QED
      BY <2>1 DEF Media, NoRows, RowsOf, Empty, One
  <1>2. Generation(i, RowsOf(o, One(asset), Empty, Empty)) = RowsOf({}, Empty, One(all), One(report))
    <2> DEFINE r == RowsOf(o, One(asset), Empty, Empty)
    <2>1. r.transcripts = <<>> /\ r.reports = <<>> /\ Head(r.assets) = asset
      BY DEF RowsOf, Empty, One
    <2> HIDE DEF r
    <2>2. Generation(i, r) = [NoRows EXCEPT !.transcripts = <<all>>, !.reports = <<report>>]
      BY <2>1 DEF Generation
    <2>3. Generation(i, r) = RowsOf({}, Empty, One(all), One(report))
      BY <2>2 DEF NoRows, RowsOf, Empty, One
    <2> QED
      BY <2>3 DEF r
  <1> QED
    BY <1>1, <1>2

\* The completion handler of an announced interview adds all of its report.
LEMMA CompletionHandles ==
    ASSUME NEW i
    PROVE  Completion(i, Announced) = Handled(i)
  <1> DEFINE asset == RecordingAsset(i)
             all == Transcripts(i)
             report == Report(i, asset, all)
             begun == {"interview.completed"}
             first == {"media.postprocess_requested"}
             both == {"media.postprocess_requested", "report.generation_requested"}
             rest == Events \ {"interview.completed"}
             requested == Outbox("media.postprocess_requested")
             media == Media(i, And(Announced, requested))
             processed == And(requested, media)
             asked == And(processed, Outbox("report.generation_requested"))
             generation == Generation(i, And(Announced, asked))
             generated == And(asked, generation)
             none == {}
  <1>1. Completion(i, Announced) = And(generated, Outbox("report.ready"))
    BY DEF Completion
  <1>2. /\ Announced = RowsOf(begun, Empty, Empty, Empty)
        /\ Handled(i) = RowsOf(rest, One(asset), One(all), One(report))
        /\ first \cup {"report.generation_requested"} = both
        /\ both \cup {"report.ready"} = rest
        /\ none \cup {"media.postprocess_requested"} = first
        /\ first \cup none = first /\ both \cup none = both
        /\ NoRows = RowsOf(none, Empty, Empty, Empty)
    BY NoRowsAre DEF Announced, Handled, Reported, Events
  <1>3. requested = [NoRows EXCEPT !.outbox = first] /\ asset = RecordingAsset(i)
        /\ all = Transcripts(i) /\ report = Report(i, asset, all)
    BY DEF Outbox
  <1> HIDE DEF asset, all, report, begun, first, both, rest, none
  <1>4. requested = RowsOf(first, Empty, Empty, Empty)
    BY <1>3 DEF NoRows, RowsOf, Empty
  <1>5. And(Announced, requested) = RowsOf(begun \cup first, Empty, Empty, Empty)
    BY <1>2, <1>4, AddTo, Tables DEF IsTable
  <1>6. media = RowsOf({}, One(asset), Empty, Empty)
    BY <1>3, <1>5, HandlersAdd
  <1>7. processed = RowsOf(first, One(asset), Empty, Empty)
    BY <1>2, <1>4, <1>6, AddTo, Tables DEF IsTable, none
  <1>8. asked = RowsOf(both, One(asset), Empty, Empty)
    BY <1>2, <1>7, OutboxAdds, Tables
  <1>9. And(Announced, asked) = RowsOf(begun \cup both, One(asset), Empty, Empty)
    BY <1>2, <1>8, AddTo, Tables DEF IsTable
  <1>10. generation = RowsOf({}, Empty, One(all), One(report))
    BY <1>3, <1>9, HandlersAdd
  <1>11. generated = RowsOf(both, One(asset), One(all), One(report))
    BY <1>2, <1>8, <1>10, AddTo, Tables DEF IsTable, none
  <1>12. And(generated, Outbox("report.ready")) = Handled(i)
    BY <1>2, <1>11, OutboxAdds, Tables
  <1> QED
    BY <1>1, <1>12

\* What tells these rows apart.
LEMMA OutboxOf ==
    ASSUME NEW i, NEW e \in Events
    PROVE  /\ ~Has(NoRows, e)
           /\ Has(Announced, e) <=> e = "interview.completed"
           /\ Has(Done(i), e)
           /\ Has(Handled(i), e) <=> e # "interview.completed"
  BY DEF Has, NoRows, Announced, Handled, Done, Reported, RowsOf

LEMMA TablesOf ==
    ASSUME NEW i
    PROVE  Announced.reports = <<>> /\ Done(i).reports # <<>> /\ Done(i).assets # <<>>
  BY DEF Announced, Done, Reported, RowsOf, Empty, One

LEMMA Requested ==
    ASSUME NEW i
    PROVE  /\ ~Has(NoRows, "media.postprocess_requested")
           /\ ~Has(Announced, "media.postprocess_requested")
           /\ Has(Done(i), "media.postprocess_requested")
           /\ Has(Handled(i), "media.postprocess_requested")
  <1>1. "media.postprocess_requested" \in Events
    BY DEF Events
  <1> QED
    BY <1>1, OutboxOf

LEMMA RowsDiffer ==
    ASSUME NEW i
    PROVE  /\ NoRows # Announced /\ NoRows # Done(i) /\ NoRows # Handled(i)
           /\ Announced # Done(i)
  <1>1. "interview.completed" \in Events
    BY DEF Events
  <1>2. NoRows # Announced
    BY <1>1, OutboxOf
  <1> QED
    BY <1>2, Requested

\* Where the report is, the handlers of its parts add nothing.
LEMMA DoneAddsNothing ==
    ASSUME NEW i
    PROVE  Media(i, Done(i)) = NoRows /\ Generation(i, Done(i)) = NoRows
  BY TablesOf DEF Media, Generation

-----------------------------------------------------------------------------
(* The interview *)

Kept(i, j) == "state" \in DOMAIN j /\ j.state = i.state

\* What the rows of an interview are moved by does not move its state.
LEMMA StateKept ==
    ASSUME NEW i, "state" \in DOMAIN i
    PROVE  /\ \A x : Kept(i, [i EXCEPT !.turns = x])
           /\ \A x : Kept(i, [i EXCEPT !.chunks = x])
           /\ \A through : Kept(i, Verified(i, through))
           /\ \A media : Kept(i, Checkpointed(i, media))
           /\ \A x : "state" \in DOMAIN [i EXCEPT !.state = x] /\ [i EXCEPT !.state = x].state = x
  BY DEF Kept, Verified, Checkpointed

LEMMA AnsweredState ==
    ASSUME "state" \in DOMAIN interview, NEW through
    PROVE  Kept(interview, Answered(through))
  <1> DEFINE v == Verified(interview, through)
             w == [v EXCEPT !.turns = Append(@, Answer("final"))]
  <1>1. Kept(interview, v)
    BY StateKept
  <1>2. Kept(v, w)
    BY <1>1, StateKept DEF Kept
  <1>3. Kept(w, Checkpointed(w, through))
    BY <1>2, StateKept DEF Kept
  <1> QED
    BY <1>1, <1>2, <1>3 DEF Kept, Answered

\* While the interview runs, there are no rows, and nobody has got an event.
LEMMA NothingYet ==
    ASSUME IInv, interview.state = "awaiting_answer"
    PROVE  rows = NoRows /\ txn = [w \in Workers |-> Idle]
  <1>1. rows = NoRows
    BY DEF IInv, RowsWhole
  <1>2. \A w \in Workers : txn[w] = Idle
    <2>1. Announced # NoRows /\ Done(interview) # NoRows /\ \A e \in Events : ~Has(NoRows, e)
      BY RowsDiffer, OutboxOf
    <2>2. ASSUME NEW t, Earned(t) PROVE t = Idle
      <3>1. ~Found(t)
        BY <1>1, <2>1 DEF Found
      <3>2. ~Repeated(t) /\ ~First(t)
        BY <1>1, <2>1 DEF Repeated, First
      <3> QED
        BY <2>2, <3>1, <3>2 DEF Earned
    <2> QED
      BY <2>2 DEF IInv, StepsEarned
  <1> QED
    BY <1>1, <1>2 DEF IInv, StepsEarned

LEMMA IdleIsEarned ==
    ASSUME txn' = [w \in Workers |-> Idle]
    PROVE  StepsEarned' /\ WriterAlone'
  <1>1. \A w \in Workers : txn'[w] = Idle
    OBVIOUS
  <1>2. Idle.new = NoRows
    BY DEF Idle
  <1> QED
    BY <1>1, <1>2 DEF StepsEarned, WriterAlone, Earned

\* The interview goes on.
LEMMA InterviewKeeps ==
    ASSUME IInv, Record \/ Pause \/ LeaveAnswer \/ CompleteAnswer
    PROVE  IInv'
  <1>1. "state" \in DOMAIN interview /\ interview.state = "awaiting_answer" /\ UNCHANGED <<rows, txn>>
    BY DEF IInv, RowsWhole, Record, Pause, LeaveAnswer, CompleteAnswer, Interrupted, Answering, Open
  <1>2. Kept(interview, interview')
    <2>1. CASE Record
      <3>1. PICK x : interview' = [interview EXCEPT !.chunks = x]
        BY <2>1 DEF Record
      <3> QED
        BY <1>1, <3>1, StateKept
    <2>2. CASE Pause
      <3>1. PICK through \in 0..Len(interview.chunks) :
                interview' = Checkpointed(Verified(interview, through),
                                          Verified(interview, through).verified)
        BY <2>2 DEF Pause
      <3>2. Kept(interview, Verified(interview, through))
        BY <1>1, StateKept
      <3>3. Kept(Verified(interview, through), interview')
        BY <3>1, <3>2, StateKept DEF Kept
      <3> QED
        BY <3>2, <3>3 DEF Kept
    <2>3. CASE LeaveAnswer
      BY <1>1, <2>3, StateKept DEF LeaveAnswer
    <2>4. CASE CompleteAnswer
      <3>1. PICK through \in 0..MaxChunks, criterion \in Criteria :
                interview' = [Answered(through) EXCEPT !.turns = Append(@, Question(criterion))]
        BY <2>4 DEF CompleteAnswer
      <3>2. Kept(interview, Answered(through))
        BY <1>1, AnsweredState
      <3>3. Kept(Answered(through), interview')
        BY <3>1, <3>2, StateKept DEF Kept
      <3> QED
        BY <3>2, <3>3 DEF Kept
    <2> QED
      BY <2>1, <2>2, <2>3, <2>4
  <1>3. rows = NoRows /\ txn = [w \in Workers |-> Idle]
    BY <1>1, NothingYet
  <1>4. RowsWhole'
    BY <1>1, <1>2, <1>3 DEF RowsWhole, Kept
  <1>5. StepsEarned' /\ WriterAlone'
    BY <1>1, <1>3, IdleIsEarned
  <1> QED
    BY <1>4, <1>5 DEF IInv

\* The interview is completed: its handler adds everything, or nothing.
LEMMA CompleteKeeps ==
    ASSUME IInv, CompleteInterview
    PROVE  IInv'
  <1>1. PICK through \in 0..MaxChunks :
            /\ interview' = [Answered(through) EXCEPT !.state = "completed"]
            /\ rows' \in {And(rows, Outbox("interview.completed")),
                          And(And(rows, Outbox("interview.completed")),
                              Completion(interview', And(rows, Outbox("interview.completed"))))}
            /\ interview.state = "awaiting_answer" /\ UNCHANGED txn
    BY DEF CompleteInterview, Answering, Open
  <1>2. rows = NoRows /\ txn = [w \in Workers |-> Idle]
    BY <1>1, NothingYet
  <1>3. "state" \in DOMAIN interview' /\ interview'.state = "completed"
    <2>1. "state" \in DOMAIN Answered(through)
      BY AnsweredState DEF IInv, RowsWhole, Kept
    <2> QED
      BY <1>1, <2>1, StateKept
  <1>4. rows' \in {Announced, Done(interview')}
    BY <1>1, <1>2, Added, CompletionHandles
  <1>5. RowsWhole'
    BY <1>3, <1>4 DEF RowsWhole, Done, Reported
  <1>6. StepsEarned' /\ WriterAlone'
    BY <1>1, <1>2, IdleIsEarned
  <1> QED
    BY <1>5, <1>6 DEF IInv

-----------------------------------------------------------------------------
(* The transactions *)

\* A worker's transaction goes on, no other does, and nothing is committed.
LEMMA OwnStepKeeps ==
    ASSUME IInv, NEW w \in Workers, NEW t,
           txn' = [txn EXCEPT ![w] = t], UNCHANGED <<interview, rows>>,
           Earned(t),
           t.new # NoRows => \A v \in Workers \ {w} : txn[v].new = NoRows
    PROVE  IInv'
  <1>1. txn'[w] = t /\ \A v \in Workers \ {w} : txn'[v] = txn[v]
    BY DEF IInv, StepsEarned
  <1>2. RowsWhole'
    BY DEF IInv, RowsWhole
  <1>3. StepsEarned'
    <2>1. txn' = [v \in Workers |-> txn'[v]]
      BY DEF IInv, StepsEarned
    <2>2. ASSUME NEW v \in Workers PROVE Earned(txn[v])'
      <3>1. Earned(txn'[v])
        BY <1>1 DEF IInv, StepsEarned
      <3> QED
        BY <3>1 DEF Earned, Found, Repeated, First, Has
    <2> QED
      BY <2>1, <2>2 DEF StepsEarned
  <1>4. WriterAlone'
    BY <1>1 DEF IInv, WriterAlone
  <1> QED
    BY <1>2, <1>3, <1>4 DEF IInv

\* A transaction as its step leaves it.
LEMMA Finds ==
    ASSUME NEW event
    PROVE  [Idle EXCEPT !.phase = "found", !.event = event] = Txn("found", event, NoRows)
  <1>1. [Idle EXCEPT !.phase = "found"] = Txn("found", "none", NoRows)
    BY DEF Idle, Txn
  <1>2. [Txn("found", "none", NoRows) EXCEPT !.event = event] = Txn("found", event, NoRows)
    BY DEF Txn
  <1>3. [Idle EXCEPT !.phase = "found", !.event = event]
          = [[Idle EXCEPT !.phase = "found"] EXCEPT !.event = event]
    OBVIOUS
  <1> QED
    BY <1>1, <1>2, <1>3

LEMMA Writes ==
    ASSUME NEW t, NEW event, t = Txn("found", event, NoRows), NEW new
    PROVE  [t EXCEPT !.phase = "written", !.new = new] = Txn("written", event, new)
  <1>1. [t EXCEPT !.phase = "written"] = Txn("written", event, NoRows)
    BY DEF Txn
  <1>2. [Txn("written", event, NoRows) EXCEPT !.new = new] = Txn("written", event, new)
    BY DEF Txn
  <1>3. [t EXCEPT !.phase = "written", !.new = new]
          = [[t EXCEPT !.phase = "written"] EXCEPT !.new = new]
    OBVIOUS
  <1> QED
    BY <1>1, <1>2, <1>3

\* A transaction that has found its event.
LEMMA FoundHas ==
    ASSUME IInv, NEW w \in Workers, txn[w].phase = "found"
    PROVE  Found(txn[w]) /\ txn[w] = Txn("found", txn[w].event, NoRows)
  <1>1. Earned(txn[w])
    BY DEF IInv, StepsEarned
  <1>2. txn[w] # Idle /\ txn[w] # Txn("written", txn[w].event, txn[w].new)
    BY DEF Idle, Txn
  <1> QED
    BY <1>1, <1>2 DEF Earned, Found

LEMMA ReceiveKeeps ==
    ASSUME IInv, NEW w \in Workers, Receive(w)
    PROVE  IInv'
  <1>1. PICK event \in Events \ {"report.ready"} :
            /\ Has(rows, event)
            /\ txn' = [txn EXCEPT ![w] = [Idle EXCEPT !.phase = "found", !.event = event]]
            /\ UNCHANGED <<interview, rows>>
    BY DEF Receive
  <1> DEFINE t == Txn("found", event, NoRows)
  <1>2. txn' = [txn EXCEPT ![w] = t]
    <2>1. [Idle EXCEPT !.phase = "found", !.event = event] = t
      BY Finds
    <2> QED
      BY <1>1, <2>1
  <1>3. t.event = event /\ t.new = NoRows /\ t = Txn("found", t.event, t.new)
    BY DEF Txn
  <1> HIDE DEF t
  <1>4. Found(t)
    BY <1>1, <1>3 DEF Found
  <1>5. Earned(t)
    BY <1>3, <1>4 DEF Earned
  <1> QED
    BY <1>1, <1>2, <1>3, <1>5, OwnStepKeeps

\* A handler writes nothing when the report is there, or all of it when nobody else does.
LEMMA WrittenKeeps ==
    ASSUME IInv, NEW w \in Workers, NEW new, Written(w, new),
           \/ new = NoRows /\ rows = Done(interview)
           \/ /\ new = Handled(interview) /\ rows = Announced
              /\ \A v \in Workers \ {w} : txn[v].new = NoRows
    PROVE  IInv'
  <1> DEFINE t == Txn("written", txn[w].event, new)
  <1>1. txn[w].phase = "found" /\ UNCHANGED <<interview, rows>>
    BY DEF Written
  <1>2. txn[w] = Txn("found", txn[w].event, NoRows)
    BY <1>1, FoundHas
  <1>3. txn' = [txn EXCEPT ![w] = t]
    <2>1. [txn[w] EXCEPT !.phase = "written", !.new = new] = t
      <3> DEFINE own == txn[w]
                 event == txn[w].event
      <3>1. own = Txn("found", event, NoRows)
        BY <1>2
      <3> HIDE DEF own, event
      <3>2. [own EXCEPT !.phase = "written", !.new = new] = Txn("written", event, new)
        BY <3>1, Writes
      <3> QED
        BY <3>2 DEF own, event
    <2>2. txn' = [txn EXCEPT ![w] = [txn[w] EXCEPT !.phase = "written", !.new = new]]
      BY DEF Written, IInv, StepsEarned
    <2> QED
      BY <2>1, <2>2
  <1>4. t.event = txn[w].event /\ t.new = new /\ t = Txn("written", t.event, t.new)
    BY DEF Txn
  <1> HIDE DEF t
  <1>5. Repeated(t) \/ First(t)
    BY <1>4 DEF Repeated, First
  <1>6. Earned(t)
    BY <1>4, <1>5 DEF Earned
  <1> QED
    BY <1>1, <1>3, <1>4, <1>6, OwnStepKeeps

LEMMA HandleKeeps ==
    ASSUME IInv, NEW w \in Workers,
           HandleCompletion(w) \/ HandleMedia(w) \/ HandleGeneration(w)
    PROVE  IInv'
  <1>1. txn[w].phase = "found"
    BY DEF HandleCompletion, HandleMedia, HandleGeneration, Written
  <1>2. txn[w].event \in Events /\ Has(rows, txn[w].event)
    BY <1>1, FoundHas DEF Found
  <1>3. rows \in {Announced, Done(interview)}
    BY <1>2, OutboxOf DEF IInv, RowsWhole
  <1>4. CASE HandleCompletion(w)
    <2>1. /\ ~Has(rows, "media.postprocess_requested")
          /\ \A v \in Workers \ {w} : ~Has(txn[v].new, "media.postprocess_requested")
          /\ Written(w, Completion(interview, rows))
      BY <1>4 DEF HandleCompletion, Free
    <2>2. rows = Announced
      BY <1>3, <2>1, Requested
    <2>3. ASSUME NEW v \in Workers \ {w} PROVE txn[v].new = NoRows
      <3>1. Earned(txn[v]) /\ ~Has(txn[v].new, "media.postprocess_requested")
        BY <2>1 DEF IInv, StepsEarned
      <3>2. ~First(txn[v])
        BY <3>1, Requested DEF First
      <3>3. Idle.new = NoRows
        BY DEF Idle
      <3> QED
        BY <3>1, <3>2, <3>3 DEF Earned, Found, Repeated
    <2>4. Completion(interview, rows) = Handled(interview)
      BY <2>2, CompletionHandles
    <2> QED
      BY <2>1, <2>2, <2>3, <2>4, WrittenKeeps
  <1>5. CASE HandleMedia(w) \/ HandleGeneration(w)
    <2>1. txn[w].event # "interview.completed"
      BY <1>5 DEF HandleMedia, HandleGeneration
    <2>2. rows = Done(interview)
      BY <1>2, <1>3, <2>1, OutboxOf
    <2>3. Written(w, NoRows)
      BY <1>5, <2>2, DoneAddsNothing DEF HandleMedia, HandleGeneration
    <2> QED
      BY <2>2, <2>3, WrittenKeeps
  <1> QED
    BY <1>4, <1>5

LEMMA RollBackKeeps ==
    ASSUME IInv, NEW w \in Workers, RollBack(w)
    PROVE  IInv'
  <1>1. txn' = [txn EXCEPT ![w] = Idle] /\ UNCHANGED <<interview, rows>>
    BY DEF RollBack
  <1>2. Earned(Idle) /\ Idle.new = NoRows
    BY DEF Earned, Idle
  <1> QED
    BY <1>1, <1>2, OwnStepKeeps

\* The first commit makes everything there is; what the others found is still there.
LEMMA CommitKeeps ==
    ASSUME IInv, NEW w \in Workers, Commit(w)
    PROVE  IInv'
  <1>1. /\ txn[w].phase = "written" /\ rows' = And(rows, txn[w].new)
        /\ txn' = [txn EXCEPT ![w] = Idle] /\ UNCHANGED interview
    BY DEF Commit
  <1>2. Repeated(txn[w]) \/ First(txn[w])
    <2>1. Earned(txn[w])
      BY DEF IInv, StepsEarned
    <2>2. txn[w] # Idle /\ txn[w] # Txn("found", txn[w].event, txn[w].new)
      BY <1>1 DEF Idle, Txn
    <2> QED
      BY <2>1, <2>2 DEF Earned
  <1>3. CASE Repeated(txn[w])
    <2>1. rows' = rows
      BY <1>1, <1>3, Added DEF Repeated
    <2>2. Earned(Idle) /\ Idle.new = NoRows
      BY DEF Earned, Idle
    <2> QED
      BY <1>1, <2>1, <2>2, OwnStepKeeps
  <1>4. CASE First(txn[w])
    <2>1. txn[w].new = Handled(interview) /\ rows = Announced /\ Handled(interview) # NoRows
      BY <1>4, RowsDiffer DEF First
    <2>2. rows' = Done(interview)
      BY <1>1, <2>1, Added
    <2>3. RowsWhole'
      <3>1. interview.state = "completed" /\ "state" \in DOMAIN interview
        BY <2>1, RowsDiffer DEF IInv, RowsWhole
      <3> QED
        BY <1>1, <2>2, <3>1 DEF RowsWhole, Done, Reported
    <2>4. txn'[w] = Idle /\ \A v \in Workers \ {w} : txn'[v] = txn[v] /\ txn[v].new = NoRows
      BY <1>1, <2>1 DEF IInv, StepsEarned, WriterAlone
    <2>5. Idle.new = NoRows
      BY DEF Idle
    <2>6. WriterAlone'
      BY <2>4, <2>5 DEF WriterAlone
    <2>7. ASSUME NEW v \in Workers \ {w} PROVE Earned(txn[v])'
      <3>1. Earned(txn[v]) /\ txn[v].new = NoRows
        BY <2>4 DEF IInv, StepsEarned
      <3>2. ~Repeated(txn[v]) /\ ~First(txn[v])
        BY <2>1, <3>1, RowsDiffer DEF Repeated, First
      <3>3. CASE txn[v] = Idle
        BY <2>4, <3>3 DEF Earned
      <3>4. CASE /\ txn[v] = Txn("found", txn[v].event, txn[v].new)
                 /\ Found(txn[v])
        <4>1. Found(txn[v])'
          BY <2>2, <2>4, <3>4, OutboxOf DEF Found
        <4> QED
          BY <2>4, <3>4, <4>1 DEF Earned
      <3> QED
        BY <3>1, <3>2, <3>3, <3>4 DEF Earned
    <2>8. Earned(txn[w])'
      BY <2>4 DEF Earned
    <2>9. StepsEarned'
      <3>1. txn' = [v \in Workers |-> txn'[v]]
        BY <1>1 DEF IInv, StepsEarned
      <3> QED
        BY <2>7, <2>8, <3>1 DEF StepsEarned
    <2> QED
      BY <2>3, <2>6, <2>9 DEF IInv
  <1> QED
    BY <1>2, <1>3, <1>4

-----------------------------------------------------------------------------
(* The invariant and the theorem *)

LEMMA InitHolds == Init => IInv
  <1> SUFFICES ASSUME Init PROVE IInv
    OBVIOUS
  <1>1. rows = NoRows /\ txn = [w \in Workers |-> Idle]
    BY DEF Init
  <1>2. RowsWhole
    <2>1. PICK criterion \in Criteria :
              interview = [turns |-> <<Question(criterion)>>, chunks |-> <<>>, verified |-> 0,
                           checkpoints |-> <<[final |-> 0, media |-> 0]>>,
                           state |-> "awaiting_answer"]
      BY DEF Init
    <2>2. interview.state = "awaiting_answer" /\ "state" \in DOMAIN interview
      BY <2>1
    <2> QED
      BY <1>1, <2>2 DEF RowsWhole
  <1>3. StepsEarned /\ WriterAlone
    <2>1. \A w \in Workers : txn[w] = Idle
      BY <1>1
    <2>2. Idle.new = NoRows
      BY DEF Idle
    <2> QED
      BY <1>1, <2>1, <2>2 DEF StepsEarned, Earned, WriterAlone
  <1> QED
    BY <1>2, <1>3 DEF IInv

LEMMA StutteringKeeps == IInv /\ UNCHANGED vars => IInv'
  <1> SUFFICES ASSUME IInv, UNCHANGED vars PROVE IInv'
    OBVIOUS
  <1>1. RowsWhole' /\ WriterAlone'
    BY DEF vars, IInv, RowsWhole, WriterAlone
  <1>2. StepsEarned'
    BY DEF vars, IInv, StepsEarned, Earned, Found, Repeated, First, Has
  <1> QED
    BY <1>1, <1>2 DEF IInv

LEMMA NextKeeps == IInv /\ [Next]_vars => IInv'
  <1> SUFFICES ASSUME IInv, [Next]_vars PROVE IInv'
    OBVIOUS
  <1>1. CASE UNCHANGED vars
    BY <1>1, StutteringKeeps
  <1>2. CASE Record \/ Pause \/ LeaveAnswer \/ CompleteAnswer
    BY <1>2, InterviewKeeps
  <1>3. CASE CompleteInterview
    BY <1>3, CompleteKeeps
  <1>4. ASSUME NEW w \in Workers, Receive(w) PROVE IInv'
    BY <1>4, ReceiveKeeps
  <1>5. ASSUME NEW w \in Workers, HandleCompletion(w) \/ HandleMedia(w) \/ HandleGeneration(w)
        PROVE  IInv'
    BY <1>5, HandleKeeps
  <1>6. ASSUME NEW w \in Workers, Commit(w) PROVE IInv'
    BY <1>6, CommitKeeps
  <1>7. ASSUME NEW w \in Workers, RollBack(w) PROVE IInv'
    BY <1>7, RollBackKeeps
  <1> QED
    BY <1>1, <1>2, <1>3, <1>4, <1>5, <1>6, <1>7 DEF Next

\* Rows are only ever those of a running, an announced or a reported interview, in
\* whatever order events are delivered and transactions end.
THEOREM Inductive == Spec => []IInv
  BY InitHolds, NextKeeps, PTL DEF Spec

\* One asset, one set of transcripts and one report, which is there with all of
\* them, although only one outbox key is unique (workers/reporting/runtime.py).
THEOREM OneReportOnly == Spec => []OneReport
  <1>1. IInv => OneReport
    <2> SUFFICES ASSUME IInv PROVE OneReport
      OBVIOUS
    <2>1. rows \in {NoRows, Announced, Done(interview)}
      BY DEF IInv, RowsWhole
    <2>2. CASE rows \in {NoRows, Announced}
      BY <2>2 DEF OneReport, NoRows, Announced, RowsOf, Empty
    <2>3. CASE rows = Done(interview)
      BY <2>3 DEF OneReport, Done, Reported, RowsOf, One, Has, Events
    <2> QED
      BY <2>1, <2>2, <2>3
  <1> QED
    BY <1>1, Inductive, PTL

-----------------------------------------------------------------------------
(* Maxima and minima *)

LEMMA MinOf ==
    ASSUME NEW S \in SUBSET Nat, S # {}
    PROVE  Min(S) \in S /\ \A y \in S : Min(S) <= y
  <1>1. PICK m \in S : \A t \in S : ~(<<t, m>> \in OpToRel(<, Nat))
    BY NatLessThanWellFounded, WFMin
  <1>2. \A y \in S : m <= y
    <2> SUFFICES ASSUME NEW y \in S PROVE m <= y
      OBVIOUS
    <2>1. ~(y < m)
      BY <1>1 DEF OpToRel
    <2> QED
      BY <2>1
  <1> QED
    BY <1>2 DEF Min

LEMMA MaxOf ==
    ASSUME NEW S \in SUBSET Nat, S # {}, NEW n \in Nat, \A x \in S : x <= n
    PROVE  Max(S) \in S /\ \A y \in S : y <= Max(S)
  <1> DEFINE T == {k \in Nat : n - k \in S}
  <1>1. T # {} /\ T \subseteq Nat
    <2>1. PICK x \in S : TRUE
      OBVIOUS
    <2>2. x \in Nat /\ x <= n
      BY <2>1
    <2>3. n - x \in Nat /\ n - (n - x) = x
      BY <2>2
    <2> QED
      BY <2>1, <2>3
  <1> DEFINE m == Min(T)
  <1>2. m \in T /\ \A t \in T : m <= t
    <2> HIDE DEF T
    <2> QED
      BY <1>1, MinOf
  <1> HIDE DEF m
  <1>3. ASSUME NEW y \in S
        PROVE  y <= n - m
    <2>1. y \in Nat /\ y <= n
      BY <1>3
    <2>2. n - y \in Nat /\ n - (n - y) = y
      BY <2>1
    <2>3. n - y \in T
      BY <1>3, <2>2
    <2>4. m <= n - y /\ m \in Nat
      BY <1>2, <2>3
    <2> QED
      BY <2>1, <2>4
  <1>4. n - m \in S
    BY <1>2
  <1> QED
    BY <1>3, <1>4 DEF Max

LEMMA MaxOfTwo ==
    ASSUME NEW a \in Int, NEW b \in Int
    PROVE  Max({a, b}) \in {a, b} /\ Max({a, b}) >= a /\ Max({a, b}) >= b
  <1>1. \E x \in {a, b} : \A y \in {a, b} : x >= y
    <2>1. CASE a >= b
      BY <2>1
    <2>2. CASE b >= a
      BY <2>2
    <2> QED
      BY <2>1, <2>2
  <1>2. Max({a, b}) \in {a, b} /\ \A y \in {a, b} : Max({a, b}) >= y
    BY <1>1 DEF Max
  <1> QED
    BY <1>2

-----------------------------------------------------------------------------
(* The interview's rows *)

Turns ==
    {Question(criterion) : criterion \in Criteria} \cup {Answer("recording"), Answer("final")}

Chunks == [start : Nat, end : Nat, during : Nat]

Checkpoints == [final : Nat, media : Nat]

InterviewRows ==
    [turns : Seq(Turns), chunks : Seq(Chunks), verified : Nat, checkpoints : Seq(Checkpoints),
     state : {"awaiting_answer", "completed"}]

\* Chunks come after one another, up to the time n.
Recorded(chunks, n) ==
    /\ \A k \in DOMAIN chunks : chunks[k].start < chunks[k].end /\ chunks[k].end <= n
    /\ \A j, k \in DOMAIN chunks : j < k => chunks[j].end <= chunks[k].start

Well(i, n) ==
    /\ i \in InterviewRows
    /\ n \in Nat
    /\ 1 \in Questions(i.turns)
    /\ i.verified <= Len(i.chunks)
    /\ Recorded(i.chunks, n)

LEMMA ChunksAre ==
    ASSUME NEW i, NEW n, Well(i, n)
    PROVE  /\ i.chunks \in Seq(Chunks) /\ DOMAIN i.chunks = 1..Len(i.chunks)
           /\ Len(i.chunks) \in Nat /\ i.verified \in 0..Len(i.chunks)
           /\ \A k \in DOMAIN i.chunks :
                 /\ i.chunks[k].start \in Nat /\ i.chunks[k].end \in Nat
                 /\ i.chunks[k].start < i.chunks[k].end /\ i.chunks[k].end <= n
           /\ \A j, k \in DOMAIN i.chunks : j < k => i.chunks[j].end <= i.chunks[k].start
  <1>1. /\ i.chunks \in Seq(Chunks) /\ i.verified \in Nat /\ i.verified <= Len(i.chunks)
        /\ Recorded(i.chunks, n)
    BY DEF Well, InterviewRows
  <1>2. \A k \in DOMAIN i.chunks : i.chunks[k] \in Chunks
    BY <1>1
  <1>3. \A k \in DOMAIN i.chunks : i.chunks[k].start \in Nat /\ i.chunks[k].end \in Nat
    BY <1>2 DEF Chunks
  <1>4. DOMAIN i.chunks = 1..Len(i.chunks) /\ Len(i.chunks) \in Nat /\ i.verified \in 0..Len(i.chunks)
    BY <1>1
  <1> QED
    BY <1>1, <1>3, <1>4 DEF Recorded

LEMMA VerifiedWell ==
    ASSUME NEW i, NEW n, Well(i, n), NEW through \in 0..Len(i.chunks)
    PROVE  Well(Verified(i, through), n) /\ Verified(i, through).chunks = i.chunks
  <1> DEFINE v == Max({i.verified, through})
  <1>1. v \in Nat /\ v <= Len(i.chunks)
    <2>1. i.verified \in Nat /\ i.verified <= Len(i.chunks) /\ through \in Nat
      BY DEF Well, InterviewRows
    <2>2. i.verified \in Int /\ through \in Int
      BY <2>1
    <2>3. v \in {i.verified, through}
      BY <2>2, MaxOfTwo
    <2> QED
      BY <2>1, <2>3
  <1> HIDE DEF v
  <1>2. Verified(i, through) = [i EXCEPT !.verified = v]
    BY DEF Verified, v
  <1> QED
    BY <1>1, <1>2 DEF Well, InterviewRows

\* The place of the last final answer, and of the open question.
LEMMA LastPlaces ==
    ASSUME NEW i, NEW n, Well(i, n)
    PROVE  /\ LastFinal(i) \in Nat
           /\ Max(Questions(i.turns)) \in Nat
  <1> DEFINE finals == Finals(i.turns) \cup {0}
             questions == Questions(i.turns)
             last == Len(i.turns)
  <1>1. last \in Nat /\ DOMAIN i.turns = 1..last
    BY DEF Well, InterviewRows
  <1>2. /\ finals \in SUBSET Nat /\ finals # {} /\ \A x \in finals : x <= last
        /\ questions \in SUBSET Nat /\ questions # {} /\ \A x \in questions : x <= last
    BY <1>1 DEF Finals, Questions, Well
  <1>3. LastFinal(i) = Max(finals)
    BY DEF LastFinal
  <1> HIDE DEF finals, questions, last
  <1>4. Max(finals) \in finals /\ Max(questions) \in questions
    BY <1>1, <1>2, MaxOf
  <1> QED
    BY <1>2, <1>3, <1>4 DEF questions

LEMMA CheckpointedWell ==
    ASSUME NEW i, NEW n, Well(i, n), NEW media \in Nat
    PROVE  Well(Checkpointed(i, media), n)
  <1> DEFINE c == [final |-> LastFinal(i), media |-> media]
             all == Append(i.checkpoints, c)
  <1>1. c \in Checkpoints
    BY LastPlaces DEF Checkpoints
  <1> HIDE DEF c
  <1>2. all \in Seq(Checkpoints)
    BY <1>1 DEF Well, InterviewRows
  <1>3. Checkpointed(i, media) = [i EXCEPT !.checkpoints = all]
    BY DEF Checkpointed, c
  <1> HIDE DEF all
  <1> QED
    BY <1>2, <1>3 DEF Well, InterviewRows

LEMMA TurnWell ==
    ASSUME NEW i, NEW n, Well(i, n), NEW turn \in Turns
    PROVE  Well([i EXCEPT !.turns = Append(@, turn)], n)
  <1> DEFINE all == Append(i.turns, turn)
  <1>1. i.turns \in Seq(Turns) /\ 1 \in Questions(i.turns)
    BY DEF Well, InterviewRows
  <1>2. all \in Seq(Turns) /\ 1 \in DOMAIN all /\ all[1] = i.turns[1]
    BY <1>1 DEF Questions
  <1> HIDE DEF all
  <1>3. 1 \in Questions(all)
    BY <1>1, <1>2 DEF Questions
  <1>4. [i EXCEPT !.turns = Append(@, turn)] = [i EXCEPT !.turns = all]
    BY DEF all
  <1> QED
    BY <1>2, <1>3, <1>4 DEF Well, InterviewRows

LEMMA ChunkWell ==
    ASSUME NEW i, NEW n, Well(i, n), NEW start \in Nat, NEW end \in Nat, NEW during \in Nat,
           n <= start, start < end
    PROVE  Well([i EXCEPT !.chunks = Append(@, Chunk(start, end, during))], end)
  <1> DEFINE c == Chunk(start, end, during)
             all == Append(i.chunks, c)
  <1>1. c \in Chunks /\ c.start = start /\ c.end = end
    BY DEF Chunk, Chunks
  <1>2. i.chunks \in Seq(Chunks) /\ n \in Nat /\ Recorded(i.chunks, n)
    BY DEF Well, InterviewRows
  <1> HIDE DEF c
  <1>3. /\ all \in Seq(Chunks) /\ Len(all) = Len(i.chunks) + 1
        /\ \A k \in 1..Len(i.chunks) : all[k] = i.chunks[k]
        /\ all[Len(i.chunks) + 1] = c
    BY <1>1, <1>2
  <1>4. Recorded(all, end)
    <2> HIDE DEF all
    <2>1. \A k \in DOMAIN all : k \in 1..Len(i.chunks) \/ k = Len(i.chunks) + 1
      BY <1>2, <1>3
    <2>2. \A k \in 1..Len(i.chunks) : all[k] \in Chunks /\ all[k].end <= n /\ all[k].start < all[k].end
      BY <1>2, <1>3 DEF Recorded
    <2>3. ASSUME NEW k \in DOMAIN all
          PROVE  all[k].start < all[k].end /\ all[k].end <= end
      <3>1. CASE k \in 1..Len(i.chunks)
        BY <1>2, <2>2, <3>1 DEF Chunks
      <3>2. CASE k = Len(i.chunks) + 1
        BY <1>1, <1>3, <3>2
      <3> QED
        BY <2>1, <3>1, <3>2
    <2>4. ASSUME NEW j \in DOMAIN all, NEW k \in DOMAIN all, j < k
          PROVE  all[j].end <= all[k].start
      <3>1. j \in 1..Len(i.chunks)
        BY <1>2, <1>3, <2>1, <2>4
      <3>2. CASE k \in 1..Len(i.chunks)
        BY <1>2, <1>3, <2>4, <3>1, <3>2 DEF Recorded
      <3>3. CASE k = Len(i.chunks) + 1
        <4>1. all[k].start = start /\ all[j].end <= n /\ all[j].end \in Nat
          BY <1>1, <1>3, <2>2, <3>1, <3>3 DEF Chunks
        <4> QED
          BY <1>2, <4>1
      <3> QED
        BY <2>1, <3>2, <3>3
    <2> QED
      BY <2>3, <2>4 DEF Recorded
  <1>5. [i EXCEPT !.chunks = Append(@, Chunk(start, end, during))] = [i EXCEPT !.chunks = all]
    BY DEF c
  <1>6. i.verified \in Nat /\ i.verified <= Len(all)
    BY <1>2, <1>3 DEF Well, InterviewRows
  <1>7. all \in Seq(Chunks)
    BY <1>3
  <1> HIDE DEF all
  <1> QED
    BY <1>4, <1>5, <1>6, <1>7 DEF Well, InterviewRows

LEMMA LaterWell ==
    ASSUME NEW i, NEW n, Well(i, n), NEW m \in Nat, n <= m
    PROVE  Well(i, m)
  <1>1. ASSUME NEW k \in DOMAIN i.chunks PROVE i.chunks[k].end <= m
    <2>1. i.chunks \in Seq(Chunks) /\ Recorded(i.chunks, n) /\ n \in Nat
      BY DEF Well, InterviewRows
    <2>2. i.chunks[k].end \in Nat /\ i.chunks[k].end <= n
      BY <1>1, ChunksAre
    <2> QED
      BY <2>1, <2>2
  <1> QED
    BY <1>1 DEF Well, Recorded

-----------------------------------------------------------------------------
(* The loop over the turns *)

Start == [ranges |-> <<>>, previous |-> 0, cursor |-> 0]

\* What the loop has past the turn n when it had b before it.
Past(i, b, n) == IF n \in Finals(i.turns) THEN AnswerRange(i, b, n) ELSE b

Runs(i, f, m) ==
    f = [n \in 0..m |->
            IF n = 0 THEN Start
            ELSE IF n \in Finals(i.turns) THEN AnswerRange(i, f[n - 1], n)
            ELSE f[n - 1]]

\* The loop ends, whatever the number of turns: there is no first one it does not get past.
LEMMA LoopRuns ==
    ASSUME NEW i, NEW m \in Nat
    PROVE  \E f : Runs(i, f, m)
  <1> DEFINE Stuck == {k \in Nat : ~ \E f : Runs(i, f, k)}
  <1>1. SUFFICES ASSUME Stuck # {} PROVE FALSE
    OBVIOUS
  <1> DEFINE l == Min(Stuck)
  <1>2. l \in Stuck /\ \A k \in Stuck : l <= k
    <2>1. Stuck \in SUBSET Nat
      OBVIOUS
    <2> HIDE DEF Stuck
    <2> QED
      BY <1>1, <2>1, MinOf
  <1> HIDE DEF l
  <1>3. l # 0
    <2>1. Runs(i, [n \in 0..0 |-> Start], 0)
      BY DEF Runs
    <2> QED
      BY <1>2, <2>1
  <1>4. l - 1 \in Nat /\ l \in Nat /\ ~(l - 1 \in Stuck)
    BY <1>2, <1>3
  <1>5. PICK f : Runs(i, f, l - 1)
    BY <1>4
  <1> DEFINE g == [n \in 0..l |-> IF n = l THEN Past(i, f[l - 1], l) ELSE f[n]]
  <1>6. Runs(i, g, l)
    <2> DEFINE h == [n \in 0..l |->
                        IF n = 0 THEN Start
                        ELSE IF n \in Finals(i.turns) THEN AnswerRange(i, g[n - 1], n)
                        ELSE g[n - 1]]
    <2>1. ASSUME NEW n \in 0..l PROVE g[n] = h[n]
      <3>1. CASE n = l
        <4>1. g[l] = Past(i, f[l - 1], l) /\ g[l - 1] = f[l - 1]
          BY <1>4
        <4>2. h[l] = IF l \in Finals(i.turns) THEN AnswerRange(i, g[l - 1], l) ELSE g[l - 1]
          BY <1>3, <1>4
        <4> QED
          BY <3>1, <4>1, <4>2 DEF Past
      <3>2. CASE n # l /\ n # 0
        <4>1. n \in 0..(l - 1) /\ n - 1 \in 0..l /\ n - 1 # l /\ g[n] = f[n] /\ g[n - 1] = f[n - 1]
          BY <1>4, <3>2
        <4>2. f[n] = IF n \in Finals(i.turns) THEN AnswerRange(i, f[n - 1], n) ELSE f[n - 1]
          BY <1>5, <3>2, <4>1 DEF Runs
        <4> HIDE DEF g
        <4> QED
          BY <3>2, <4>1, <4>2
      <3>3. CASE n # l /\ n = 0
        <4>1. g[n] = f[0] /\ h[n] = Start /\ 0 \in 0..(l - 1)
          BY <1>3, <1>4, <3>3
        <4>2. f[0] = Start
          BY <1>5, <4>1 DEF Runs
        <4> QED
          BY <4>1, <4>2
      <3> QED
        BY <3>1, <3>2, <3>3
    <2>2. g = h
      BY <2>1
    <2> QED
      BY <2>2 DEF Runs
  <1> QED
    BY <1>2, <1>6

Looped(i, f, last) == f[0] = Start /\ \A n \in 1..last : f[n] = Past(i, f[n - 1], n)

LEMMA AnswersRun ==
    ASSUME NEW i, NEW last, last = Len(i.turns), last \in Nat
    PROVE  \E f : Looped(i, f, last) /\ Answers(i) = f[last]
  <1>1. PICK f : Runs(i, f, last) /\ Answers(i) = f[last]
    <2>1. \E f : Runs(i, f, last)
      BY LoopRuns
    <2>2. Answers(i) = (CHOOSE f : Runs(i, f, last))[last]
      BY DEF Answers, Runs, Start
    <2> QED
      BY <2>1, <2>2
  <1>2. f[0] = Start
    BY <1>1 DEF Runs
  <1>3. ASSUME NEW n \in 1..last PROVE f[n] = Past(i, f[n - 1], n)
    <2>1. n \in 0..last /\ n # 0
      OBVIOUS
    <2> QED
      BY <1>1, <2>1 DEF Runs, Past
  <1> QED
    BY <1>1, <1>2, <1>3 DEF Looped

-----------------------------------------------------------------------------
(* The ranges of the answers *)

Ranges == [turn : Nat, start : Nat, end : Nat, media : BOOLEAN]

\* Every final turn up to n has its range, in the order of the turns.
Placed(i, n, r) ==
    /\ \A x \in DOMAIN r :
          r[x].start < r[x].end /\ r[x].turn \in Finals(i.turns) /\ r[x].turn <= n
    /\ \A x, y \in DOMAIN r : x < y => r[x].turn < r[y].turn
    /\ \A t \in Finals(i.turns) : t <= n => \E x \in DOMAIN r : r[x].turn = t

\* The media of the answers do not meet, and what is left begins after them.
Parted(i, r, previous) ==
    /\ \A x \in DOMAIN r : r[x].media =>
          \A k \in 1..i.verified : previous < k => r[x].end <= i.chunks[k].start
    /\ \A x, y \in DOMAIN r : x < y /\ r[x].media /\ r[y].media => r[x].end <= r[y].start

Settled(i, n, b) ==
    /\ b.ranges \in Seq(Ranges) /\ b.previous \in Nat /\ b.cursor \in Nat
    /\ Placed(i, n, b.ranges)
    /\ Parted(i, b.ranges, b.previous)

LEMMA MediaIsAPlace ==
    ASSUME NEW i, NEW n, Well(i, n), NEW turn, NEW default \in Nat
    PROVE  CheckpointMedia(i, turn, default) \in Nat
  <1> DEFINE of == {c \in DOMAIN i.checkpoints : i.checkpoints[c].final = turn}
             last == Len(i.checkpoints)
  <1>1. i.checkpoints \in Seq(Checkpoints)
    BY DEF Well, InterviewRows
  <1>2. of \in SUBSET Nat /\ last \in Nat /\ (\A c \in of : c <= last) /\ of \subseteq DOMAIN i.checkpoints
    BY <1>1
  <1>3. CheckpointMedia(i, turn, default) = IF of = {} THEN default ELSE i.checkpoints[Max(of)].media
    BY DEF CheckpointMedia
  <1> HIDE DEF of, last
  <1>4. CASE of # {}
    <2>1. Max(of) \in DOMAIN i.checkpoints
      BY <1>2, <1>4, MaxOf
    <2>2. i.checkpoints[Max(of)] \in Checkpoints
      BY <1>1, <2>1
    <2> QED
      BY <1>3, <1>4, <2>2 DEF Checkpoints
  <1> QED
    BY <1>3, <1>4

\* The chunks after previous and up to last; cursor is where a range without any begins.
Mine(i, previous, last) == {k \in 1..i.verified : previous < k /\ k <= last}

StartOf(i, mine, cursor) == IF mine = {} THEN cursor ELSE Min({i.chunks[k].start : k \in mine})

EndOf(i, mine, start) == IF mine = {} THEN start + Second ELSE Max({i.chunks[k].end : k \in mine})

Spans(i, mine, start, end) ==
    /\ start \in Nat /\ end \in Nat /\ start < end
    /\ mine # {} => /\ \E j \in mine : start = i.chunks[j].start
                    /\ \E k \in mine : end = i.chunks[k].end

LEMMA RangeIs ==
    ASSUME NEW i, NEW n, Well(i, n), NEW previous \in Nat, NEW last \in Nat, NEW cursor \in Nat,
           NEW mine, mine = Mine(i, previous, last),
           NEW start, start = StartOf(i, mine, cursor), NEW end, end = EndOf(i, mine, start)
    PROVE  Spans(i, mine, start, end)
  <1>1. mine \subseteq DOMAIN i.chunks
    BY ChunksAre DEF Mine
  <1>2. CASE mine = {}
    BY <1>2, SecondAssumption DEF StartOf, EndOf, Spans
  <1>3. CASE mine # {}
    <2> DEFINE starts == {i.chunks[k].start : k \in mine}
               ends == {i.chunks[k].end : k \in mine}
    <2>1. /\ starts \in SUBSET Nat /\ starts # {}
          /\ ends \in SUBSET Nat /\ ends # {} /\ n \in Nat /\ \A x \in ends : x <= n
      BY <1>1, <1>3, ChunksAre DEF Well
    <2>2. start = Min(starts) /\ end = Max(ends)
      BY <1>3 DEF StartOf, EndOf
    <2>3. start \in starts /\ (\A x \in starts : start <= x) /\ end \in ends /\ \A x \in ends : x <= end
      <3> HIDE DEF starts, ends
      <3>1. start \in starts /\ \A x \in starts : start <= x
        BY <2>1, <2>2, MinOf
      <3>2. end \in ends /\ \A x \in ends : x <= end
        BY <2>1, <2>2, MaxOf
      <3> QED
        BY <3>1, <3>2
    <2>4. PICK j \in mine, k \in mine : start = i.chunks[j].start /\ end = i.chunks[k].end
      BY <2>3
    <2>5. i.chunks[j].start < i.chunks[j].end /\ i.chunks[j].end <= end
      BY <1>1, <2>3, ChunksAre
    <2>6. start \in Nat /\ end \in Nat /\ i.chunks[j].end \in Nat
      BY <1>1, <2>4, ChunksAre
    <2>7. start < end
      BY <2>4, <2>5, <2>6
    <2> QED
      BY <2>4, <2>6, <2>7 DEF Spans
  <1> QED
    BY <1>2, <1>3

\* What a final turn adds.
Gets(i, b, turn, last, start, end, media) ==
    LET mine == Mine(i, b.previous, last)
    IN  /\ start < end
        /\ media => /\ \E j \in mine : start = i.chunks[j].start
                    /\ \E k \in mine : end = i.chunks[k].end
        /\ AnswerRange(i, b, turn) =
              [ranges |-> Append(b.ranges, TimeRange(turn, start, end, media)),
               previous |-> Max({b.previous, last}), cursor |-> Max({b.cursor, end})]

LEMMA AddedRange ==
    ASSUME NEW i, NEW n, Well(i, n), NEW turn, NEW b, b.previous \in Nat, b.cursor \in Nat
    PROVE  \E last \in Nat, start \in Nat, end \in Nat, media \in BOOLEAN :
              Gets(i, b, turn, last, start, end, media)
  <1> DEFINE last == CheckpointMedia(i, turn, b.previous)
             mine == Mine(i, b.previous, last)
             start == StartOf(i, mine, b.cursor)
             end == EndOf(i, mine, start)
             media == mine # {}
  <1>1. AnswerRange(i, b, turn) =
            [ranges |-> Append(b.ranges, TimeRange(turn, start, end, media)),
             previous |-> Max({b.previous, last}), cursor |-> Max({b.cursor, end})]
    BY DEF AnswerRange, Mine, StartOf, EndOf
  <1>2. last \in Nat
    BY MediaIsAPlace
  <1>3. media \in BOOLEAN /\ (media => mine # {})
    OBVIOUS
  <1>4. mine = Mine(i, b.previous, last) /\ start = StartOf(i, mine, b.cursor)
        /\ end = EndOf(i, mine, start)
    OBVIOUS
  <1> HIDE DEF last, mine, start, end, media
  <1>5. /\ start \in Nat /\ end \in Nat /\ start < end
        /\ mine # {} => /\ \E j \in mine : start = i.chunks[j].start
                        /\ \E k \in mine : end = i.chunks[k].end
    <2>1. Spans(i, mine, start, end)
      BY <1>2, <1>4, RangeIs
    <2> QED
      BY <2>1 DEF Spans
  <1>6. Gets(i, b, turn, last, start, end, media)
    BY <1>1, <1>3, <1>4, <1>5 DEF Gets
  <1> QED
    BY <1>2, <1>3, <1>5, <1>6

\* A range after the others keeps them in order and apart.
LEMMA PlacedNext ==
    ASSUME NEW i, NEW n \in Nat \ {0}, NEW r \in Seq(Ranges), Placed(i, n - 1, r),
           n \in Finals(i.turns), Finals(i.turns) \subseteq Nat,
           NEW a \in Ranges, a.turn = n, a.start < a.end
    PROVE  Placed(i, n, Append(r, a))
  <1> DEFINE s == Append(r, a)
             l == Len(r)
  <1>1. /\ l \in Nat /\ DOMAIN r = 1..l /\ DOMAIN s = 1..(l + 1)
        /\ \A x \in 1..l : s[x] = r[x] /\ r[x] \in Ranges
        /\ s[l + 1] = a
    OBVIOUS
  <1> HIDE DEF s, l
  <1>2. \A x \in 1..l : /\ r[x].turn \in Nat /\ r[x].turn <= n - 1
                        /\ r[x].start < r[x].end /\ r[x].turn \in Finals(i.turns)
    BY <1>1 DEF Placed, Ranges
  <1>3. ASSUME NEW x \in DOMAIN s
        PROVE  s[x].start < s[x].end /\ s[x].turn \in Finals(i.turns) /\ s[x].turn <= n
    <2>1. CASE x \in 1..l
      <3>1. s[x] = r[x] /\ r[x].turn <= n - 1 /\ r[x].turn \in Nat
        BY <1>1, <1>2, <2>1
      <3> QED
        BY <1>2, <2>1, <3>1
    <2>2. CASE x = l + 1
      BY <1>1, <2>2
    <2> QED
      BY <1>1, <2>1, <2>2
  <1>4. ASSUME NEW x \in DOMAIN s, NEW y \in DOMAIN s, x < y
        PROVE  s[x].turn < s[y].turn
    <2>1. x \in 1..l
      BY <1>1, <1>4
    <2>2. CASE y \in 1..l
      BY <1>1, <1>4, <2>1, <2>2 DEF Placed
    <2>3. CASE y = l + 1
      <3>1. s[x] = r[x] /\ r[x].turn <= n - 1 /\ r[x].turn \in Nat /\ s[y] = a
        BY <1>1, <1>2, <2>1, <2>3
      <3> QED
        BY <3>1
    <2> QED
      BY <1>1, <2>2, <2>3
  <1>5. ASSUME NEW t \in Finals(i.turns), t <= n
        PROVE  \E x \in DOMAIN s : s[x].turn = t
    <2>1. CASE t = n
      <3>1. l + 1 \in DOMAIN s
        BY <1>1
      <3> QED
        BY <1>1, <2>1, <3>1
    <2>2. CASE t # n
      <3>1. t <= n - 1
        BY <1>5, <2>2
      <3>2. PICK x \in DOMAIN r : r[x].turn = t
        BY <3>1 DEF Placed
      <3>3. x \in DOMAIN s /\ s[x] = r[x]
        BY <1>1, <3>2
      <3> QED
        BY <3>2, <3>3
    <2> QED
      BY <2>1, <2>2
  <1> QED
    BY <1>3, <1>4, <1>5 DEF Placed, s

LEMMA PartedNext ==
    ASSUME NEW i, NEW n, Well(i, n), NEW r \in Seq(Ranges),
           NEW previous \in Nat, NEW last \in Nat, Parted(i, r, previous),
           NEW a \in Ranges, NEW max \in Nat, previous <= max, last <= max,
           a.media => /\ \E j \in Mine(i, previous, last) : a.start = i.chunks[j].start
                      /\ \E k \in Mine(i, previous, last) : a.end = i.chunks[k].end
    PROVE  Parted(i, Append(r, a), max)
  <1> DEFINE s == Append(r, a)
             l == Len(r)
  <1>1. /\ l \in Nat /\ DOMAIN r = 1..l /\ DOMAIN s = 1..(l + 1)
        /\ \A x \in 1..l : s[x] = r[x]
        /\ s[l + 1] = a
    OBVIOUS
  <1> HIDE DEF s, l
  <1>2. ASSUME NEW x \in DOMAIN s, s[x].media, NEW k \in 1..i.verified, max < k
        PROVE  s[x].end <= i.chunks[k].start
    <2>1. CASE x \in 1..l
      <3>1. s[x] = r[x] /\ r[x].media /\ previous < k /\ x \in DOMAIN r
        BY <1>1, <1>2, <2>1
      <3> QED
        BY <3>1 DEF Parted
    <2>2. CASE x = l + 1
      <3>1. PICK m \in Mine(i, previous, last) : a.end = i.chunks[m].end
        BY <1>1, <1>2, <2>2
      <3>2. m \in DOMAIN i.chunks /\ k \in DOMAIN i.chunks /\ m < k
        BY <1>2, ChunksAre DEF Mine
      <3> QED
        BY <1>1, <2>2, <3>1, <3>2, ChunksAre
    <2> QED
      BY <1>1, <2>1, <2>2
  <1>3. ASSUME NEW x \in DOMAIN s, NEW y \in DOMAIN s, x < y, s[x].media, s[y].media
        PROVE  s[x].end <= s[y].start
    <2>1. x \in 1..l
      BY <1>1, <1>3
    <2>2. s[x] = r[x] /\ r[x].media /\ x \in DOMAIN r
      BY <1>1, <1>3, <2>1
    <2>3. CASE y \in 1..l
      <3>1. s[y] = r[y] /\ r[y].media /\ y \in DOMAIN r
        BY <1>1, <1>3, <2>3
      <3> QED
        BY <1>3, <2>2, <3>1 DEF Parted
    <2>4. CASE y = l + 1
      <3>1. PICK j \in Mine(i, previous, last) : a.start = i.chunks[j].start
        BY <1>1, <1>3, <2>4
      <3>2. r[x].end <= i.chunks[j].start
        BY <2>2 DEF Parted, Mine
      <3> QED
        BY <1>1, <2>2, <2>4, <3>1, <3>2
    <2> QED
      BY <1>1, <2>3, <2>4
  <1> QED
    BY <1>2, <1>3 DEF Parted, s

LEMMA PastSettles ==
    ASSUME NEW i, NEW m, Well(i, m), NEW n \in Nat \ {0}, NEW b, Settled(i, n - 1, b)
    PROVE  Settled(i, n, Past(i, b, n))
  <1>1. Finals(i.turns) \subseteq Nat
    BY DEF Finals, Well, InterviewRows
  <1>2. CASE n \notin Finals(i.turns)
    <2>1. Past(i, b, n) = b
      BY <1>2 DEF Past
    <2>2. \A x \in DOMAIN b.ranges : b.ranges[x].turn <= n
      BY <1>1 DEF Settled, Placed
    <2>3. \A t \in Finals(i.turns) : t <= n => t <= n - 1
      BY <1>1, <1>2
    <2>4. Placed(i, n, b.ranges)
      BY <2>2, <2>3 DEF Settled, Placed
    <2> QED
      BY <2>1, <2>4 DEF Settled
  <1>3. CASE n \in Finals(i.turns)
    <2>1. b.previous \in Nat /\ b.cursor \in Nat /\ b.ranges \in Seq(Ranges)
          /\ Placed(i, n - 1, b.ranges) /\ Parted(i, b.ranges, b.previous)
      BY DEF Settled
    <2>2. PICK last \in Nat, start \in Nat, end \in Nat, media \in BOOLEAN :
              Gets(i, b, n, last, start, end, media)
      BY <2>1, AddedRange
    <2>3. LET mine == Mine(i, b.previous, last)
          IN  /\ start < end
              /\ media => /\ \E j \in mine : start = i.chunks[j].start
                          /\ \E k \in mine : end = i.chunks[k].end
              /\ AnswerRange(i, b, n) =
                    [ranges |-> Append(b.ranges, TimeRange(n, start, end, media)),
                     previous |-> Max({b.previous, last}), cursor |-> Max({b.cursor, end})]
      BY <2>2 DEF Gets
    <2> DEFINE a == TimeRange(n, start, end, media)
               previous == Max({b.previous, last})
               cursor == Max({b.cursor, end})
               ranges == Append(b.ranges, a)
    <2>4. a \in Ranges /\ a.turn = n /\ a.start = start /\ a.end = end /\ (a.media <=> media)
      BY DEF TimeRange, Ranges
    <2>5. previous \in Nat /\ b.previous <= previous /\ last <= previous /\ cursor \in Nat
      <3>1. b.previous \in Int /\ last \in Int /\ b.cursor \in Int /\ end \in Int
        BY <2>1
      <3>2. previous \in {b.previous, last} /\ previous >= b.previous /\ previous >= last
        BY <3>1, MaxOfTwo
      <3>3. cursor \in {b.cursor, end}
        BY <3>1, MaxOfTwo
      <3> HIDE DEF previous, cursor
      <3> QED
        BY <2>1, <3>2, <3>3
    <2>6. Past(i, b, n) = [ranges |-> ranges, previous |-> previous, cursor |-> cursor]
      BY <1>3, <2>3 DEF Past
    <2> HIDE DEF a, previous, cursor
    <2>7. ranges \in Seq(Ranges)
      BY <2>1, <2>4
    <2>8. Placed(i, n, ranges)
      BY <1>1, <1>3, <2>1, <2>3, <2>4, PlacedNext
    <2>9. Parted(i, ranges, previous)
      BY <2>1, <2>3, <2>4, <2>5, PartedNext
    <2> HIDE DEF ranges
    <2> QED
      BY <2>5, <2>6, <2>7, <2>8, <2>9 DEF Settled
  <1> QED
    BY <1>2, <1>3

\* What is settled turn by turn is settled in the end.
LEMMA AnswersSettled ==
    ASSUME NEW i, NEW m, Well(i, m)
    PROVE  Settled(i, Len(i.turns), Answers(i))
  <1> DEFINE last == Len(i.turns)
  <1>1. last \in Nat
    BY DEF Well, InterviewRows
  <1>2. last = Len(i.turns)
    OBVIOUS
  <1> HIDE DEF last
  <1>3. PICK f : Looped(i, f, last) /\ Answers(i) = f[last]
    BY <1>1, <1>2, AnswersRun
  <1>4. Settled(i, 0, Start)
    <2>1. Finals(i.turns) \subseteq Nat \ {0}
      BY DEF Finals, Well, InterviewRows
    <2>2. Start.ranges = <<>> /\ Start.previous = 0 /\ Start.cursor = 0
      BY DEF Start
    <2>3. <<>> \in Seq(Ranges) /\ DOMAIN <<>> = {}
      OBVIOUS
    <2>4. \A t \in Finals(i.turns) : ~(t <= 0)
      BY <2>1
    <2> QED
      BY <2>2, <2>3, <2>4 DEF Settled, Placed, Parted
  <1> DEFINE Unsettled == {n \in 0..last : ~Settled(i, n, f[n])}
  <1>5. Unsettled = {}
    <2> SUFFICES ASSUME Unsettled # {} PROVE FALSE
      OBVIOUS
    <2> DEFINE n == Min(Unsettled)
    <2>1. n \in Unsettled /\ \A k \in Unsettled : n <= k
      <3>1. Unsettled \in SUBSET Nat
        BY <1>1
      <3> HIDE DEF Unsettled
      <3> QED
        BY <3>1, MinOf
    <2> HIDE DEF n
    <2>2. n # 0
      BY <1>3, <1>4, <2>1 DEF Looped
    <2>3. n - 1 \in 0..last /\ n \in 1..last /\ n - 1 \notin Unsettled /\ n \in Nat \ {0}
      BY <1>1, <2>1, <2>2
    <2>4. Settled(i, n - 1, f[n - 1])
      BY <2>3
    <2>5. Settled(i, n, Past(i, f[n - 1], n))
      BY <2>3, <2>4, PastSettles
    <2> QED
      BY <1>3, <2>1, <2>3, <2>5 DEF Looped
  <1> QED
    BY <1>1, <1>3, <1>5, <1>2

-----------------------------------------------------------------------------
(* What is recorded, and the gaps *)

Captured(i, t) ==
    \E c \in 1..i.verified : i.chunks[c].start <= t /\ t < i.chunks[c].end

\* The pairs of Gaps.
Covers(gap, t) == gap[1] <= t /\ t < gap[2]

LEMMA VerifiedAre ==
    ASSUME NEW i, NEW n, Well(i, n), NEW v, v = VerifiedChunks(i)
    PROVE  /\ v \in Seq(Chunks) /\ Len(v) = i.verified /\ DOMAIN v = 1..i.verified
           /\ \A k \in DOMAIN v : v[k] = i.chunks[k]
           /\ \A k \in 1..i.verified : k \in DOMAIN i.chunks
           /\ i.verified \in Nat
  <1>1. i.chunks \in Seq(Chunks) /\ i.verified \in 0..Len(i.chunks) /\ Len(i.chunks) \in Nat
        /\ DOMAIN i.chunks = 1..Len(i.chunks)
    BY ChunksAre
  <1>2. i.verified \in Nat /\ i.verified <= Len(i.chunks)
    BY <1>1
  <1>3. /\ Len(v) = i.verified /\ DOMAIN v = 1..i.verified /\ v \in Seq(Chunks)
        /\ \A k \in 1..i.verified : v[k] = i.chunks[k]
    BY <1>1, <1>2 DEF VerifiedChunks
  <1> QED
    BY <1>1, <1>2, <1>3

LEMMA CursorIs ==
    ASSUME NEW s \in Seq(Chunks), NEW n \in Nat, \A k \in DOMAIN s : s[k].end <= n
    PROVE  /\ Cursor(s) \in Nat
           /\ \A k \in DOMAIN s : s[k].end <= Cursor(s)
           /\ Cursor(s) = 0 \/ \E k \in DOMAIN s : Cursor(s) = s[k].end
  <1> DEFINE ends == {s[k].end : k \in DOMAIN s} \cup {0}
  <1>1. ends \in SUBSET Nat /\ ends # {} /\ \A x \in ends : x <= n
    <2>1. \A k \in DOMAIN s : s[k] \in Chunks
      OBVIOUS
    <2> QED
      BY <2>1 DEF Chunks
  <1>2. Cursor(s) = Max(ends)
    BY DEF Cursor
  <1>3. Cursor(s) \in ends /\ \A x \in ends : x <= Cursor(s)
    <2> HIDE DEF ends
    <2> QED
      BY <1>1, <1>2, MaxOf
  <1> QED
    BY <1>1, <1>3

\* The chunks before the k-th reach no further than it begins.
LEMMA CursorBefore ==
    ASSUME NEW i, NEW n, Well(i, n), NEW v, v = VerifiedChunks(i), NEW k \in DOMAIN v,
           NEW cursor, cursor = Cursor(SubSeq(v, 1, k - 1))
    PROVE  /\ cursor \in Nat
           /\ \A j \in 1..(k - 1) : i.chunks[j].end <= cursor
           /\ cursor = 0 \/ \E j \in 1..(k - 1) : cursor = i.chunks[j].end
  <1> DEFINE s == SubSeq(v, 1, k - 1)
  <1>1. /\ v \in Seq(Chunks) /\ Len(v) = i.verified /\ DOMAIN v = 1..i.verified
        /\ \A j \in DOMAIN v : v[j] = i.chunks[j] /\ j \in DOMAIN i.chunks
        /\ i.verified \in Nat
    BY VerifiedAre
  <1>2. /\ s \in Seq(Chunks) /\ DOMAIN s = 1..(k - 1)
        /\ \A j \in 1..(k - 1) : s[j] = v[j] /\ j \in DOMAIN v
    BY <1>1
  <1> HIDE DEF s
  <1>3. \A j \in DOMAIN s : s[j].end <= n
    BY <1>1, <1>2, ChunksAre
  <1>4. n \in Nat
    BY DEF Well
  <1>5. /\ Cursor(s) \in Nat
        /\ \A j \in DOMAIN s : s[j].end <= Cursor(s)
        /\ Cursor(s) = 0 \/ \E j \in DOMAIN s : Cursor(s) = s[j].end
    BY <1>2, <1>3, <1>4, CursorIs
  <1>6. cursor = Cursor(s)
    BY DEF s
  <1> QED
    BY <1>1, <1>2, <1>5, <1>6

LEMMA GapsAre ==
    ASSUME NEW i, NEW n, Well(i, n), NEW gap \in Gaps(VerifiedChunks(i))
    PROVE  /\ gap[1] \in Nat /\ gap[2] \in Nat /\ gap[1] < gap[2]
           /\ \A t \in Nat : Covers(gap, t) => ~Captured(i, t)
  <1> DEFINE v == VerifiedChunks(i)
  <1>1. PICK k \in DOMAIN v : gap = <<Cursor(SubSeq(v, 1, k - 1)), v[k].start>>
                              /\ v[k].start > Cursor(SubSeq(v, 1, k - 1))
    BY DEF Gaps
  <1>2. /\ DOMAIN v = 1..i.verified /\ i.verified \in Nat
        /\ \A j \in DOMAIN v : v[j] = i.chunks[j] /\ j \in DOMAIN i.chunks
    BY VerifiedAre
  <1> DEFINE cursor == Cursor(SubSeq(v, 1, k - 1))
  <1>3. cursor \in Nat /\ \A j \in 1..(k - 1) : i.chunks[j].end <= cursor
    BY CursorBefore
  <1>4. gap[1] = cursor /\ gap[2] = v[k].start /\ gap[1] < gap[2]
    BY <1>1
  <1> HIDE DEF v, cursor
  <1>5. gap[2] = i.chunks[k].start /\ gap[2] \in Nat
    BY <1>2, <1>4, ChunksAre
  <1>6. ASSUME NEW t \in Nat, Covers(gap, t), Captured(i, t) PROVE FALSE
    <2>1. PICK c \in 1..i.verified : i.chunks[c].start <= t /\ t < i.chunks[c].end
      BY <1>6 DEF Captured
    <2>2. cursor <= t /\ t < i.chunks[k].start
      BY <1>4, <1>5, <1>6 DEF Covers
    <2>3. c \in DOMAIN i.chunks /\ k \in DOMAIN i.chunks /\ c \in Nat /\ k \in Nat
      BY <1>2, <2>1
    <2>4. CASE c < k
      <3>1. i.chunks[c].end <= cursor
        BY <1>3, <2>1, <2>3, <2>4
      <3> QED
        BY <1>3, <2>1, <2>2, <2>3, <3>1, ChunksAre
    <2>5. CASE c = k
      BY <1>5, <2>1, <2>2, <2>5
    <2>6. CASE k < c
      <3>1. /\ i.chunks[k].start < i.chunks[k].end /\ i.chunks[k].end <= i.chunks[c].start
            /\ i.chunks[k].start \in Nat /\ i.chunks[k].end \in Nat /\ i.chunks[c].start \in Nat
        BY <2>3, <2>6, ChunksAre
      <3> QED
        BY <2>1, <2>2, <3>1
    <2> QED
      BY <2>3, <2>4, <2>5, <2>6
  <1> QED
    BY <1>3, <1>4, <1>5, <1>6

\* A moment before the end of the recording is in a chunk or in a gap.
LEMMA GapsCover ==
    ASSUME NEW i, NEW n, Well(i, n), NEW t \in Nat, t < Cursor(VerifiedChunks(i)), ~Captured(i, t)
    PROVE  \E gap \in Gaps(VerifiedChunks(i)) : Covers(gap, t)
  <1> DEFINE v == VerifiedChunks(i)
             Ahead == {k \in 1..i.verified : t < i.chunks[k].end}
  <1>1. /\ v \in Seq(Chunks) /\ DOMAIN v = 1..i.verified /\ i.verified \in Nat
        /\ \A j \in DOMAIN v : v[j] = i.chunks[j] /\ j \in DOMAIN i.chunks
    BY VerifiedAre
  <1>2. Ahead # {}
    <2>1. \A j \in DOMAIN v : v[j].end <= n
      BY <1>1, ChunksAre
    <2>2. n \in Nat
      BY DEF Well
    <2> HIDE DEF v
    <2>3. Cursor(v) = 0 \/ \E j \in DOMAIN v : Cursor(v) = v[j].end
      BY <1>1, <2>1, <2>2, CursorIs
    <2>4. t < Cursor(v)
      BY DEF v
    <2> QED
      BY <1>1, <2>3, <2>4
  <1> DEFINE k == Min(Ahead)
  <1>3. k \in Ahead /\ \A j \in Ahead : k <= j
    <2>1. Ahead \in SUBSET Nat
      OBVIOUS
    <2> HIDE DEF Ahead
    <2> QED
      BY <1>2, <2>1, MinOf
  <1> DEFINE cursor == Cursor(SubSeq(v, 1, k - 1))
             gap == <<cursor, v[k].start>>
  <1>4. k \in DOMAIN v /\ k \in DOMAIN i.chunks /\ k \in 1..i.verified /\ v[k] = i.chunks[k]
    <2> HIDE DEF v, k
    <2> QED
      BY <1>1, <1>3
  <1>5. /\ cursor \in Nat
        /\ cursor = 0 \/ \E j \in 1..(k - 1) : cursor = i.chunks[j].end
    <2> HIDE DEF k
    <2> QED
      BY <1>4, CursorBefore
  <1>6. v \in Seq(Chunks) /\ cursor = Cursor(SubSeq(v, 1, k - 1)) /\ v = VerifiedChunks(i)
    BY <1>1
  <1> HIDE DEF k, cursor, v
  <1>7. cursor <= t
    <2>1. ASSUME NEW j \in 1..(k - 1), cursor = i.chunks[j].end PROVE cursor <= t
      <3>1. j \in 1..i.verified /\ ~(k <= j) /\ j \in DOMAIN i.chunks
        BY <1>1, <1>4
      <3>2. ~(t < i.chunks[j].end)
        BY <1>3, <3>1
      <3> QED
        BY <1>5, <2>1, <3>2
    <2> QED
      BY <1>5, <2>1
  <1>8. t < v[k].start /\ v[k].start \in Nat
    <2>1. i.chunks[k].start \in Nat /\ t < i.chunks[k].end
      BY <1>3, <1>4, ChunksAre
    <2>2. ~(i.chunks[k].start <= t)
      BY <1>4, <2>1 DEF Captured
    <2> QED
      BY <1>4, <2>1, <2>2
  <1>9. gap \in Gaps(v)
    <2>1. v[k].start > Cursor(SubSeq(v, 1, k - 1))
      BY <1>5, <1>6, <1>7, <1>8
    <2> QED
      BY <1>4, <1>6, <2>1 DEF Gaps
  <1>10. Covers(gap, t)
    BY <1>7, <1>8 DEF Covers
  <1> QED
    BY <1>6, <1>9, <1>10

\* An asset of verified chunks is as long as they are, and misses their gaps; one of none
\* misses all of its one millisecond.
LEMMA AssetIs ==
    ASSUME NEW i, NEW n, Well(i, n), NEW v, v = VerifiedChunks(i),
           NEW asset, asset = RecordingAsset(i)
    PROVE  /\ v = <<>> => /\ i.verified = 0 /\ asset.duration = 1 /\ asset.missing = {<<0, 1>>}
                          /\ asset.status = "failed"
           /\ v # <<>> => /\ asset.duration = Cursor(v) /\ asset.missing = Gaps(v)
                          /\ asset.status \in {"ready", "partial"}
           /\ Cursor(v) \in Nat /\ \A c \in 1..i.verified : i.chunks[c].end <= Cursor(v)
  <1>1. /\ v \in Seq(Chunks) /\ Len(v) = i.verified /\ DOMAIN v = 1..i.verified
        /\ \A k \in DOMAIN v : v[k] = i.chunks[k]
        /\ \A k \in 1..i.verified : k \in DOMAIN i.chunks
        /\ i.verified \in Nat
    BY VerifiedAre
  <1> DEFINE cursor == Cursor(v)
             duration == Max({1, cursor})
             missing == IF v = <<>> THEN {<<0, duration>>} ELSE Gaps(v)
  <1>2. /\ asset.duration = duration /\ asset.missing = missing
        /\ asset.status = IF v = <<>> THEN "failed" ELSE IF missing # {} THEN "partial" ELSE "ready"
    BY DEF RecordingAsset
  <1>3. cursor \in Nat /\ \A k \in DOMAIN v : v[k].end <= cursor
    <2>1. n \in Nat /\ \A k \in DOMAIN v : v[k].end <= n
      BY <1>1, ChunksAre DEF Well
    <2> QED
      BY <1>1, <2>1, CursorIs
  <1>4. v = <<>> => cursor = 0
    <2>1. n \in Nat /\ \A k \in DOMAIN v : v[k].end <= n
      BY <1>1, ChunksAre DEF Well
    <2>2. cursor = 0 \/ \E k \in DOMAIN v : cursor = v[k].end
      BY <1>1, <2>1, CursorIs
    <2> QED
      BY <2>2
  <1>5. v # <<>> => cursor >= 1
    <2> SUFFICES ASSUME v # <<>> PROVE cursor >= 1
      OBVIOUS
    <2>1. 1 \in DOMAIN v /\ 1 \in DOMAIN i.chunks /\ v[1] = i.chunks[1]
      BY <1>1
    <2>2. v[1].end <= cursor /\ v[1].end \in Nat /\ v[1].start \in Nat /\ v[1].start < v[1].end
      BY <1>3, <2>1, ChunksAre
    <2> QED
      BY <1>3, <2>2
  <1>6. duration \in {1, cursor} /\ duration >= 1 /\ duration >= cursor
    <2>1. 1 \in Int /\ cursor \in Int
      BY <1>3
    <2> HIDE DEF cursor
    <2> QED
      BY <2>1, MaxOfTwo
  <1>7. \A c \in 1..i.verified : i.chunks[c].end <= cursor
    BY <1>1, <1>3
  <1>8. v = <<>> => i.verified = 0
    BY <1>1
  <1>9. v = <<>> => duration = 1
    BY <1>3, <1>4, <1>6
  <1>10. v # <<>> => duration = cursor
    BY <1>3, <1>5, <1>6
  <1> HIDE DEF duration
  <1> QED
    BY <1>2, <1>3, <1>7, <1>8, <1>9, <1>10

\* The rule of the timeline tells apart just what is recorded.
LEMMA AvailableIs ==
    ASSUME NEW i, NEW n, Well(i, n), NEW range,
           range.start \in Nat, range.end \in Nat, range.start < range.end
    PROVE  Available(RecordingAsset(i), range)
             <=> \A t \in range.start..(range.end - 1) : Captured(i, t)
  <1> DEFINE asset == RecordingAsset(i)
             v == VerifiedChunks(i)
  <1>1. /\ v = <<>> => /\ i.verified = 0 /\ asset.duration = 1 /\ asset.missing = {<<0, 1>>}
        /\ v # <<>> => /\ asset.duration = Cursor(v) /\ asset.missing = Gaps(v)
        /\ Cursor(v) \in Nat /\ \A c \in 1..i.verified : i.chunks[c].end <= Cursor(v)
    BY AssetIs
  <1>2. \A gap \in Gaps(v) : /\ gap[1] \in Nat /\ gap[2] \in Nat /\ gap[1] < gap[2]
                             /\ \A t \in Nat : Covers(gap, t) => ~Captured(i, t)
    BY GapsAre
  <1>3. i.verified \in Nat /\ \A k \in 1..i.verified : k \in DOMAIN i.chunks
    BY VerifiedAre
  <1>4. \A t \in Nat : t < Cursor(v) /\ ~Captured(i, t) => \E gap \in Gaps(v) : Covers(gap, t)
    BY GapsCover
  <1>5. Available(asset, range) <=> /\ range.end <= asset.duration
                                    /\ \A gap \in asset.missing :
                                          ~(range.start < gap[2] /\ range.end > gap[1])
    BY DEF Available
  <1> HIDE DEF asset, v
  <1>6. CASE v = <<>>
    <2>1. ~Available(asset, range)
      <3>1. asset.duration = 1 /\ <<0, 1>> \in asset.missing
        BY <1>1, <1>6
      <3> SUFFICES ASSUME Available(asset, range) PROVE FALSE
        OBVIOUS
      <3>2. range.end <= 1 /\ ~(range.start < 1 /\ range.end > 0)
        BY <1>5, <3>1
      <3> QED
        BY <3>2
    <2>2. ~Captured(i, range.start) /\ range.start \in range.start..(range.end - 1)
      BY <1>1, <1>6 DEF Captured
    <2> QED
      BY <2>1, <2>2 DEF asset
  <1>7. CASE v # <<>>
    <2>1. ASSUME Available(asset, range), NEW t \in range.start..(range.end - 1)
          PROVE  Captured(i, t)
      <3> SUFFICES ASSUME ~Captured(i, t) PROVE FALSE
        OBVIOUS
      <3>1. t \in Nat /\ t < Cursor(v)
        BY <1>1, <1>5, <1>7, <2>1
      <3>2. PICK gap \in Gaps(v) : Covers(gap, t)
        BY <1>4, <3>1
      <3>3. ~(range.start < gap[2] /\ range.end > gap[1])
        BY <1>1, <1>5, <1>7, <2>1
      <3>4. gap[1] \in Nat /\ gap[2] \in Nat /\ gap[1] <= t /\ t < gap[2]
        BY <1>2, <3>2 DEF Covers
      <3> QED
        BY <3>1, <3>3, <3>4
    <2>2. ASSUME \A t \in range.start..(range.end - 1) : Captured(i, t)
          PROVE  Available(asset, range)
      <3>1. range.end <= asset.duration
        <4>1. range.end - 1 \in range.start..(range.end - 1) /\ range.end - 1 \in Nat
          OBVIOUS
        <4>2. PICK c \in 1..i.verified : range.end - 1 < i.chunks[c].end
          BY <2>2, <4>1 DEF Captured
        <4>3. i.chunks[c].end <= Cursor(v) /\ i.chunks[c].end \in Nat
          BY <1>1, <1>3, ChunksAre
        <4> QED
          BY <1>1, <1>7, <4>1, <4>2, <4>3
      <3>2. ASSUME NEW gap \in Gaps(v), range.start < gap[2], range.end > gap[1]
            PROVE  FALSE
        <4>1. gap[1] \in Nat /\ gap[2] \in Nat /\ gap[1] < gap[2]
          BY <1>2
        <4>2. PICK t \in {gap[1], range.start} : t >= gap[1] /\ t >= range.start
          <5>1. CASE gap[1] >= range.start
            BY <4>1, <5>1
          <5>2. CASE range.start >= gap[1]
            BY <4>1, <5>2
          <5> QED
            BY <4>1, <5>1, <5>2
        <4>3. t \in Nat /\ t < gap[2] /\ t \in range.start..(range.end - 1) /\ gap[1] <= t
          BY <3>2, <4>1, <4>2
        <4>4. Covers(gap, t) /\ Captured(i, t)
          BY <2>2, <4>3 DEF Covers
        <4> QED
          BY <1>2, <4>3, <4>4
      <3> QED
        BY <1>1, <1>5, <1>7, <3>1, <3>2
    <2> QED
      BY <2>1, <2>2 DEF asset
  <1> QED
    BY <1>6, <1>7

-----------------------------------------------------------------------------
(* The transcripts *)

FirstAfter(r, x, turn) ==
    r[x].turn > turn /\ \A y \in DOMAIN r : r[y].turn > turn => x <= y

\* The range o begins with the first answer after the turn, or before it.
Precedes(o, r, turn) ==
    \A x \in DOMAIN r : FirstAfter(r, x, turn) => o.start < r[x].start \/ o.start = r[x].start

\* A turn without media has a second before the next answer.
LEMMA OtherIs ==
    ASSUME NEW i, NEW n, Well(i, n), NEW b, NEW m, Settled(i, m, b), NEW turn \in Nat
    PROVE  LET o == OtherRange(i, b, turn)
           IN  /\ o.start \in Nat /\ o.end \in Nat /\ o.start < o.end
               /\ o.media = FALSE
               /\ Precedes(o, b.ranges, turn)
  <1> DEFINE later == {a \in DOMAIN b.ranges : b.ranges[a].turn > turn}
             end == IF later = {} THEN b.cursor + Second ELSE Max({1, b.ranges[Min(later)].start})
             start == IF later = {} THEN b.cursor ELSE Max({0, end - Second})
  <1>1. OtherRange(i, b, turn) = TimeRange(turn, start, end, FALSE)
    BY DEF OtherRange
  <1>2. /\ OtherRange(i, b, turn).start = start /\ OtherRange(i, b, turn).end = end
        /\ OtherRange(i, b, turn).media = FALSE
    BY <1>1 DEF TimeRange
  <1>3. /\ b.ranges \in Seq(Ranges) /\ b.cursor \in Nat
        /\ \A x \in DOMAIN b.ranges : b.ranges[x].turn \in Nat /\ b.ranges[x].start \in Nat
    <2>1. b.ranges \in Seq(Ranges) /\ b.cursor \in Nat
      BY DEF Settled
    <2>2. \A x \in DOMAIN b.ranges : b.ranges[x] \in Ranges
      BY <2>1
    <2> QED
      BY <2>1, <2>2 DEF Ranges
  <1>4. Second \in Nat /\ Second >= 1
    BY SecondAssumption
  <1>5. CASE later = {}
    <2>1. start = b.cursor /\ end = b.cursor + Second
      BY <1>5
    <2>2. start \in Nat /\ end \in Nat /\ start < end
      BY <1>3, <1>4, <2>1
    <2>3. \A x \in DOMAIN b.ranges : ~FirstAfter(b.ranges, x, turn)
      BY <1>5 DEF FirstAfter
    <2> HIDE DEF start, end
    <2> QED
      BY <1>2, <2>2, <2>3 DEF Precedes
  <1>6. CASE later # {}
    <2> DEFINE l == Min(later)
               s == b.ranges[l].start
    <2>1. l \in later /\ \A a \in later : l <= a
      <3>1. later \in SUBSET Nat
        BY <1>3
      <3> HIDE DEF later
      <3> QED
        BY <1>6, <3>1, MinOf
    <2>2. end = Max({1, s}) /\ start = Max({0, end - Second})
      BY <1>6
    <2>3. s \in Nat
      <3> HIDE DEF l
      <3> QED
        BY <1>3, <2>1
    <2> HIDE DEF s, start, end
    <2>4. end \in {1, s} /\ end >= 1 /\ end >= s
      <3>1. 1 \in Int /\ s \in Int
        BY <2>3
      <3>2. Max({1, s}) \in {1, s} /\ Max({1, s}) >= 1 /\ Max({1, s}) >= s
        BY <3>1, MaxOfTwo
      <3> QED
        BY <2>2, <3>2
    <2>5. end \in Nat /\ end - Second \in Int
      BY <1>4, <2>3, <2>4
    <2>6. start \in {0, end - Second} /\ start >= 0 /\ start >= end - Second
      <3> DEFINE before == end - Second
      <3>1. 0 \in Int /\ before \in Int
        BY <2>5
      <3>2. Max({0, before}) \in {0, before} /\ Max({0, before}) >= 0 /\ Max({0, before}) >= before
        <4> HIDE DEF before
        <4> QED
          BY <3>1, MaxOfTwo
      <3> QED
        BY <2>2, <3>2
    <2>7. start \in Nat /\ start < end
      BY <1>4, <2>4, <2>5, <2>6
    <2>8. start < s \/ start = s
      BY <1>4, <2>3, <2>4, <2>5, <2>6
    <2>9. ASSUME NEW x \in DOMAIN b.ranges, FirstAfter(b.ranges, x, turn)
          PROVE  s = b.ranges[x].start
      <3>1. x \in later /\ \A y \in later : x <= y
        BY <2>9 DEF FirstAfter
      <3>2. later \subseteq Nat
        BY <1>3
      <3>3. x = l
        <4> HIDE DEF later, l
        <4> QED
          BY <2>1, <3>1, <3>2
      <3> QED
        BY <3>3 DEF s
    <2> QED
      BY <1>2, <2>5, <2>7, <2>8, <2>9 DEF Precedes
  <1> QED
    BY <1>5, <1>6

\* A final turn's transcript has the range of its answer.
LEMMA FinalIs ==
    ASSUME NEW i, NEW n, Well(i, n), NEW f \in Finals(i.turns)
    PROVE  \E x \in DOMAIN Answers(i).ranges :
              Answers(i).ranges[x].turn = f /\ Transcripts(i)[f] = Answers(i).ranges[x]
  <1> DEFINE r == Answers(i).ranges
             chosen == CHOOSE x \in DOMAIN r : r[x].turn = f
  <1>1. f \in DOMAIN i.turns /\ f <= Len(i.turns)
    BY DEF Finals, Well, InterviewRows
  <1>2. \E x \in DOMAIN r : r[x].turn = f
    BY <1>1, AnswersSettled DEF Settled, Placed
  <1>3. chosen \in DOMAIN r /\ r[chosen].turn = f
    BY <1>2
  <1>4. Transcripts(i)[f] = r[chosen]
    BY <1>1 DEF Transcripts
  <1> QED
    BY <1>3, <1>4

LEMMA OtherTranscriptIs ==
    ASSUME NEW i, NEW turn \in DOMAIN i.turns, turn \notin Finals(i.turns)
    PROVE  Transcripts(i)[turn] = OtherRange(i, Answers(i), turn)
  BY DEF Transcripts

LEMMA RangesAre ==
    ASSUME NEW i, NEW n, Well(i, n), NEW r, r = Answers(i).ranges
    PROVE  /\ DOMAIN r \subseteq Nat
           /\ \A x \in DOMAIN r : /\ r[x].start \in Nat /\ r[x].end \in Nat /\ r[x].turn \in Nat
                                  /\ r[x].start < r[x].end /\ r[x].turn \in Finals(i.turns)
           /\ \A x, y \in DOMAIN r : x < y => r[x].turn < r[y].turn
           /\ \A x, y \in DOMAIN r : x < y /\ r[x].media /\ r[y].media => r[x].end <= r[y].start
  <1>1. /\ r \in Seq(Ranges) /\ Placed(i, Len(i.turns), r)
        /\ \A x, y \in DOMAIN r : x < y /\ r[x].media /\ r[y].media => r[x].end <= r[y].start
    BY AnswersSettled DEF Settled, Parted
  <1>2. \A x \in DOMAIN r : r[x] \in Ranges
    BY <1>1
  <1>3. \A x \in DOMAIN r : r[x].start \in Nat /\ r[x].end \in Nat /\ r[x].turn \in Nat
    BY <1>2 DEF Ranges
  <1>4. DOMAIN r \subseteq Nat
    BY <1>1
  <1> QED
    BY <1>1, <1>3, <1>4 DEF Placed

LEMMA TurnsAre ==
    ASSUME NEW i, NEW n, Well(i, n)
    PROVE  /\ DOMAIN i.turns \subseteq Nat /\ DOMAIN Transcripts(i) = DOMAIN i.turns
           /\ Finals(i.turns) \subseteq DOMAIN i.turns /\ Questions(i.turns) \subseteq DOMAIN i.turns
           /\ \A q \in Questions(i.turns) : q \notin Finals(i.turns)
  <1>1. DOMAIN i.turns \subseteq Nat
    BY DEF Well, InterviewRows
  <1>2. DOMAIN Transcripts(i) = DOMAIN i.turns
    BY DEF Transcripts
  <1>3. \A q \in Questions(i.turns) : q \notin Finals(i.turns)
    BY DEF Questions, Finals, Answer
  <1> QED
    BY <1>1, <1>2, <1>3 DEF Finals, Questions

LEMMA TranscriptsAre ==
    ASSUME NEW i, NEW n, Well(i, n), NEW turn \in DOMAIN Transcripts(i),
           NEW t, t = Transcripts(i)[turn]
    PROVE  /\ t.start \in Nat /\ t.end \in Nat /\ t.start < t.end
           /\ t.media => turn \in Finals(i.turns)
  <1>1. CASE turn \in Finals(i.turns)
    <2>1. PICK x \in DOMAIN Answers(i).ranges : t = Answers(i).ranges[x]
      BY <1>1, FinalIs
    <2> QED
      BY <1>1, <2>1, RangesAre
  <1>2. CASE turn \notin Finals(i.turns)
    <2>1. turn \in Nat /\ t = OtherRange(i, Answers(i), turn)
      BY <1>2, TurnsAre, OtherTranscriptIs
    <2>2. Settled(i, Len(i.turns), Answers(i))
      BY AnswersSettled
    <2>3. LET o == OtherRange(i, Answers(i), turn)
          IN  o.start \in Nat /\ o.end \in Nat /\ o.start < o.end /\ o.media = FALSE
      BY <2>1, <2>2, OtherIs
    <2> QED
      BY <2>1, <2>3
  <1> QED
    BY <1>1, <1>2

LEMMA TranscriptsApart ==
    ASSUME NEW i, NEW n, Well(i, n), NEW t, t = Transcripts(i),
           NEW a \in DOMAIN t, NEW c \in DOMAIN t, t[a].media, t[c].media, a < c
    PROVE  t[a].end <= t[c].start
  <1> DEFINE r == Answers(i).ranges
  <1>1. a \in Finals(i.turns) /\ c \in Finals(i.turns)
    BY TranscriptsAre
  <1>2. PICK x \in DOMAIN r : r[x].turn = a /\ t[a] = r[x]
    BY <1>1, FinalIs
  <1>3. PICK y \in DOMAIN r : r[y].turn = c /\ t[c] = r[y]
    BY <1>1, FinalIs
  <1>4. /\ DOMAIN r \subseteq Nat
        /\ \A u, v \in DOMAIN r : u < v => r[u].turn < r[v].turn
        /\ \A u, v \in DOMAIN r : u < v /\ r[u].media /\ r[v].media => r[u].end <= r[v].start
        /\ r[x].turn \in Nat /\ r[y].turn \in Nat
    BY RangesAre
  <1> HIDE DEF r
  <1>5. x < y
    <2>1. x \in Nat /\ y \in Nat /\ r[x].turn < r[y].turn
      BY <1>2, <1>3, <1>4
    <2>2. ~(y < x) /\ y # x
      BY <1>4, <2>1
    <2> QED
      BY <2>1, <2>2
  <1> QED
    BY <1>2, <1>3, <1>4, <1>5

\* A question is listed before its answer, the range of which its own is made from.
LEMMA AnswerComesAfter ==
    ASSUME NEW i, NEW n, Well(i, n), NEW q \in Questions(i.turns),
           NEW a, a = AnswerTo(i.turns, q), a # 0
    PROVE  ListedBefore(Transcripts(i), q, a)
  <1> DEFINE r == Answers(i).ranges
             later == {f \in Finals(i.turns) : f > q}
  <1>1. q \in Nat /\ q \in DOMAIN i.turns /\ q \notin Finals(i.turns) /\ Finals(i.turns) \subseteq Nat
    BY TurnsAre
  <1>2. later \in SUBSET Nat /\ later # {} /\ a = Min(later)
    BY <1>1 DEF AnswerTo
  <1>3. a \in later /\ \A f \in later : a <= f
    <2> HIDE DEF later
    <2> QED
      BY <1>2, MinOf
  <1>4. a \in Finals(i.turns) /\ a > q /\ a \in Nat
    BY <1>1, <1>3
  <1>5. PICK x \in DOMAIN r : r[x].turn = a /\ Transcripts(i)[a] = r[x]
    BY <1>4, FinalIs
  <1>6. ASSUME NEW y \in DOMAIN r, r[y].turn > q PROVE x <= y
    <2>1. /\ DOMAIN r \subseteq Nat /\ r[y].turn \in Finals(i.turns) /\ r[y].turn \in Nat
          /\ y < x => r[y].turn < r[x].turn
      BY RangesAre
    <2>2. a <= r[y].turn
      BY <1>3, <1>6, <2>1
    <2>3. ~(y < x)
      BY <1>4, <1>5, <2>1, <2>2
    <2> QED
      BY <2>1, <2>3
  <1>7. Transcripts(i)[q] = OtherRange(i, Answers(i), q)
    BY <1>1, OtherTranscriptIs
  <1> DEFINE o == OtherRange(i, Answers(i), q)
  <1>8. o.start < r[x].start \/ o.start = r[x].start
    <2>1. Settled(i, Len(i.turns), Answers(i))
      BY AnswersSettled
    <2>2. FirstAfter(r, x, q)
      BY <1>4, <1>5, <1>6 DEF FirstAfter
    <2>3. Precedes(o, r, q)
      <3> DEFINE b == Answers(i)
                 last == Len(i.turns)
      <3>1. Settled(i, last, b)
        BY <2>1
      <3> HIDE DEF b, last
      <3>2. Precedes(OtherRange(i, b, q), b.ranges, q)
        BY <1>1, <3>1, OtherIs
      <3> QED
        BY <3>2 DEF b
    <2> QED
      BY <2>2, <2>3 DEF Precedes
  <1>9. q < a
    BY <1>1, <1>4
  <1> QED
    BY <1>5, <1>7, <1>8, <1>9 DEF ListedBefore

-----------------------------------------------------------------------------
(* The interview's rows stay well formed *)

LEMMA AnsweredWell ==
    ASSUME NEW n, Well(interview, n), NEW through \in 0..Len(interview.chunks)
    PROVE  Well(Answered(through), n)
  <1> DEFINE v == Verified(interview, through)
             w == [v EXCEPT !.turns = Append(@, Answer("final"))]
  <1>1. Well(v, n)
    BY VerifiedWell
  <1>2. Answer("final") \in Turns /\ through \in Nat
    BY ChunksAre DEF Turns
  <1>3. Well(w, n)
    <2> HIDE DEF v
    <2> QED
      BY <1>1, <1>2, TurnWell
  <1>4. Answered(through) = Checkpointed(w, through)
    BY DEF Answered
  <1> HIDE DEF w
  <1> QED
    BY <1>2, <1>3, <1>4, CheckpointedWell

Interviewed == Well(interview, now)

LEMMA InitWell == Init => Interviewed
  <1> SUFFICES ASSUME Init PROVE Interviewed
    OBVIOUS
  <1>1. PICK criterion \in Criteria :
            interview = [turns |-> <<Question(criterion)>>, chunks |-> <<>>, verified |-> 0,
                         checkpoints |-> <<[final |-> 0, media |-> 0]>>,
                         state |-> "awaiting_answer"]
    BY DEF Init
  <1> DEFINE turns == <<Question(criterion)>>
             checkpoints == <<[final |-> 0, media |-> 0]>>
             chunks == <<>>
  <1>2. turns \in Seq(Turns) /\ 1 \in Questions(turns)
    <2>1. Question(criterion) \in Turns /\ Question(criterion).speaker = "interviewer"
      BY DEF Turns, Question
    <2>2. turns \in Seq(Turns) /\ 1 \in DOMAIN turns /\ turns[1] = Question(criterion)
      BY <2>1
    <2> QED
      BY <2>1, <2>2 DEF Questions
  <1>3. checkpoints \in Seq(Checkpoints)
    BY DEF Checkpoints
  <1>4. chunks \in Seq(Chunks) /\ Len(chunks) = 0 /\ Recorded(chunks, 0)
    BY DEF Recorded
  <1>5. interview = [turns |-> turns, chunks |-> chunks, verified |-> 0,
                     checkpoints |-> checkpoints, state |-> "awaiting_answer"] /\ now = 0
    BY <1>1 DEF Init
  <1> HIDE DEF turns, chunks, checkpoints
  <1> QED
    BY <1>2, <1>3, <1>4, <1>5 DEF Interviewed, Well, InterviewRows

LEMMA RecordWell ==
    ASSUME Interviewed, Record
    PROVE  Interviewed'
  <1>1. PICK start \in now..MaxTime, end \in now..MaxTime :
            /\ start < end
            /\ interview' = [interview EXCEPT !.chunks =
                  Append(@, Chunk(start, end, Max(Questions(interview.turns))))]
            /\ now' = end
    BY DEF Record
  <1>2. now \in Nat /\ MaxTime \in Nat /\ Well(interview, now)
    BY BoundsAssumption DEF Interviewed, Well
  <1>3. start \in Nat /\ end \in Nat /\ now <= start
    BY <1>2
  <1>4. Max(Questions(interview.turns)) \in Nat
    BY <1>2, LastPlaces
  <1>5. Well(interview', end)
    BY <1>1, <1>2, <1>3, <1>4, ChunkWell
  <1> QED
    BY <1>1, <1>5 DEF Interviewed

\* What a completed answer does to the interview, whether or not it is the last.
LEMMA AnsweringWell ==
    ASSUME Interviewed, NEW through, Answering(through)
    PROVE  Well(Answered(through), now') /\ now' = now + 1
  <1>1. Well(interview, now) /\ now \in Nat /\ through \in 0..Len(interview.chunks) /\ now' = now + 1
    BY DEF Interviewed, Well, Answering
  <1>2. Well(interview, now')
    BY <1>1, LaterWell
  <1> QED
    BY <1>1, <1>2, AnsweredWell

LEMMA InterviewWell ==
    ASSUME Interviewed, Pause \/ LeaveAnswer \/ CompleteAnswer \/ CompleteInterview
    PROVE  Interviewed'
  <1>1. Well(interview, now)
    BY DEF Interviewed
  <1>2. CASE Pause
    <2>1. PICK through \in 0..Len(interview.chunks) :
              interview' = Checkpointed(Verified(interview, through),
                                        Verified(interview, through).verified)
      BY <1>2 DEF Pause
    <2> DEFINE v == Verified(interview, through)
    <2>2. Well(v, now)
      BY <1>1, VerifiedWell
    <2> HIDE DEF v
    <2>3. v.verified \in Nat
      BY <2>2 DEF Well, InterviewRows
    <2>4. Well(Checkpointed(v, v.verified), now)
      BY <2>2, <2>3, CheckpointedWell
    <2>5. now' = now
      BY <1>2 DEF Pause, Interrupted
    <2> QED
      BY <2>1, <2>4, <2>5 DEF Interviewed, v
  <1>3. CASE LeaveAnswer
    <2>1. Answer("recording") \in Turns /\ now' = now
      BY <1>3 DEF Turns, LeaveAnswer, Interrupted
    <2>2. Well(interview', now)
      BY <1>1, <1>3, <2>1, TurnWell DEF LeaveAnswer
    <2> QED
      BY <2>1, <2>2 DEF Interviewed
  <1>4. CASE CompleteAnswer
    <2>1. PICK through \in 0..MaxChunks, criterion \in Criteria :
              /\ Answering(through)
              /\ interview' = [Answered(through) EXCEPT !.turns = Append(@, Question(criterion))]
      BY <1>4 DEF CompleteAnswer
    <2>2. Question(criterion) \in Turns
      BY DEF Turns
    <2>3. Well(Answered(through), now')
      BY <2>1, AnsweringWell
    <2> QED
      BY <2>1, <2>2, <2>3, TurnWell DEF Interviewed
  <1>5. CASE CompleteInterview
    <2>1. PICK through \in 0..MaxChunks :
              /\ Answering(through)
              /\ interview' = [Answered(through) EXCEPT !.state = "completed"]
      BY <1>5 DEF CompleteInterview
    <2> DEFINE i == Answered(through)
    <2>2. Well(i, now')
      BY <2>1, AnsweringWell
    <2> HIDE DEF i
    <2>3. Well([i EXCEPT !.state = "completed"], now')
      BY <2>2 DEF Well, InterviewRows
    <2> QED
      BY <2>1, <2>3 DEF Interviewed, i
  <1> QED
    BY <1>2, <1>3, <1>4, <1>5

LEMMA NextWell == Interviewed /\ [Next]_vars => Interviewed'
  <1> SUFFICES ASSUME Interviewed, [Next]_vars PROVE Interviewed'
    OBVIOUS
  <1>1. CASE Record
    BY <1>1, RecordWell
  <1>2. CASE Pause \/ LeaveAnswer \/ CompleteAnswer \/ CompleteInterview
    BY <1>2, InterviewWell
  <1>3. CASE UNCHANGED <<interview, now>>
    BY <1>3 DEF Interviewed
  <1>4. CASE UNCHANGED vars
    BY <1>3, <1>4 DEF vars
  <1>5. ASSUME NEW w \in Workers,
               \/ Receive(w) \/ HandleCompletion(w) \/ HandleMedia(w) \/ HandleGeneration(w)
               \/ Commit(w) \/ RollBack(w)
        PROVE  UNCHANGED <<interview, now>>
    BY <1>5 DEF Receive, HandleCompletion, HandleMedia, HandleGeneration, Written, Commit, RollBack
  <1> QED
    BY <1>1, <1>2, <1>3, <1>4, <1>5 DEF Next

\* The rows of the interview: chunks one after the other, the verified ones the first of
\* them, and a question at the head of the turns.
THEOREM InterviewIsWell == Spec => []Interviewed
  BY InitWell, NextWell, PTL DEF Spec

-----------------------------------------------------------------------------
(* The statements *)

\* What is committed once there is a report.
LEMMA DoneIs ==
    ASSUME rows = Done(interview)
    PROVE  /\ rows.assets = <<RecordingAsset(interview)>>
           /\ rows.transcripts = <<Transcripts(interview)>>
           /\ rows.reports = <<Report(interview, RecordingAsset(interview), Transcripts(interview))>>
  BY DEF Done, Reported, RowsOf, One

LEMMA ReportIsRecorded ==
    ASSUME Interviewed, rows = Done(interview)
    PROVE  EvidenceIsRecorded
  <1> DEFINE asset == RecordingAsset(interview)
             t == Transcripts(interview)
             report == Report(interview, asset, t)
  <1>1. rows.assets = <<asset>> /\ rows.transcripts = <<t>> /\ rows.reports = <<report>>
    BY DoneIs
  <1>2. Well(interview, now)
    BY DEF Interviewed
  <1>3. ASSUME NEW turn \in DOMAIN t
        PROVE  Available(asset, t[turn]) <=> IsRecorded(t[turn])
    <2> DEFINE range == t[turn]
    <2>1. range.start \in Nat /\ range.end \in Nat /\ range.start < range.end
      BY <1>2, <1>3, TranscriptsAre
    <2> HIDE DEF range
    <2>2. Available(asset, range) <=> \A m \in range.start..(range.end - 1) : Captured(interview, m)
      BY <1>2, <2>1, AvailableIs
    <2> QED
      BY <2>2 DEF IsRecorded, Captured, range
  <1>4. ASSUME NEW item \in report.items, NEW e \in item.evidence
        PROVE  IsRecorded(e) /\ Playback(rows.assets) # "unavailable"
    <2>1. PICK q \in Items(interview.turns) : item = ReportItem(interview, asset, t, q)
      BY <1>4 DEF Report
    <2> DEFINE a == AnswerTo(interview.turns, q)
    <2>2. Confirmed(interview, asset, t, q) /\ e = t[a]
      BY <1>4, <2>1 DEF ReportItem
    <2>3. a # 0 /\ MediaAvailable(asset, e.start, e.end)
      BY <2>2 DEF Confirmed
    <2>4. a \in DOMAIN t
      <3>1. q \in Questions(interview.turns)
        BY DEF Items
      <3> DEFINE later == {f \in Finals(interview.turns) : f > q}
      <3>2. later \in SUBSET Nat /\ later # {} /\ a = Min(later) /\ later \subseteq DOMAIN t
        BY <1>2, <2>3, TurnsAre DEF AnswerTo
      <3> HIDE DEF later, a, t
      <3> QED
        BY <3>2, MinOf
    <2>5. Available(asset, e)
      BY <2>3 DEF MediaAvailable, Available
    <2>6. IsRecorded(e)
      BY <1>3, <2>2, <2>4, <2>5
    <2>7. Playback(rows.assets) # "unavailable"
      <3> DEFINE playable == {k \in DOMAIN rows.assets : rows.assets[k].status \in {"ready", "partial"}}
      <3>1. asset.status \in {"ready", "partial"}
        BY <2>3 DEF MediaAvailable
      <3> HIDE DEF asset
      <3>2. playable \in SUBSET Nat /\ playable # {}
        BY <1>1, <3>1
      <3>3. Min(playable) \in playable
        <4> HIDE DEF playable
        <4> QED
          BY <3>2, MinOf
      <3>4. Playback(rows.assets) = rows.assets[Min(playable)].status
        BY <3>2 DEF Playback
      <3> QED
        BY <3>3, <3>4
    <2> QED
      BY <2>6, <2>7
  <1> HIDE DEF asset, t, report
  <1>5. ASSUME NEW k \in DOMAIN rows.reports
        PROVE  rows.reports[k] = report /\ rows.transcripts[k] = t /\ rows.assets[k] = asset
    BY <1>1, <1>5
  <1>6. ASSUME NEW k \in DOMAIN rows.reports, NEW turn \in DOMAIN rows.transcripts[k]
        PROVE  LET range == rows.transcripts[k][turn]
               IN  Available(rows.assets[k], range) <=> IsRecorded(range)
    BY <1>3, <1>5, <1>6
  <1>7. ASSUME NEW k \in DOMAIN rows.reports, NEW item \in rows.reports[k].items,
               NEW e \in item.evidence
        PROVE  IsRecorded(e) /\ Playback(rows.assets) # "unavailable"
    BY <1>4, <1>5, <1>7
  <1> QED
    BY <1>6, <1>7 DEF EvidenceIsRecorded

LEMMA ReportIsApart ==
    ASSUME Interviewed, rows = Done(interview)
    PROVE  AnswersDoNotShareMedia
  <1> DEFINE t == Transcripts(interview)
  <1>1. rows.transcripts = <<t>>
    BY DoneIs
  <1>2. Well(interview, now)
    BY DEF Interviewed
  <1>3. ASSUME NEW a \in DOMAIN t, NEW b \in DOMAIN t, t[a].media, t[b].media, a < b
        PROVE  t[a].end <= t[b].start
    BY <1>2, <1>3, TranscriptsApart
  <1>4. ASSUME NEW q \in Questions(interview.turns), AnswerTo(interview.turns, q) # 0
        PROVE  ListedBefore(t, q, AnswerTo(interview.turns, q))
    BY <1>2, <1>4, AnswerComesAfter
  <1> HIDE DEF t
  <1> QED
    BY <1>1, <1>3, <1>4 DEF AnswersDoNotShareMedia

\* There is no report before the one of the completed interview.
LEMMA ReportedOnce ==
    ASSUME IInv
    PROVE  \/ rows = Done(interview)
           \/ rows.transcripts = <<>> /\ rows.reports = <<>>
  <1>1. rows \in {NoRows, Announced, Done(interview)}
    BY DEF IInv, RowsWhole
  <1> QED
    BY <1>1 DEF NoRows, Announced, RowsOf, Empty

\* What a report gives as evidence was recorded and verified and can be played, and the
\* timeline's rule of what is available takes no gap for an answer
\* (RecordingAsset.available, _recording_ranges of workers/reporting/runtime.py).
THEOREM EvidenceIsTrue == Spec => []EvidenceIsRecorded
  <1>1. IInv /\ Interviewed => EvidenceIsRecorded
    <2> SUFFICES ASSUME IInv, Interviewed PROVE EvidenceIsRecorded
      OBVIOUS
    <2>1. CASE rows = Done(interview)
      BY <2>1, ReportIsRecorded
    <2>2. CASE rows.transcripts = <<>> /\ rows.reports = <<>>
      BY <2>2 DEF EvidenceIsRecorded
    <2> QED
      BY <2>1, <2>2, ReportedOnce
  <1> QED
    BY <1>1, Inductive, InterviewIsWell, PTL

\* However checkpoints move the media from answer to answer, no two answers share any of
\* it, and each question comes before its answer.
THEOREM AnswersAreApart == Spec => []AnswersDoNotShareMedia
  <1>1. IInv /\ Interviewed => AnswersDoNotShareMedia
    <2> SUFFICES ASSUME IInv, Interviewed PROVE AnswersDoNotShareMedia
      OBVIOUS
    <2>1. CASE rows = Done(interview)
      BY <2>1, ReportIsApart
    <2>2. CASE rows.transcripts = <<>> /\ rows.reports = <<>>
      BY <2>2 DEF AnswersDoNotShareMedia
    <2> QED
      BY <2>1, <2>2, ReportedOnce
  <1> QED
    BY <1>1, Inductive, InterviewIsWell, PTL

=============================================================================
