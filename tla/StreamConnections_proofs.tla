----------------------- MODULE StreamConnections_proofs -----------------------
(***************************************************************************)
(* Theorems about StreamConnections, for any connections, processes,        *)
(* placement and bounds.                                                    *)
(***************************************************************************)
EXTENDS StreamConnections, SequenceTheorems, FiniteSetTheorems, TLAPS

-----------------------------------------------------------------------------
(* The inductive invariant *)

Tables == {"session", "turns", "checkpoints", "event"}

\* A statement is about a table there is, and only the session's row is updated.
Statement(s) == s.on \in Tables /\ (s.op = "update" => s.on = "session")

\* What a handler has still to run.
Program(statements) ==
    \E S : statements \in Seq(S) /\ \A s \in S : Statement(s)

\* Connections and their writes are what they are taken for.
Shaped ==
    /\ DOMAIN mine = Connections /\ DOMAIN todo = Connections
    /\ \A c \in Connections : "turns" \in DOMAIN mine[c] /\ Program(todo[c])

Places(c) == DOMAIN mine[c].turns

\* The places a transaction has written in are its own until it ends: they are
\* locked, and nobody has committed anything there.
PlacesAreOwn ==
    /\ \A c \in Connections : \A i \in Places(c) : i \notin DOMAIN table.turns
    /\ \A c, d \in Connections : c # d => \A i \in Places(c) : i \notin Places(d)

IInv == Shaped /\ PlacesAreOwn

-----------------------------------------------------------------------------
(* Statements *)

LEMMA StatementsOn ==
    ASSUME NEW x, NEW y
    PROVE  /\ Statement(Check(x)) /\ Statement(Save(x))
           /\ Statement(AddTurn(x, y)) /\ Statement(AddCheckpoint(x))
           /\ Statement(Find("turns", x)) /\ Statement(Find("event", x))
           /\ Statement(AddEvent)
  BY DEF Check, Save, AddTurn, AddCheckpoint, Find, AddEvent, Tables, Statement

LEMMA Programs ==
    ASSUME NEW a, NEW b, NEW c, Statement(a), Statement(b), Statement(c)
    PROVE  /\ Program(<<>>) /\ Program(<<a>>)
           /\ Program(<<a, b>>) /\ Program(<<a, b, c>>)
  <1> DEFINE S == {a, b, c}
             none == <<>>
             one == <<a>>
             two == <<a, b>>
             three == <<a, b, c>>
  <1>1. \A s \in S : Statement(s)
    OBVIOUS
  <1>2. none \in Seq(S) /\ one \in Seq(S) /\ two \in Seq(S) /\ three \in Seq(S)
    OBVIOUS
  <1> HIDE DEF S, none, one, two, three
  <1>3. Program(none) /\ Program(one) /\ Program(two) /\ Program(three)
    BY <1>1, <1>2 DEF Program
  <1> QED
    BY <1>3 DEF none, one, two, three

LEMMA NothingToRun == Program(<<>>)
  <1> DEFINE s == Check(NoRow)
  <1>1. Statement(s)
    BY StatementsOn
  <1> HIDE DEF s
  <1> QED
    BY <1>1, Programs

LEMMA Joined ==
    ASSUME NEW p, NEW q, Program(p), Program(q)
    PROVE  Program(p \o q)
  <1>1. PICK S : p \in Seq(S) /\ \A s \in S : Statement(s)
    BY DEF Program
  <1>2. PICK T : q \in Seq(T) /\ \A s \in T : Statement(s)
    BY DEF Program
  <1> DEFINE U == S \cup T
  <1>3. p \in Seq(U) /\ q \in Seq(U)
    BY <1>1, <1>2, SeqMonotonic
  <1>4. p \o q \in Seq(U) /\ \A s \in U : Statement(s)
    BY <1>1, <1>2, <1>3
  <1> QED
    BY <1>4 DEF Program

LEMMA Rest ==
    ASSUME NEW p, Program(p), p # <<>>
    PROVE  Program(Tail(p)) /\ Statement(Head(p))
  <1>1. PICK S : p \in Seq(S) /\ \A s \in S : Statement(s)
    BY DEF Program
  <1>2. Head(p) \in S /\ Tail(p) \in Seq(S)
    BY <1>1
  <1> QED
    BY <1>1, <1>2 DEF Program

\* A statement writes in the place it names, and nowhere else.
LEMMA WritesIn ==
    ASSUME NEW w, "turns" \in DOMAIN w, NEW s, Statement(s)
    PROVE  /\ "turns" \in DOMAIN Writes(w, s)
           /\ s.on # "turns" => Writes(w, s).turns = w.turns
           /\ s.on = "turns" => DOMAIN Writes(w, s).turns = DOMAIN w.turns \cup {s.key}
  <1>1. CASE s.on = "session"
    BY <1>1 DEF Writes
  <1>2. CASE s.on = "turns"
    <2>1. Writes(w, s) = [w EXCEPT !.turns = Overlay(w.turns, [i \in {s.key} |-> s.value])]
      BY <1>2 DEF Writes
    <2>2. DOMAIN Overlay(w.turns, [i \in {s.key} |-> s.value]) = DOMAIN w.turns \cup {s.key}
      BY DEF Overlay
    <2> QED
      BY <1>2, <2>1, <2>2
  <1>3. CASE s.on = "checkpoints"
    BY <1>3 DEF Writes
  <1>4. CASE s.on = "event"
    BY <1>4 DEF Writes
  <1> QED
    BY <1>1, <1>2, <1>3, <1>4 DEF Tables, Statement

-----------------------------------------------------------------------------
(* The steps *)

\* Nothing is written, and what a connection has to run is a program.
LEMMA ReadingKeeps ==
    ASSUME IInv, NEW c \in Connections, NEW p, Program(p),
           UNCHANGED <<table, mine>>, todo' \in {todo, [todo EXCEPT ![c] = p]}
    PROVE  IInv'
  <1>1. Shaped'
    BY DEF IInv, Shaped
  <1>2. PlacesAreOwn'
    BY DEF IInv, PlacesAreOwn, Places
  <1> QED
    BY <1>1, <1>2 DEF IInv

\* A transaction ends: its rows are committed, or are gone.
LEMMA LeavingKeeps ==
    ASSUME IInv, NEW c \in Connections,
           Abort(c) \/ CommitAndLeave(c, mine[c])
    PROVE  /\ IInv'
           /\ \A i \in DOMAIN table.turns :
                 i \in DOMAIN table'.turns /\ table'.turns[i] = table.turns[i]
  <1>1. mine' = [mine EXCEPT ![c] = NoWrites] /\ todo' = [todo EXCEPT ![c] = <<>>]
    BY DEF Abort, CommitAndLeave, Leave
  <1>2. "turns" \in DOMAIN NoWrites /\ NoWrites.turns = <<>>
    BY DEF NoWrites
  <1>3. DOMAIN NoWrites.turns = {}
    BY <1>2
  <1>4. Program(<<>>)
    BY NothingToRun
  <1>5. Shaped'
    BY <1>1, <1>2, <1>4 DEF IInv, Shaped
  <1>6. \/ table' = table
        \/ table'.turns = Overlay(table.turns, mine[c].turns)
    BY DEF Abort, CommitAndLeave, Merged
  <1>7. /\ \A i \in DOMAIN table.turns :
              i \in DOMAIN table'.turns /\ table'.turns[i] = table.turns[i]
        /\ DOMAIN table'.turns \subseteq DOMAIN table.turns \cup Places(c)
    <2>1. CASE table' = table
      BY <2>1
    <2>2. CASE table'.turns = Overlay(table.turns, mine[c].turns)
      <3>1. \A i \in DOMAIN table.turns : i \notin DOMAIN mine[c].turns
        BY DEF IInv, PlacesAreOwn, Places
      <3>2. DOMAIN table'.turns = DOMAIN table.turns \cup DOMAIN mine[c].turns
        BY <2>2 DEF Overlay
      <3>3. ASSUME NEW i \in DOMAIN table.turns PROVE table'.turns[i] = table.turns[i]
        BY <2>2, <3>1 DEF Overlay
      <3> QED
        BY <3>2, <3>3 DEF Places
    <2> QED
      BY <1>6, <2>1, <2>2
  <1>8. /\ mine'[c] = NoWrites
        /\ \A d \in Connections \ {c} : mine'[d] = mine[d]
    BY <1>1 DEF IInv, Shaped
  <1>9. \A d \in Connections : \A i \in Places(d)' : d # c /\ i \in Places(d)
    BY <1>3, <1>8 DEF Places
  <1>10. PlacesAreOwn'
    <2>1. ASSUME NEW d \in Connections, NEW i \in Places(d)' PROVE i \notin DOMAIN table'.turns
      BY <1>7, <1>9 DEF IInv, PlacesAreOwn
    <2>2. ASSUME NEW d \in Connections, NEW e \in Connections, d # e, NEW i \in Places(d)'
          PROVE  i \notin Places(e)'
      BY <1>9, <2>2 DEF IInv, PlacesAreOwn
    <2> QED
      BY <2>1, <2>2 DEF PlacesAreOwn
  <1> QED
    BY <1>5, <1>7, <1>10 DEF IInv

\* A transaction writes in the places it has, or in one that nobody has.
LEMMA WritingKeeps ==
    ASSUME IInv, NEW c \in Connections, UNCHANGED table,
           NEW w, mine' = [mine EXCEPT ![c] = w], "turns" \in DOMAIN w,
           \A i \in DOMAIN w.turns :
              \/ i \in Places(c)
              \/ i \notin DOMAIN table.turns /\ \A d \in Connections \ {c} : i \notin Places(d),
           NEW p, Program(p), todo' = [todo EXCEPT ![c] = p]
    PROVE  IInv'
  <1>1. Shaped'
    BY DEF IInv, Shaped
  <1>2. mine'[c] = w /\ \A d \in Connections \ {c} : mine'[d] = mine[d]
    BY DEF IInv, Shaped
  <1>3. Places(c)' = DOMAIN w.turns /\ \A d \in Connections \ {c} : Places(d)' = Places(d)
    BY <1>2 DEF Places
  <1>4. ASSUME NEW d \in Connections, NEW i \in Places(d)' PROVE i \notin DOMAIN table'.turns
    BY <1>3 DEF IInv, PlacesAreOwn
  <1>5. ASSUME NEW d \in Connections, NEW e \in Connections, d # e, NEW i \in Places(d)'
        PROVE  i \notin Places(e)'
    BY <1>3, <1>5 DEF IInv, PlacesAreOwn
  <1>6. PlacesAreOwn'
    BY <1>4, <1>5 DEF PlacesAreOwn
  <1> QED
    BY <1>1, <1>6 DEF IInv

-----------------------------------------------------------------------------
(* The handlers *)

\* A handler that has decided what to run, in a step that writes nothing.
LEMMA RunKeeps ==
    ASSUME IInv, NEW c \in Connections, NEW p, Program(p), Run(c, p),
           UNCHANGED <<table, mine>>
    PROVE  IInv'
  BY ReadingKeeps DEF Run

LEMMA BeginKeeps ==
    ASSUME IInv, NEW c \in Connections,
           Start(c) \/ Resume(c) \/ SubmitAnswer(c) \/ TranscriberUnavailable(c)
    PROVE  IInv'
  <1>1. CASE Start(c)
    <2> DEFINE next == Moved(Session(c), "awaiting_answer", 2)
               a == Check(Session(c))
               b == Save(next)
               d == AddTurn(1, Question(1))
               e == AddCheckpoint(next.sequence)
               p == <<a, b, d, e>>
    <2>1. Run(c, p) /\ UNCHANGED <<table, mine>>
      BY <1>1 DEF Start
    <2>2. Statement(a) /\ Statement(b) /\ Statement(d) /\ Statement(e)
      BY StatementsOn
    <2>3. p = <<a, b>> \o <<d, e>>
      OBVIOUS
    <2> HIDE DEF a, b, d, e, next
    <2>4. Program(<<a, b>>) /\ Program(<<d, e>>)
      BY <2>2, Programs
    <2>5. Program(p)
      BY <2>3, <2>4, Joined
    <2> QED
      BY <2>1, <2>5, RunKeeps
  <1>2. CASE Resume(c)
    <2> DEFINE next == Moved(Session(c), "awaiting_answer", 1)
               a == Check(Session(c))
               b == Save(next)
               d == AddCheckpoint(next.sequence)
    <2>1. /\ UNCHANGED <<table, mine>>
          /\ Run(c, <<a, b, d>>) \/ todo' = todo
      BY <1>2 DEF Resume
    <2>2. Statement(a) /\ Statement(b) /\ Statement(d)
      BY StatementsOn
    <2> HIDE DEF a, b, d
    <2>3. Program(<<a, b, d>>)
      BY <2>2, Programs
    <2> QED
      BY <2>1, <2>3, RunKeeps, ReadingKeeps
  <1>3. CASE SubmitAnswer(c)
    <2> DEFINE a == AddTurn(Cardinality(DOMAIN Turns(c)) + 1, Recording)
    <2>1. Run(c, <<a>>) /\ UNCHANGED <<table, mine>>
      BY <1>3 DEF SubmitAnswer
    <2>2. Statement(a)
      BY StatementsOn
    <2> HIDE DEF a
    <2>3. Program(<<a>>)
      BY <2>2, Programs
    <2> QED
      BY <2>1, <2>3, RunKeeps
  <1>4. CASE TranscriberUnavailable(c)
    <2> DEFINE next == Moved(seen[c], "paused", 1)
               a == Check(seen[c])
               b == Save(next)
               d == AddCheckpoint(next.sequence)
    <2>1. Run(c, <<a, b, d>>) /\ UNCHANGED <<table, mine>>
      BY <1>4 DEF TranscriberUnavailable
    <2>2. Statement(a) /\ Statement(b) /\ Statement(d)
      BY StatementsOn
    <2> HIDE DEF a, b, d
    <2>3. Program(<<a, b, d>>)
      BY <2>2, Programs
    <2> QED
      BY <2>1, <2>3, RunKeeps
  <1> QED
    BY <1>1, <1>2, <1>3, <1>4

\* The answer is finalized in the connection's own rows.
LEMMA VerifiedKeeps ==
    ASSUME IInv, NEW c \in Connections, Verified(c)
    PROVE  IInv'
  <1> DEFINE finals == FinalsWith(c)
             more == finals < MaxQuestions
             next == Moved(seen[c], IF more THEN "awaiting_answer" ELSE "completed", 2)
             a == Check(seen[c])
             b == Save(next)
             question == <<Find("turns", Question(finals + 1)),
                           AddTurn(Cardinality(DOMAIN Turns(c)) + 1, Question(finals + 1)),
                           AddCheckpoint(next.sequence)>>
             end == <<AddCheckpoint(next.sequence), Find("event", NoRow), AddEvent>>
             rest == IF more THEN question ELSE end
             turns == [i \in DOMAIN mine[c].turns |->
                          IF i \in Own(c) THEN Final ELSE mine[c].turns[i]]
             w == [mine[c] EXCEPT !.turns = turns]
  <1>1. mine' = [mine EXCEPT ![c] = w] /\ UNCHANGED table
    BY DEF Verified
  <1>2. todo' = [todo EXCEPT ![c] = <<a, b>> \o rest]
    BY DEF Verified, Run
  <1>3. Program(<<a, b>> \o rest)
    <2>1. Statement(a) /\ Statement(b)
      BY StatementsOn
    <2>2. Program(question) /\ Program(end)
      <3> DEFINE f == Find("turns", Question(finals + 1))
                 g == AddTurn(Cardinality(DOMAIN Turns(c)) + 1, Question(finals + 1))
                 h == AddCheckpoint(next.sequence)
                 k == Find("event", NoRow)
                 l == AddEvent
      <3>1. Statement(f) /\ Statement(g) /\ Statement(h) /\ Statement(k) /\ Statement(l)
        BY StatementsOn
      <3>2. question = <<f, g, h>> /\ end = <<h, k, l>>
        OBVIOUS
      <3> HIDE DEF f, g, h, k, l, question, end
      <3> QED
        BY <3>1, <3>2, Programs
    <2> HIDE DEF a, b, question, end, more
    <2>3. Program(<<a, b>>) /\ Program(rest)
      BY <2>1, <2>2, Programs
    <2> HIDE DEF rest
    <2> QED
      BY <2>3, Joined
  <1>4. "turns" \in DOMAIN w /\ DOMAIN w.turns = Places(c)
    BY DEF IInv, Shaped, Places
  <1> HIDE DEF w, a, b, rest
  <1> QED
    BY <1>1, <1>2, <1>3, <1>4, WritingKeeps

-----------------------------------------------------------------------------
(* The statements *)

\* What is committed in a place stays there as it is.
Stay == \A i \in DOMAIN table.turns :
            i \in DOMAIN table'.turns /\ table'.turns[i] = table.turns[i]

LEMMA ProceedKeeps ==
    ASSUME IInv, NEW c \in Connections, todo[c] # <<>>, NEW w, Proceed(c, w),
           "turns" \in DOMAIN w,
           \A i \in DOMAIN w.turns :
              \/ i \in Places(c)
              \/ i \notin DOMAIN table.turns /\ \A d \in Connections \ {c} : i \notin Places(d)
    PROVE  IInv'
  <1>1. todo' = [todo EXCEPT ![c] = Tail(todo[c])] /\ mine' = [mine EXCEPT ![c] = w] /\ UNCHANGED table
    BY DEF Proceed
  <1>2. Program(Tail(todo[c]))
    BY Rest DEF IInv, Shaped
  <1> QED
    BY <1>1, <1>2, WritingKeeps

\* Looking writes nothing, or ends the transaction.
LEMMA LookKeeps ==
    ASSUME IInv, NEW c \in Connections, CompareVersion(c) \/ FindKey(c)
    PROVE  IInv' /\ Stay
  <1>1. CASE CommitAndLeave(c, mine[c])
    BY <1>1, LeavingKeeps DEF Stay
  <1>2. CASE todo[c] # <<>> /\ Proceed(c, mine[c])
    <2>1. "turns" \in DOMAIN mine[c]
      BY DEF IInv, Shaped
    <2>2. IInv'
      BY <1>2, <2>1, ProceedKeeps DEF Places
    <2>3. Stay
      BY <1>2 DEF Proceed, Stay
    <2> QED
      BY <2>2, <2>3
  <1> QED
    BY <1>1, <1>2 DEF CompareVersion, FindKey

\* A row is inserted where nothing is, and where nobody holds the place.
LEMMA WriteKeeps ==
    ASSUME IInv, NEW c \in Connections, Write(c)
    PROVE  IInv' /\ Stay
  <1>1. CASE Abort(c)
    BY <1>1, LeavingKeeps DEF Stay
  <1>2. CASE ~Abort(c)
    <2> DEFINE s == Head(todo[c])
               w == Writes(mine[c], s)
    <2>1. /\ todo[c] # <<>> /\ Proceed(c, w)
          /\ s.op \in {"update", "insert"} /\ ~Blocked(c)
          /\ s.op = "insert" => ~Taken(s)
      BY <1>2 DEF Write
    <2>2. Statement(s) /\ "turns" \in DOMAIN mine[c]
      BY <2>1, Rest DEF IInv, Shaped
    <2>3. "turns" \in DOMAIN w
      BY <2>2, WritesIn
    <2>4. ASSUME NEW i \in DOMAIN w.turns, i \notin Places(c)
          PROVE  i \notin DOMAIN table.turns /\ \A d \in Connections \ {c} : i \notin Places(d)
      <3>1. s.on = "turns" /\ i = s.key
        BY <2>2, <2>4, WritesIn DEF Places
      <3>2. ~Taken(s)
        BY <2>1, <2>2, <3>1 DEF Statement
      <3>3. i \notin DOMAIN table.turns
        BY <3>1, <3>2 DEF Taken
      <3>4. ASSUME NEW d \in Connections \ {c} PROVE i \notin Places(d)
        <4>1. ~WaitsFor(c, d)
          BY <2>1 DEF Blocked
        <4>2. ~Holds(d, s)
          BY <2>1, <4>1 DEF WaitsFor
        <4> QED
          BY <3>1, <4>2 DEF Holds, Places
      <3> QED
        BY <3>3, <3>4
    <2> HIDE DEF w
    <2>5. IInv'
      BY <2>1, <2>3, <2>4, ProceedKeeps
    <2>6. Stay
      BY <2>1 DEF Proceed, Stay
    <2> QED
      BY <2>5, <2>6
  <1> QED
    BY <1>1, <1>2

-----------------------------------------------------------------------------
(* The invariant and the theorems *)

LEMMA InitHolds == Init => IInv
  <1> SUFFICES ASSUME Init PROVE IInv
    OBVIOUS
  <1>1. mine = [c \in Connections |-> NoWrites] /\ todo = [c \in Connections |-> <<>>]
    BY DEF Init
  <1>2. "turns" \in DOMAIN NoWrites /\ DOMAIN NoWrites.turns = {}
    BY DEF NoWrites
  <1>3. Shaped
    BY <1>1, <1>2, NothingToRun DEF Shaped
  <1>4. \A c \in Connections : Places(c) = {}
    BY <1>1, <1>2 DEF Places
  <1> QED
    BY <1>3, <1>4 DEF IInv, PlacesAreOwn

LEMMA NextKeeps == IInv /\ [Next]_vars => IInv' /\ Stay
  <1> SUFFICES ASSUME IInv, [Next]_vars PROVE IInv' /\ Stay
    OBVIOUS
  <1>1. CASE UNCHANGED vars
    BY <1>1 DEF vars, IInv, Shaped, PlacesAreOwn, Places, Stay
  <1>2. ASSUME NEW c \in Connections, Connect(c) PROVE IInv' /\ Stay
    BY <1>2 DEF Connect, IInv, Shaped, PlacesAreOwn, Places, Stay
  <1>3. ASSUME NEW c \in Connections, Disconnect(c) \/ DeadlockVictim(c) PROVE IInv' /\ Stay
    BY <1>3, LeavingKeeps DEF Disconnect, DeadlockVictim, Stay
  <1>4. ASSUME NEW c \in Connections,
               Start(c) \/ Resume(c) \/ SubmitAnswer(c) \/ TranscriberUnavailable(c)
        PROVE  IInv' /\ Stay
    <2>1. UNCHANGED table
      BY <1>4 DEF Start, Resume, SubmitAnswer, TranscriberUnavailable
    <2> QED
      BY <1>4, <2>1, BeginKeeps DEF Stay
  <1>5. ASSUME NEW c \in Connections, AudioChunk(c) \/ CompleteAnswer(c) PROVE IInv' /\ Stay
    BY <1>5 DEF AudioChunk, CompleteAnswer, Await, IInv, Shaped, PlacesAreOwn, Places, Stay
  <1>6. ASSUME NEW c \in Connections, Verified(c) PROVE IInv' /\ Stay
    <2>1. UNCHANGED table
      BY <1>6 DEF Verified
    <2> QED
      BY <1>6, <2>1, VerifiedKeeps DEF Stay
  <1>7. ASSUME NEW c \in Connections, CompareVersion(c) \/ FindKey(c) PROVE IInv' /\ Stay
    BY <1>7, LookKeeps
  <1>8. ASSUME NEW c \in Connections, Write(c) PROVE IInv' /\ Stay
    BY <1>8, WriteKeeps
  <1> QED
    BY <1>1, <1>2, <1>3, <1>4, <1>5, <1>6, <1>7, <1>8 DEF Next

\* The places in the transcript that transactions have written in are theirs alone,
\* however many connections a client opens and at whichever processes.
THEOREM Inductive == Spec => []IInv
  BY InitHolds, NextKeeps, PTL DEF Spec

\* What is committed in the transcript keeps its place and its content, although
\* every connection counts the turns it sees before it waits and then inserts
\* (interview_engine/api/runtime.py, persistence.add_turn).
THEOREM TurnsStay == Spec => CommittedTurnsStay
  <1>1. IInv /\ [Next]_vars =>
            [\A i \in DOMAIN table.turns :
                table.turns[i].kind # "recording" =>
                    i \in DOMAIN table'.turns /\ table'.turns[i] = table.turns[i]]_table
    BY NextKeeps DEF Stay
  <1> QED
    BY <1>1, Inductive, PTL DEF Spec, CommittedTurnsStay

-----------------------------------------------------------------------------
(* What is committed belongs together.  The rest of the module is about the *)
(* rows that a transaction would leave if it committed now: `t' stands for  *)
(* the committed rows, `w' for what a transaction has written, `v' for the  *)
(* rows as that transaction sees them, `p' for what its handler has to run. *)

\* Sequences at which a session waits for an answer or is completed are even.  Nobody
\* gets to one without passing those before it.
EvenClosed(S) == \A m \in S : m % 2 = 0 => \A j \in 1..m : j % 2 = 0 => j \in S

\* The row has a checkpoint of its own, and a paused one that of the wait before it.
Marked(row, S) ==
    /\ row \in Row
    /\ row.state = "preparing" => row.sequence = 0
    /\ row.state \in {"awaiting_answer", "completed"} => row.sequence % 2 = 0 /\ row.sequence \in S
    /\ row.state = "paused" => row.sequence % 2 = 1 /\ row.sequence - 1 \in S /\ row.sequence \in S

\* The row will be marked once it has its checkpoint.
Follows(row, S) ==
    /\ row \in Row /\ row.state # "preparing"
    /\ row.state = "paused" => row.sequence % 2 = 1 /\ row.sequence - 1 \in S
    /\ row.state # "paused" =>
          row.sequence % 2 = 0 /\ (row.sequence = 2 \/ row.sequence - 2 \in S)

Finals(turns) == Cardinality(Of(turns, "final"))

\* A transcript without a gap.
Whole(turns) ==
    /\ \E n \in Nat : DOMAIN turns = 1..n
    /\ \A i \in DOMAIN turns : turns[i] \in Turn

\* A question is asked when the answers before it are final.
InStep(turns) ==
    \A i \in DOMAIN turns : turns[i].kind = "question" => turns[i].number <= Finals(turns) + 1

RowsAgree(v) ==
    /\ v.checkpoints \subseteq Nat \ {0} /\ EvenClosed(v.checkpoints)
    /\ Whole(v.turns) /\ InStep(v.turns)
    /\ v.event \in BOOLEAN
    /\ v.event => Finals(v.turns) >= MaxQuestions

Sound(t) == RowsAgree(t) /\ Marked(t.session, t.checkpoints)

\* What a transaction writes has its types.
Written(w) ==
    /\ DOMAIN w = Tables
    /\ w.session \in Row \cup {NoRow}
    /\ w.event \in BOOLEAN

\* The session row is one that may be committed.
Clean(v, w) ==
    /\ Marked(v.session, v.checkpoints)
    /\ w.session # NoRow => w.session.sequence \in w.checkpoints

FreshPlace(v, w, i) == i \notin DOMAIN w.turns /\ (i = 1 \/ i - 1 \in DOMAIN v.turns)

Asks(v, w, i, k) == FreshPlace(v, w, i) /\ k <= Finals(v.turns) + 1

\* The transaction has a turn, so that nobody else can commit one, and the question is not there.
Unasked(v, w, k) ==
    /\ DOMAIN w.turns # {}
    /\ \A i \in DOMAIN v.turns : v.turns[i] # Question(k)

\* What is left to run once the session row x is saved.
After(v, w, x, p) ==
    /\ Follows(x, v.checkpoints)
    /\ \/ p = <<AddCheckpoint(x.sequence)>>
       \/ \E i, k \in Nat :
             Asks(v, w, i, k) /\ p = <<AddTurn(i, Question(k)), AddCheckpoint(x.sequence)>>
       \/ \E i, k \in Nat :
             /\ Asks(v, w, i, k) /\ Unasked(v, w, k)
             /\ p = <<Find("turns", Question(k)), AddTurn(i, Question(k)), AddCheckpoint(x.sequence)>>
       \/ /\ Finals(v.turns) >= MaxQuestions
          /\ p = <<AddCheckpoint(x.sequence), Find("event", NoRow), AddEvent>>

Saving(v, w, p) == p # <<>> /\ \E x \in Row : Head(p) = Save(x) /\ After(v, w, x, Tail(p))

\* What a handler has left to run, by how far it is.
Left(v, w, p) ==
    \/ p = <<>> /\ Clean(v, w)
    \/ Clean(v, w) /\ \E i \in Nat : p = <<AddTurn(i, Recording)>> /\ FreshPlace(v, w, i)
    \/ Clean(v, w) /\ p # <<>> /\ Head(p).op = "check" /\ Saving(v, w, Tail(p))
    \/ Clean(v, w) /\ Saving(v, w, p)
    \/ After(v, w, w.session, p)
    \/ /\ Clean(v, w) /\ Finals(v.turns) >= MaxQuestions
       /\ p = <<Find("event", NoRow), AddEvent>> \/ p = <<AddEvent>>

\* A handler that waits has read a row that was marked, and an answer to complete.
Waits(v, w, p, ph, sn) ==
    /\ ph \in {"off", "idle", "verifying", "transcribing", "writing"}
    /\ ph = "writing" <=> p # <<>>
    /\ ph = "verifying" => Of(w.turns, "recording") # {}
    /\ sn \in Row \cup {NoRow}
    /\ ph \in {"verifying", "transcribing"} =>
          sn.state = "awaiting_answer" /\ Marked(sn, v.checkpoints)

Fits(t, w, p, ph, sn) ==
    /\ Written(w)
    /\ RowsAgree(Merged(t, w))
    /\ Left(Merged(t, w), w, p)
    /\ Waits(Merged(t, w), w, p, ph, sn)

\* Checkpoints a transaction has written are its own, like its places.
PointsAreOwn ==
    /\ \A c \in Connections : \A n \in mine[c].checkpoints : n \notin table.checkpoints
    /\ \A c, d \in Connections : c # d => \A n \in mine[c].checkpoints : n \notin mine[d].checkpoints

Agreement ==
    /\ Sound(table)
    /\ DOMAIN phase = Connections /\ DOMAIN seen = Connections
    /\ \A c \in Connections : Fits(table, mine[c], todo[c], phase[c], seen[c])
    /\ PointsAreOwn

-----------------------------------------------------------------------------
(* Sequences and their checkpoints *)

LEMMA MarkedGrows ==
    ASSUME NEW row, NEW S, NEW T, S \subseteq T, Marked(row, S)
    PROVE  Marked(row, T)
  BY DEF Marked

LEMMA FollowsGrows ==
    ASSUME NEW row, NEW S, NEW T, S \subseteq T, Follows(row, S)
    PROVE  Follows(row, T)
  BY DEF Follows

LEMMA ClosedTogether ==
    ASSUME NEW S, NEW T, EvenClosed(S), EvenClosed(T)
    PROVE  EvenClosed(S \cup T)
  BY DEF EvenClosed

\* A row that follows gets its checkpoint.
LEMMA MarkedNext ==
    ASSUME NEW S, S \subseteq Nat \ {0}, EvenClosed(S), NEW x, Follows(x, S)
    PROVE  /\ S \cup {x.sequence} \subseteq Nat \ {0}
           /\ EvenClosed(S \cup {x.sequence})
           /\ Marked(x, S \cup {x.sequence})
  <1>1. x.sequence \in Nat \ {0}
    BY DEF Follows, Row
  <1>2. ASSUME x.sequence % 2 = 0, NEW j \in 1..x.sequence, j % 2 = 0 PROVE j \in S \cup {x.sequence}
    <2>1. x.sequence = 2 \/ x.sequence - 2 \in S
      BY <1>2 DEF Follows, Row
    <2>2. j = x.sequence \/ j \in 1..(x.sequence - 2)
      BY <1>1, <1>2
    <2>3. CASE x.sequence - 2 \in S
      <3>1. (x.sequence - 2) % 2 = 0
        BY <1>1, <1>2
      <3> QED
        BY <2>2, <2>3, <3>1, <1>2 DEF EvenClosed
    <2>4. CASE x.sequence = 2
      BY <2>2, <2>4
    <2> QED
      BY <2>1, <2>3, <2>4
  <1>3. EvenClosed(S \cup {x.sequence})
    BY <1>2 DEF EvenClosed
  <1>4. Marked(x, S \cup {x.sequence})
    BY DEF Marked, Follows, Row
  <1> QED
    BY <1>1, <1>3, <1>4

\* What the handlers save next.
LEMMA MovedFollows ==
    ASSUME NEW S, S \subseteq Nat \ {0}, NEW row, Marked(row, S)
    PROVE  /\ row.state = "preparing" => Follows(Moved(row, "awaiting_answer", 2), S)
           /\ row.state = "paused" => Follows(Moved(row, "awaiting_answer", 1), S)
           /\ row.state = "awaiting_answer" =>
                 /\ Follows(Moved(row, "paused", 1), S)
                 /\ Follows(Moved(row, "awaiting_answer", 2), S)
                 /\ Follows(Moved(row, "completed", 2), S)
  BY DEF Marked, Follows, Moved, Row

-----------------------------------------------------------------------------
(* Transcripts *)

LEMMA FinalsCounted ==
    ASSUME NEW t, Whole(t), NEW kind
    PROVE  IsFiniteSet(Of(t, kind)) /\ Finals(t) \in Nat
  <1>1. PICK n \in Nat : DOMAIN t = 1..n
    BY DEF Whole
  <1>2. IsFiniteSet(DOMAIN t)
    BY <1>1, FS_Interval
  <1>3. Of(t, kind) \subseteq DOMAIN t /\ Of(t, "final") \subseteq DOMAIN t
    BY DEF Of
  <1>4. IsFiniteSet(Of(t, kind)) /\ IsFiniteSet(Of(t, "final"))
    BY <1>2, <1>3, FS_Subset
  <1> QED
    BY <1>4, FS_CardinalityType DEF Finals

LEMMA FinalsGrow ==
    ASSUME NEW t, NEW u, Whole(t), Whole(u), Of(t, "final") \subseteq Of(u, "final")
    PROVE  Finals(t) \in Nat /\ Finals(u) \in Nat /\ Finals(t) <= Finals(u)
  <1>1. IsFiniteSet(Of(u, "final")) /\ Finals(t) \in Nat /\ Finals(u) \in Nat
    BY FinalsCounted
  <1> QED
    BY <1>1, FS_Subset DEF Finals

\* The turns that are there stay, and a turn more may be added at the end.
Keeps(t, u) == \A j \in DOMAIN t : j \in DOMAIN u /\ u[j] = t[j]

LEMMA KeepsFinals ==
    ASSUME NEW t, NEW u, Keeps(t, u)
    PROVE  Of(t, "final") \subseteq Of(u, "final")
  BY DEF Keeps, Of

LEMMA AddedTurn ==
    ASSUME NEW t, Whole(t), InStep(t), NEW u, NEW i, NEW turn \in Turn,
           i \notin DOMAIN t, i = 1 \/ i - 1 \in DOMAIN t, i \in Nat,
           Keeps(t, u), DOMAIN u = DOMAIN t \cup {i}, u[i] = turn,
           turn.kind = "question" => turn.number <= Finals(t) + 1
    PROVE  Whole(u) /\ InStep(u) /\ Finals(t) <= Finals(u)
  <1>1. PICK n \in Nat : DOMAIN t = 1..n
    BY DEF Whole
  <1>2. i = n + 1
    BY <1>1
  <1>3. DOMAIN u = 1..(n + 1)
    BY <1>1, <1>2
  <1>4. Whole(u)
    BY <1>3 DEF Whole, Keeps
  <1>5. Finals(t) \in Nat /\ Finals(u) \in Nat /\ Finals(t) <= Finals(u)
    BY <1>4, KeepsFinals, FinalsGrow
  <1>6. InStep(u)
    BY <1>4, <1>5 DEF InStep, Keeps, Whole, Turn
  <1> QED
    BY <1>4, <1>5, <1>6

\* The answers in O become final.
LEMMA FinalizedTurns ==
    ASSUME NEW t, Whole(t), InStep(t), NEW u, DOMAIN u = DOMAIN t,
           NEW O, O \subseteq Of(t, "recording"), O # {},
           \A j \in DOMAIN t : u[j] = IF j \in O THEN Final ELSE t[j]
    PROVE  Whole(u) /\ InStep(u) /\ Finals(u) >= Finals(t) + 1
  <1>1. Whole(u)
    BY DEF Whole, Final, Turn, Of
  <1>2. PICK o \in O : TRUE
    OBVIOUS
  <1>3. Of(t, "final") \cup {o} \subseteq Of(u, "final") /\ o \notin Of(t, "final")
    BY DEF Of, Final
  <1>4. Cardinality(Of(t, "final") \cup {o}) = Finals(t) + 1
    BY <1>3, FinalsCounted, FS_AddElement DEF Finals
  <1>5. Finals(u) >= Finals(t) + 1 /\ Finals(t) \in Nat /\ Finals(u) \in Nat
    BY <1>1, <1>3, <1>4, FinalsCounted, FS_Subset DEF Finals
  <1>6. InStep(u)
    <2> SUFFICES ASSUME NEW j \in DOMAIN u, u[j].kind = "question" PROVE u[j].number <= Finals(u) + 1
      BY DEF InStep
    <2>1. u[j] = t[j]
      BY DEF Final
    <2>2. t[j].number <= Finals(t) + 1 /\ t[j].number \in Nat
      BY <2>1 DEF InStep, Whole, Turn
    <2> QED
      BY <1>5, <2>1, <2>2
  <1> QED
    BY <1>1, <1>5, <1>6

-----------------------------------------------------------------------------
(* What a transaction sees *)

LEMMA MergedIs ==
    ASSUME NEW t, NEW w
    PROVE  /\ Merged(t, w).session = IF w.session = NoRow THEN t.session ELSE w.session
           /\ Merged(t, w).checkpoints = t.checkpoints \cup w.checkpoints
           /\ Merged(t, w).event = (t.event \/ w.event)
           /\ DOMAIN Merged(t, w).turns = DOMAIN t.turns \cup DOMAIN w.turns
           /\ \A i \in DOMAIN w.turns : Merged(t, w).turns[i] = w.turns[i]
           /\ \A i \in DOMAIN t.turns \ DOMAIN w.turns : Merged(t, w).turns[i] = t.turns[i]
  BY DEF Merged, Overlay

LEMMA NothingIs ==
    /\ NoWrites.session = NoRow /\ DOMAIN NoWrites.turns = {}
    /\ NoWrites.checkpoints = {} /\ NoWrites.event = FALSE
    /\ Written(NoWrites)
    /\ Of(NoWrites.turns, "recording") = {}
  <1>1. NoWrites.turns = <<>> /\ DOMAIN NoWrites = Tables
    BY DEF NoWrites, Tables
  <1>2. DOMAIN NoWrites.turns = {}
    BY <1>1
  <1> QED
    BY <1>1, <1>2 DEF NoWrites, Written, Of

LEMMA SameTurns ==
    ASSUME NEW t, NEW u, Keeps(t, u), DOMAIN u = DOMAIN t
    PROVE  /\ Of(u, "final") = Of(t, "final") /\ Finals(u) = Finals(t)
           /\ Whole(t) => Whole(u)
           /\ InStep(t) => InStep(u)
  <1>1. Of(u, "final") = Of(t, "final")
    BY DEF Keeps, Of
  <1>2. Finals(u) = Finals(t)
    BY <1>1 DEF Finals
  <1>3. Whole(t) => Whole(u)
    BY DEF Keeps, Whole
  <1>4. InStep(t) => InStep(u)
    BY <1>2 DEF Keeps, InStep
  <1> QED
    BY <1>1, <1>2, <1>3, <1>4

\* A transaction that has written nothing sees what is committed.
LEMMA NothingAdds ==
    ASSUME NEW t, NEW w, w.session = NoRow, DOMAIN w.turns = {}, w.checkpoints = {}, w.event = FALSE
    PROVE  /\ Merged(t, w).session = t.session
           /\ Merged(t, w).checkpoints = t.checkpoints
           /\ Merged(t, w).event = (t.event \/ FALSE)
           /\ DOMAIN Merged(t, w).turns = DOMAIN t.turns
           /\ Keeps(t.turns, Merged(t, w).turns)
  <1> DEFINE v == Merged(t, w)
  <1>1. /\ v.session = IF w.session = NoRow THEN t.session ELSE w.session
        /\ v.checkpoints = t.checkpoints \cup w.checkpoints
        /\ v.event = (t.event \/ w.event)
        /\ DOMAIN v.turns = DOMAIN t.turns \cup DOMAIN w.turns
        /\ \A i \in DOMAIN t.turns \ DOMAIN w.turns : v.turns[i] = t.turns[i]
    BY MergedIs
  <1> HIDE DEF v
  <1>2. v.session = t.session /\ v.checkpoints = t.checkpoints
    BY <1>1
  <1>3. DOMAIN v.turns = DOMAIN t.turns
    BY <1>1
  <1>4. Keeps(t.turns, v.turns)
    BY <1>1, <1>3 DEF Keeps
  <1>5. v.event = (t.event \/ FALSE)
    BY <1>1
  <1> QED
    BY <1>2, <1>3, <1>4, <1>5 DEF v

LEMMA NothingFits ==
    ASSUME NEW t, Sound(t)
    PROVE  Fits(t, NoWrites, <<>>, "off", NoRow)
  <1> DEFINE w == NoWrites
             v == Merged(t, w)
  <1>1. w.session = NoRow /\ DOMAIN w.turns = {} /\ w.checkpoints = {} /\ w.event = FALSE
    BY NothingIs
  <1>2. /\ v.session = t.session /\ v.checkpoints = t.checkpoints
        /\ v.event = (t.event \/ FALSE)
        /\ DOMAIN v.turns = DOMAIN t.turns /\ Keeps(t.turns, v.turns)
    BY <1>1, NothingAdds
  <1> HIDE DEF v
  <1>3. RowsAgree(v)
    <2>1. Whole(v.turns) /\ InStep(v.turns) /\ Finals(v.turns) = Finals(t.turns)
      BY <1>2, SameTurns DEF Sound, RowsAgree
    <2> QED
      BY <1>2, <2>1 DEF Sound, RowsAgree
  <1>4. Clean(v, w)
    BY <1>1, <1>2 DEF Clean, Sound
  <1>5. Left(v, w, <<>>)
    BY <1>4 DEF Left
  <1>6. Waits(v, w, <<>>, "off", NoRow)
    BY NothingIs DEF Waits
  <1> QED
    BY <1>3, <1>5, <1>6, NothingIs DEF Fits, v

\* What a clean transaction commits is sound.
LEMMA CleanIsSound ==
    ASSUME NEW v, NEW w, RowsAgree(v), Clean(v, w)
    PROVE  Sound(v)
  BY DEF Sound, Clean

-----------------------------------------------------------------------------
(* Others commit *)

LEMMA LeftGoesOn ==
    ASSUME NEW v, NEW z, NEW w, NEW p, Left(v, w, p),
           v.checkpoints \subseteq z.checkpoints, Clean(v, w) => Clean(z, w),
           DOMAIN v.turns \subseteq DOMAIN z.turns,
           Finals(v.turns) \in Nat, Finals(z.turns) \in Nat, Finals(v.turns) <= Finals(z.turns),
           DOMAIN w.turns = {} \/ DOMAIN v.turns = DOMAIN z.turns,
           Keeps(v.turns, z.turns)
    PROVE  Left(z, w, p)
  <1>1. \A i : FreshPlace(v, w, i) => FreshPlace(z, w, i)
    BY DEF FreshPlace
  <1>2. \A i : \A k \in Nat : Asks(v, w, i, k) => Asks(z, w, i, k)
    BY <1>1 DEF Asks
  <1>3. \A k : Unasked(v, w, k) => Unasked(z, w, k)
    BY DEF Unasked, Keeps
  <1>4. \A x : Follows(x, v.checkpoints) => Follows(x, z.checkpoints)
    BY FollowsGrows
  <1>5. Finals(v.turns) >= MaxQuestions => Finals(z.turns) >= MaxQuestions
    BY MaxQuestionsAssumption
  <1>6. ASSUME NEW x, NEW q, After(v, w, x, q) PROVE After(z, w, x, q)
    BY <1>2, <1>3, <1>4, <1>5, <1>6 DEF After
  <1>7. ASSUME NEW q, Saving(v, w, q) PROVE Saving(z, w, q)
    BY <1>6, <1>7 DEF Saving
  <1> QED
    BY <1>1, <1>5, <1>6, <1>7 DEF Left

LEMMA OthersCommit ==
    ASSUME NEW t, NEW u, NEW w, NEW p, NEW ph, NEW sn, Fits(t, w, p, ph, sn), Sound(u),
           t.checkpoints \subseteq u.checkpoints,
           Keeps(t.turns, u.turns),
           DOMAIN w.turns = {} \/ DOMAIN u.turns = DOMAIN t.turns,
           \A i \in DOMAIN w.turns : i \notin DOMAIN u.turns
    PROVE  Fits(u, w, p, ph, sn)
  <1> DEFINE v == Merged(t, w)
             z == Merged(u, w)
  <1>1. /\ DOMAIN v.turns = DOMAIN t.turns \cup DOMAIN w.turns
        /\ DOMAIN z.turns = DOMAIN u.turns \cup DOMAIN w.turns
        /\ \A i \in DOMAIN w.turns : v.turns[i] = w.turns[i] /\ z.turns[i] = w.turns[i]
        /\ \A i \in DOMAIN t.turns \ DOMAIN w.turns : v.turns[i] = t.turns[i]
        /\ \A i \in DOMAIN u.turns \ DOMAIN w.turns : z.turns[i] = u.turns[i]
        /\ v.checkpoints = t.checkpoints \cup w.checkpoints
        /\ z.checkpoints = u.checkpoints \cup w.checkpoints
        /\ z.event = (u.event \/ w.event) /\ v.event = (t.event \/ w.event)
        /\ v.session = IF w.session = NoRow THEN t.session ELSE w.session
        /\ z.session = IF w.session = NoRow THEN u.session ELSE w.session
    BY MergedIs
  <1>2. Written(w) /\ RowsAgree(v) /\ Left(v, w, p) /\ Waits(v, w, p, ph, sn)
    BY DEF Fits
  <1> HIDE DEF v, z
  <1>3. Keeps(v.turns, z.turns) /\ Keeps(u.turns, z.turns)
    BY <1>1 DEF Keeps
  <1>4. Whole(z.turns) /\ InStep(z.turns)
    <2>1. CASE DOMAIN w.turns = {}
      <3>1. DOMAIN z.turns = DOMAIN u.turns
        BY <1>1, <2>1
      <3> QED
        BY <1>3, <3>1, SameTurns DEF Sound, RowsAgree
    <2>2. CASE DOMAIN u.turns = DOMAIN t.turns
      <3>1. DOMAIN z.turns = DOMAIN v.turns
        BY <1>1, <2>2
      <3> QED
        BY <1>2, <1>3, <3>1, SameTurns DEF RowsAgree
    <2> QED
      BY <2>1, <2>2
  <1>5. /\ Finals(v.turns) \in Nat /\ Finals(z.turns) \in Nat /\ Finals(u.turns) \in Nat
        /\ Finals(v.turns) <= Finals(z.turns) /\ Finals(u.turns) <= Finals(z.turns)
    BY <1>2, <1>3, <1>4, KeepsFinals, FinalsGrow DEF Sound, RowsAgree
  <1>6. v.checkpoints \subseteq z.checkpoints
    BY <1>1
  <1>7. RowsAgree(z)
    <2>1. z.checkpoints = u.checkpoints \cup v.checkpoints
      BY <1>1
    <2>2. EvenClosed(z.checkpoints) /\ z.checkpoints \subseteq Nat \ {0}
      BY <1>2, <2>1, ClosedTogether DEF Sound, RowsAgree
    <2>3. z.event \in BOOLEAN
      BY <1>1
    <2>4. z.event => Finals(z.turns) >= MaxQuestions
      BY <1>1, <1>2, <1>5, MaxQuestionsAssumption DEF Sound, RowsAgree
    <2> QED
      BY <1>4, <2>2, <2>3, <2>4 DEF RowsAgree
  <1>8. Clean(v, w) => Clean(z, w)
    <2> SUFFICES ASSUME Clean(v, w) PROVE Clean(z, w)
      OBVIOUS
    <2>1. CASE w.session = NoRow
      <3>1. Marked(z.session, z.checkpoints)
        BY <1>1, <2>1, MarkedGrows DEF Sound
      <3> QED
        BY <2>1, <3>1 DEF Clean
    <2>2. CASE w.session # NoRow
      <3>1. Marked(z.session, z.checkpoints)
        BY <1>1, <1>6, <2>2, MarkedGrows DEF Clean
      <3> QED
        BY <3>1 DEF Clean
    <2> QED
      BY <2>1, <2>2
  <1>9. Left(z, w, p)
    <2>1. DOMAIN v.turns \subseteq DOMAIN z.turns
      BY <1>3 DEF Keeps
    <2>2. DOMAIN w.turns = {} \/ DOMAIN v.turns = DOMAIN z.turns
      BY <1>1
    <2> QED
      BY <1>2, <1>3, <1>5, <1>6, <1>8, <2>1, <2>2, LeftGoesOn
  <1>10. Waits(z, w, p, ph, sn)
    BY <1>2, <1>6, MarkedGrows DEF Waits
  <1> QED
    BY <1>2, <1>7, <1>9, <1>10 DEF Fits, z

\* Of two transactions that see transcripts without a gap and share no place, one at most
\* has written in a place.
LEMMA OneWriter ==
    ASSUME NEW t, NEW w, NEW x, Whole(t.turns),
           Whole(Merged(t, w).turns), Whole(Merged(t, x).turns),
           \A i \in DOMAIN w.turns : i \notin DOMAIN t.turns /\ i \notin DOMAIN x.turns,
           \A i \in DOMAIN x.turns : i \notin DOMAIN t.turns
    PROVE  DOMAIN w.turns = {} \/ DOMAIN x.turns = {}
  <1>1. /\ DOMAIN Merged(t, w).turns = DOMAIN t.turns \cup DOMAIN w.turns
        /\ DOMAIN Merged(t, x).turns = DOMAIN t.turns \cup DOMAIN x.turns
    BY MergedIs
  <1>2. PICK n \in Nat : DOMAIN t.turns = 1..n
    BY DEF Whole
  <1>3. PICK a \in Nat : DOMAIN t.turns \cup DOMAIN w.turns = 1..a
    BY <1>1 DEF Whole
  <1>4. PICK b \in Nat : DOMAIN t.turns \cup DOMAIN x.turns = 1..b
    BY <1>1 DEF Whole
  <1>5. CASE a > n /\ b > n
    <2>1. n + 1 \in DOMAIN w.turns /\ n + 1 \in DOMAIN x.turns
      BY <1>2, <1>3, <1>4, <1>5
    <2> QED
      BY <2>1
  <1>6. CASE ~(a > n /\ b > n)
    BY <1>2, <1>3, <1>4, <1>6
  <1> QED
    BY <1>5, <1>6

-----------------------------------------------------------------------------
(* Steps of a connection *)

\* What a step makes of connection c; the others stay as they are.
Becomes(c, w, p, ph, sn) ==
    /\ mine'[c] = w /\ todo'[c] = p /\ phase'[c] = ph /\ seen'[c] = sn
    /\ \A d \in Connections \ {c} :
          mine'[d] = mine[d] /\ todo'[d] = todo[d] /\ phase'[d] = phase[d] /\ seen'[d] = seen[d]
    /\ DOMAIN phase' = Connections /\ DOMAIN seen' = Connections

\* A session that waits for an answer is not put back.
Advances ==
    table'.session.state = "awaiting_answer" => table'.session.sequence >= table.session.sequence

LEMMA StayingAdvances ==
    ASSUME Sound(table), UNCHANGED table.session
    PROVE  Advances
  BY DEF Sound, Marked, Row, Advances

LEMMA StepKeeps ==
    ASSUME Agreement, NEW c \in Connections, UNCHANGED table,
           NEW w, NEW p, NEW ph, NEW sn, Becomes(c, w, p, ph, sn),
           Fits(table, w, p, ph, sn),
           \A n \in w.checkpoints :
              \/ n \in mine[c].checkpoints
              \/ n \notin table.checkpoints /\ \A d \in Connections \ {c} : n \notin mine[d].checkpoints
    PROVE  Agreement' /\ Advances
  <1>1. Sound(table)'
    BY DEF Agreement
  <1>2. ASSUME NEW d \in Connections
        PROVE  Fits(table', mine'[d], todo'[d], phase'[d], seen'[d])
    BY DEF Agreement, Becomes
  <1>3. PointsAreOwn'
    <2>1. ASSUME NEW d \in Connections, NEW n \in mine'[d].checkpoints PROVE n \notin table'.checkpoints
      BY DEF Agreement, PointsAreOwn, Becomes
    <2>2. ASSUME NEW d \in Connections, NEW e \in Connections, d # e, NEW n \in mine'[d].checkpoints
          PROVE  n \notin mine'[e].checkpoints
      BY <2>2 DEF Agreement, PointsAreOwn, Becomes
    <2> QED
      BY <2>1, <2>2 DEF PointsAreOwn
  <1>4. Advances
    BY StayingAdvances DEF Agreement
  <1> QED
    BY <1>1, <1>2, <1>3, <1>4 DEF Agreement, Becomes

-----------------------------------------------------------------------------
(* A transaction ends *)

\* The sequence of a new checkpoint is ahead of the committed session.
LEMMA NewIsAhead ==
    ASSUME NEW S, EvenClosed(S), NEW row, Marked(row, S), NEW n \in Nat \ {0}, n % 2 = 0, n \notin S
    PROVE  row.sequence <= n
  <1> SUFFICES ASSUME row.sequence > n PROVE FALSE
    BY DEF Marked, Row
  <1>1. row.sequence \in Nat /\ row.state # "preparing"
    BY DEF Marked, Row
  <1>2. CASE row.state = "paused"
    <2>1. row.sequence - 1 \in S /\ (row.sequence - 1) % 2 = 0 /\ n \in 1..(row.sequence - 1)
      BY <1>1, <1>2 DEF Marked
    <2> QED
      BY <2>1 DEF EvenClosed
  <1>3. CASE row.state # "paused"
    <2>1. row.sequence \in S /\ row.sequence % 2 = 0 /\ n \in 1..row.sequence
      BY <1>1, <1>3 DEF Marked, Row
    <2> QED
      BY <2>1 DEF EvenClosed
  <1> QED
    BY <1>2, <1>3

LEMMA CommitAdvances ==
    ASSUME NEW t, Sound(t), NEW w, Written(w),
           Clean(Merged(t, w), w), RowsAgree(Merged(t, w)),
           \A n \in w.checkpoints : n \notin t.checkpoints
    PROVE  Merged(t, w).session.state = "awaiting_answer" =>
               Merged(t, w).session.sequence >= t.session.sequence
  <1> DEFINE v == Merged(t, w)
  <1>1. /\ v.session = IF w.session = NoRow THEN t.session ELSE w.session
        /\ v.checkpoints = t.checkpoints \cup w.checkpoints
    BY MergedIs
  <1> HIDE DEF v
  <1> SUFFICES ASSUME v.session.state = "awaiting_answer"
               PROVE  v.session.sequence >= t.session.sequence
    BY DEF v
  <1>2. t.session.sequence \in Nat
    BY DEF Sound, Marked, Row
  <1>3. CASE w.session = NoRow
    BY <1>1, <1>2, <1>3
  <1>4. CASE w.session # NoRow
    <2>1. v.session.sequence \in w.checkpoints /\ v.session = w.session
      BY <1>1, <1>4 DEF Clean, v
    <2>2. v.session.sequence % 2 = 0 /\ v.session.sequence \in v.checkpoints
      BY DEF Clean, Marked, v
    <2>3. v.checkpoints \subseteq Nat \ {0}
      BY DEF RowsAgree, v
    <2>4. v.session.sequence \in Nat \ {0} /\ v.session.sequence \notin t.checkpoints
      BY <2>1, <2>2, <2>3
    <2>5. t.session.sequence <= v.session.sequence
      BY <2>2, <2>4, NewIsAhead DEF Sound, RowsAgree
    <2> QED
      BY <1>2, <2>4, <2>5
  <1> QED
    BY <1>3, <1>4

LEMMA EndingKeeps ==
    ASSUME IInv, IInv', Agreement, NEW c \in Connections,
           \/ Abort(c)
           \/ CommitAndLeave(c, mine[c]) /\ Clean(Merged(table, mine[c]), mine[c])
    PROVE  Agreement' /\ Advances
  <1> DEFINE v == Merged(table, mine[c])
  <1>1. Becomes(c, NoWrites, <<>>, "off", NoRow)
    BY DEF Abort, CommitAndLeave, Leave, IInv, Shaped, Agreement, Becomes
  <1>2. /\ DOMAIN v.turns = DOMAIN table.turns \cup DOMAIN mine[c].turns
        /\ \A i \in DOMAIN table.turns \ DOMAIN mine[c].turns : v.turns[i] = table.turns[i]
        /\ v.checkpoints = table.checkpoints \cup mine[c].checkpoints
    BY MergedIs
  <1>3. Sound(table) /\ RowsAgree(v) /\ Written(mine[c]) /\ Fits(table, mine[c], todo[c], phase[c], seen[c])
    BY DEF Agreement, Fits
  <1> HIDE DEF v
  <1>4. table' = table \/ (table' = v /\ Clean(v, mine[c]))
    BY DEF Abort, CommitAndLeave, v
  <1>5. Sound(table)'
    BY <1>3, <1>4, CleanIsSound
  <1>6. Advances
    <2>1. CASE table' = table
      BY <1>3, <2>1, StayingAdvances
    <2>2. CASE table' = v /\ Clean(v, mine[c])
      <3>1. \A n \in mine[c].checkpoints : n \notin table.checkpoints
        BY DEF Agreement, PointsAreOwn
      <3>2. v.session.state = "awaiting_answer" => v.session.sequence >= table.session.sequence
        BY <1>3, <2>2, <3>1, CommitAdvances DEF v
      <3> QED
        BY <2>2, <3>2 DEF Advances
    <2> QED
      BY <1>4, <2>1, <2>2
  <1>7. Fits(table', mine'[c], todo'[c], phase'[c], seen'[c])
    BY <1>1, <1>5, NothingFits DEF Becomes
  <1>8. ASSUME NEW d \in Connections \ {c}
        PROVE  Fits(table', mine'[d], todo'[d], phase'[d], seen'[d])
    <2>1. Fits(table, mine[d], todo[d], phase[d], seen[d])
      BY DEF Agreement
    <2>2. /\ mine'[d] = mine[d] /\ todo'[d] = todo[d]
          /\ phase'[d] = phase[d] /\ seen'[d] = seen[d]
      BY <1>1 DEF Becomes
    <2>3. CASE table' = table
      BY <2>1, <2>2, <2>3
    <2>4. CASE table' = v
      <3>1. /\ \A i \in DOMAIN mine[c].turns : i \notin DOMAIN table.turns /\ i \notin DOMAIN mine[d].turns
            /\ \A i \in DOMAIN mine[d].turns : i \notin DOMAIN table.turns
        BY DEF IInv, PlacesAreOwn, Places
      <3>2. DOMAIN mine[c].turns = {} \/ DOMAIN mine[d].turns = {}
        <4>1. Whole(table.turns) /\ Whole(Merged(table, mine[c]).turns) /\ Whole(Merged(table, mine[d]).turns)
          BY <1>3, <2>1 DEF Sound, RowsAgree, Fits, v
        <4> QED
          BY <3>1, <4>1, OneWriter
      <3>3. Keeps(table.turns, v.turns)
        BY <1>2, <3>1 DEF Keeps
      <3>4. \A i \in DOMAIN mine[d].turns : i \notin DOMAIN v.turns
        BY <1>2, <3>1
      <3>5. DOMAIN mine[d].turns = {} \/ DOMAIN v.turns = DOMAIN table.turns
        BY <1>2, <3>2
      <3>6. table.checkpoints \subseteq v.checkpoints
        BY <1>2
      <3>7. Sound(v)
        BY <1>5, <2>4
      <3>8. Fits(v, mine[d], todo[d], phase[d], seen[d])
        BY <2>1, <3>3, <3>4, <3>5, <3>6, <3>7, OthersCommit
      <3> QED
        BY <2>2, <2>4, <3>8
    <2> QED
      BY <1>4, <2>3, <2>4
  <1>9. PointsAreOwn'
    <2>1. \A d \in Connections : \A n \in mine'[d].checkpoints : d # c /\ n \in mine[d].checkpoints
      BY <1>1, NothingIs DEF Becomes
    <2>2. table'.checkpoints \subseteq table.checkpoints \cup mine[c].checkpoints
      BY <1>2, <1>4
    <2>3. ASSUME NEW d \in Connections, NEW n \in mine'[d].checkpoints PROVE n \notin table'.checkpoints
      BY <2>1, <2>2 DEF Agreement, PointsAreOwn
    <2>4. ASSUME NEW d \in Connections, NEW e \in Connections, d # e, NEW n \in mine'[d].checkpoints
          PROVE  n \notin mine'[e].checkpoints
      BY <2>1, <2>4 DEF Agreement, PointsAreOwn
    <2> QED
      BY <2>3, <2>4 DEF PointsAreOwn
  <1> QED
    BY <1>1, <1>5, <1>6, <1>7, <1>8, <1>9 DEF Agreement, Becomes

-----------------------------------------------------------------------------
(* What the handlers schedule *)

LEMMA IdleIsClean ==
    ASSUME NEW v, NEW w, NEW p, NEW ph, NEW sn, Left(v, w, p), Waits(v, w, p, ph, sn), ph # "writing"
    PROVE  p = <<>> /\ Clean(v, w)
  <1>1. p = <<>>
    BY DEF Waits
  <1>2. ASSUME NEW x PROVE ~After(v, w, x, p)
    BY <1>1 DEF After
  <1>3. \A i : p # <<AddTurn(i, Recording)>>
    BY <1>1
  <1>4. p # <<Find("event", NoRow), AddEvent>> /\ p # <<AddEvent>>
    BY <1>1
  <1> QED
    BY <1>1, <1>2, <1>3, <1>4 DEF Left, Saving

LEMMA ScheduledTwo ==
    ASSUME NEW v, NEW w, Clean(v, w), NEW r, NEW x, Follows(x, v.checkpoints)
    PROVE  Left(v, w, <<Check(r), Save(x), AddCheckpoint(x.sequence)>>)
  <1> DEFINE a == Check(r)
             b == Save(x)
             e == AddCheckpoint(x.sequence)
             p == <<a, b, e>>
             q == <<b, e>>
  <1>1. a.op = "check" /\ x \in Row
    BY DEF Check, Follows
  <1>2. After(v, w, x, <<e>>)
    BY DEF After
  <1> HIDE DEF a, e
  <1>3. p # <<>> /\ Head(p) = a /\ Tail(p) = q /\ q # <<>> /\ Head(q) = b /\ Tail(q) = <<e>>
    OBVIOUS
  <1> HIDE DEF p, q
  <1>4. Saving(v, w, q)
    BY <1>1, <1>2, <1>3 DEF Saving
  <1>5. Left(v, w, p)
    BY <1>1, <1>3, <1>4 DEF Left
  <1> QED
    BY <1>5 DEF p, a, e

LEMMA ScheduledThree ==
    ASSUME NEW v, NEW w, Clean(v, w), NEW r, NEW x, Follows(x, v.checkpoints),
           NEW i \in Nat, NEW k \in Nat, Asks(v, w, i, k)
    PROVE  Left(v, w, <<Check(r), Save(x), AddTurn(i, Question(k)), AddCheckpoint(x.sequence)>>)
  <1> DEFINE a == Check(r)
             b == Save(x)
             d == AddTurn(i, Question(k))
             e == AddCheckpoint(x.sequence)
             p == <<a, b, d, e>>
             q == <<b, d, e>>
  <1>1. a.op = "check" /\ x \in Row
    BY DEF Check, Follows
  <1>2. After(v, w, x, <<d, e>>)
    BY DEF After
  <1> HIDE DEF a, d, e
  <1>3. p # <<>> /\ Head(p) = a /\ Tail(p) = q /\ q # <<>> /\ Head(q) = b /\ Tail(q) = <<d, e>>
    OBVIOUS
  <1> HIDE DEF p, q
  <1>4. Saving(v, w, q)
    BY <1>1, <1>2, <1>3 DEF Saving
  <1>5. Left(v, w, p)
    BY <1>1, <1>3, <1>4 DEF Left
  <1> QED
    BY <1>5 DEF p, a, d, e

\* Both ends of a completed answer: the next question, or the end of the interview.
LEMMA ScheduledFive ==
    ASSUME NEW v, NEW w, Clean(v, w), NEW r, NEW x, Follows(x, v.checkpoints),
           NEW d, NEW e, NEW f, After(v, w, x, <<d, e, f>>)
    PROVE  Left(v, w, <<Check(r), Save(x), d, e, f>>)
  <1> DEFINE a == Check(r)
             b == Save(x)
             p == <<a, b, d, e, f>>
             q == <<b, d, e, f>>
  <1>1. a.op = "check" /\ x \in Row
    BY DEF Check, Follows
  <1> HIDE DEF a
  <1>3. p # <<>> /\ Head(p) = a /\ Tail(p) = q /\ q # <<>> /\ Head(q) = b /\ Tail(q) = <<d, e, f>>
    OBVIOUS
  <1> HIDE DEF p, q
  <1>4. Saving(v, w, q)
    BY <1>1, <1>3 DEF Saving
  <1>5. Left(v, w, p)
    BY <1>1, <1>3, <1>4 DEF Left
  <1> QED
    BY <1>5 DEF p, a

-----------------------------------------------------------------------------
(* The handlers *)

\* The view of a connection, and what is known of it.
LEMMA Known ==
    ASSUME Agreement, NEW c \in Connections
    PROVE  LET v == Merged(table, mine[c])
           IN  /\ Session(c) = v.session /\ Turns(c) = v.turns
               /\ Written(mine[c]) /\ RowsAgree(v) /\ Left(v, mine[c], todo[c])
               /\ Waits(v, mine[c], todo[c], phase[c], seen[c])
               /\ phase[c] # "writing" => todo[c] = <<>> /\ Clean(v, mine[c])
  <1> DEFINE v == Merged(table, mine[c])
  <1>1. Session(c) = v.session /\ Turns(c) = v.turns
    BY DEF Session, Turns, Merged
  <1>2. /\ Written(mine[c]) /\ RowsAgree(v) /\ Left(v, mine[c], todo[c])
        /\ Waits(v, mine[c], todo[c], phase[c], seen[c])
    BY DEF Agreement, Fits
  <1>3. phase[c] # "writing" => todo[c] = <<>> /\ Clean(v, mine[c])
    BY <1>2, IdleIsClean
  <1> QED
    BY <1>1, <1>2, <1>3

\* A handler that decides what to run, and writes nothing.
LEMMA DecidingKeeps ==
    ASSUME IInv, Agreement, NEW c \in Connections, NEW p, p # <<>>, Run(c, p),
           UNCHANGED <<table, mine, seen>>, Left(Merged(table, mine[c]), mine[c], p)
    PROVE  Agreement' /\ Advances
  <1> DEFINE w == mine[c]
             v == Merged(table, w)
  <1>1. Becomes(c, w, p, "writing", seen[c])
    BY DEF Run, IInv, Shaped, Agreement, Becomes
  <1>2. Waits(v, w, p, "writing", seen[c])
    BY Known DEF Waits
  <1>3. Fits(table, w, p, "writing", seen[c])
    BY <1>2, Known DEF Fits
  <1> HIDE DEF w
  <1> QED
    BY <1>1, <1>3, StepKeeps DEF w

\* The next place in a transcript is the number of its turns, and one.
LEMMA NextPlace ==
    ASSUME NEW v, NEW w, Whole(v.turns), DOMAIN w.turns \subseteq DOMAIN v.turns
    PROVE  /\ Cardinality(DOMAIN v.turns) + 1 \in Nat
           /\ FreshPlace(v, w, Cardinality(DOMAIN v.turns) + 1)
  <1>1. PICK n \in Nat : DOMAIN v.turns = 1..n
    BY DEF Whole
  <1>2. Cardinality(DOMAIN v.turns) = n
    BY <1>1, FS_Interval
  <1>3. n + 1 \notin DOMAIN w.turns /\ (n + 1 = 1 \/ (n + 1) - 1 \in DOMAIN v.turns)
    BY <1>1
  <1> QED
    BY <1>2, <1>3 DEF FreshPlace

LEMMA StartAgrees ==
    ASSUME IInv, Agreement, NEW c \in Connections, Start(c)
    PROVE  Agreement' /\ Advances
  <1> DEFINE w == mine[c]
             v == Merged(table, w)
             next == Moved(Session(c), "awaiting_answer", 2)
             p == <<Check(Session(c)), Save(next), AddTurn(1, Question(1)), AddCheckpoint(next.sequence)>>
  <1>1. /\ Run(c, p) /\ UNCHANGED <<table, mine, seen>>
        /\ phase[c] = "idle" /\ DOMAIN v.turns = {} /\ v.session.state = "preparing"
    BY Known DEF Start, Fresh
  <1>2. Clean(v, w) /\ RowsAgree(v) /\ Session(c) = v.session
    BY <1>1, Known
  <1>3. Follows(next, v.checkpoints)
    BY <1>1, <1>2, MovedFollows DEF Clean, RowsAgree
  <1>4. Asks(v, w, 1, 1)
    <2>1. DOMAIN v.turns = DOMAIN table.turns \cup DOMAIN w.turns
      BY MergedIs
    <2>2. Finals(v.turns) \in Nat
      BY <1>2, FinalsCounted DEF RowsAgree
    <2> QED
      BY <1>1, <2>1, <2>2 DEF Asks, FreshPlace
  <1> HIDE DEF v, w, next
  <1>5. Left(v, w, p)
    BY <1>2, <1>3, <1>4, ScheduledThree
  <1>6. p # <<>>
    OBVIOUS
  <1> HIDE DEF p
  <1> QED
    BY <1>1, <1>5, <1>6, DecidingKeeps DEF v, w

LEMMA ResumeAgrees ==
    ASSUME IInv, Agreement, NEW c \in Connections, Resume(c)
    PROVE  Agreement' /\ Advances
  <1> DEFINE w == mine[c]
             v == Merged(table, w)
             next == Moved(Session(c), "awaiting_answer", 1)
             p == <<Check(Session(c)), Save(next), AddCheckpoint(next.sequence)>>
  <1>1. Clean(v, w) /\ RowsAgree(v) /\ Session(c) = v.session
    BY Known DEF Resume
  <1>2. CASE Session(c).state = "paused"
    <2>1. Run(c, p) /\ UNCHANGED <<table, mine, seen>>
      BY <1>2 DEF Resume
    <2>2. Follows(next, v.checkpoints)
      BY <1>1, <1>2, MovedFollows DEF Clean, RowsAgree
    <2> HIDE DEF v, w, next
    <2>3. Left(v, w, p)
      BY <1>1, <2>2, ScheduledTwo
    <2>4. p # <<>>
      OBVIOUS
    <2> HIDE DEF p
    <2> QED
      BY <2>1, <2>3, <2>4, DecidingKeeps DEF v, w
  <1>3. CASE Session(c).state # "paused"
    <2>1. UNCHANGED <<table, mine, todo, phase, seen>>
      BY <1>3 DEF Resume
    <2> QED
      BY <2>1, StayingAdvances DEF Agreement, PointsAreOwn
  <1> QED
    BY <1>2, <1>3

LEMMA SubmitAgrees ==
    ASSUME IInv, Agreement, NEW c \in Connections, SubmitAnswer(c)
    PROVE  Agreement' /\ Advances
  <1> DEFINE w == mine[c]
             v == Merged(table, w)
             i == Cardinality(DOMAIN v.turns) + 1
             p == <<AddTurn(i, Recording)>>
  <1>1. /\ Run(c, p) /\ UNCHANGED <<table, mine, seen>>
        /\ phase[c] = "idle"
    BY Known DEF SubmitAnswer, Fresh
  <1>2. Clean(v, w) /\ RowsAgree(v)
    BY <1>1, Known
  <1>3. i \in Nat /\ FreshPlace(v, w, i)
    <2>1. DOMAIN w.turns \subseteq DOMAIN v.turns
      BY MergedIs
    <2> QED
      BY <1>2, <2>1, NextPlace DEF RowsAgree
  <1> HIDE DEF v, w, i
  <1>4. Left(v, w, p)
    BY <1>2, <1>3 DEF Left
  <1>5. p # <<>>
    OBVIOUS
  <1> HIDE DEF p
  <1> QED
    BY <1>1, <1>4, <1>5, DecidingKeeps DEF v, w

LEMMA UnavailableAgrees ==
    ASSUME IInv, Agreement, NEW c \in Connections, TranscriberUnavailable(c)
    PROVE  Agreement' /\ Advances
  <1> DEFINE w == mine[c]
             v == Merged(table, w)
             next == Moved(seen[c], "paused", 1)
             p == <<Check(seen[c]), Save(next), AddCheckpoint(next.sequence)>>
  <1>1. /\ Run(c, p) /\ UNCHANGED <<table, mine, seen>>
        /\ phase[c] = "transcribing"
    BY DEF TranscriberUnavailable
  <1>2. Clean(v, w) /\ RowsAgree(v) /\ Waits(v, w, todo[c], phase[c], seen[c])
    BY <1>1, Known
  <1>3. Follows(next, v.checkpoints)
    BY <1>1, <1>2, MovedFollows DEF Waits, RowsAgree
  <1> HIDE DEF v, w, next
  <1>4. Left(v, w, p)
    BY <1>2, <1>3, ScheduledTwo
  <1>5. p # <<>>
    OBVIOUS
  <1> HIDE DEF p
  <1> QED
    BY <1>1, <1>4, <1>5, DecidingKeeps DEF v, w

LEMMA ConnectAgrees ==
    ASSUME IInv, Agreement, NEW c \in Connections, Connect(c)
    PROVE  Agreement' /\ Advances
  <1> DEFINE w == mine[c]
  <1>1. Becomes(c, w, todo[c], "idle", seen[c]) /\ UNCHANGED table /\ phase[c] = "off"
    BY DEF Connect, IInv, Shaped, Agreement, Becomes
  <1>2. Fits(table, w, todo[c], "idle", seen[c])
    BY <1>1, Known DEF Fits, Waits
  <1> HIDE DEF w
  <1> QED
    BY <1>1, <1>2, StepKeeps DEF w

LEMMA AwaitAgrees ==
    ASSUME IInv, Agreement, NEW c \in Connections, AudioChunk(c) \/ CompleteAnswer(c)
    PROVE  Agreement' /\ Advances
  <1> DEFINE w == mine[c]
             v == Merged(table, w)
  <1>1. PICK ph \in {"verifying", "transcribing"} :
           Await(c, ph) /\ (ph = "verifying" => Own(c) # {})
    BY DEF AudioChunk, CompleteAnswer
  <1>2. Becomes(c, w, todo[c], ph, Session(c)) /\ UNCHANGED table /\ phase[c] = "idle"
    BY <1>1 DEF Await, Fresh, IInv, Shaped, Agreement, Becomes
  <1>3. /\ Session(c).state = "awaiting_answer"
        /\ Clean(v, w) /\ Session(c) = v.session /\ todo[c] = <<>>
        /\ Written(w) /\ RowsAgree(v) /\ Left(v, w, todo[c])
    BY <1>1, <1>2, Known DEF Await
  <1>4. Waits(v, w, todo[c], ph, Session(c))
    BY <1>1, <1>3 DEF Waits, Clean, Marked, Own
  <1>5. Fits(table, w, todo[c], ph, Session(c))
    BY <1>3, <1>4 DEF Fits
  <1> HIDE DEF w
  <1> QED
    BY <1>2, <1>5, StepKeeps DEF w

LEMMA FiveSteps ==
    ASSUME NEW a, NEW b, NEW d, NEW e, NEW f
    PROVE  <<a, b>> \o <<d, e, f>> = <<a, b, d, e, f>>
  <1> DEFINE S == {a, b, d, e, f}
             p == <<a, b>>
             q == <<d, e, f>>
             r == <<a, b, d, e, f>>
  <1>1. p \in Seq(S) /\ q \in Seq(S) /\ r \in Seq(S)
    OBVIOUS
  <1>2. Len(p) = 2 /\ Len(q) = 3 /\ Len(r) = 5
    OBVIOUS
  <1>3. /\ p[1] = a /\ p[2] = b /\ q[1] = d /\ q[2] = e /\ q[3] = f
        /\ r[1] = a /\ r[2] = b /\ r[3] = d /\ r[4] = e /\ r[5] = f
    OBVIOUS
  <1> HIDE DEF S, p, q, r
  <1>4. /\ p \o q \in Seq(S) /\ Len(p \o q) = 5
        /\ \A i \in 1..5 : (p \o q)[i] = IF i <= 2 THEN p[i] ELSE q[i - 2]
    <2>1. /\ p \o q \in Seq(S) /\ Len(p \o q) = Len(p) + Len(q)
          /\ \A i \in 1..Len(p) + Len(q) :
                (p \o q)[i] = IF i <= Len(p) THEN p[i] ELSE q[i - Len(p)]
      BY <1>1, ConcatProperties
    <2>2. Len(p) + Len(q) = 5
      BY <1>2
    <2> QED
      BY <1>2, <2>1, <2>2
  <1>5. \A i \in 1..5 : (p \o q)[i] = r[i]
    BY <1>3, <1>4
  <1>6. p \o q = r
    BY <1>1, <1>2, <1>4, <1>5, SeqEqual
  <1> QED
    BY <1>6 DEF p, q, r

\* The answer is finalized, and the next question or the end is scheduled.
LEMMA VerifiedAgrees ==
    ASSUME IInv, Agreement, NEW c \in Connections, Verified(c)
    PROVE  Agreement' /\ Advances
  <1> DEFINE o == mine[c]
             v == Merged(table, o)
             O == Of(o.turns, "recording")
             turns == [j \in DOMAIN o.turns |-> IF j \in O THEN Final ELSE o.turns[j]]
             w == [o EXCEPT !.turns = turns]
             z == Merged(table, w)
             k == Finals(v.turns) + 2
             i == Cardinality(DOMAIN v.turns) + 1
             more == Finals(v.turns) + 1 < MaxQuestions
             next == Moved(seen[c], IF more THEN "awaiting_answer" ELSE "completed", 2)
             e == AddCheckpoint(next.sequence)
             rest == IF more
                     THEN <<Find("turns", Question(k)), AddTurn(i, Question(k)), e>>
                     ELSE <<e, Find("event", NoRow), AddEvent>>
             p == <<Check(seen[c]), Save(next)>> \o rest
  <1>1. /\ Turns(c) = v.turns /\ Written(o) /\ RowsAgree(v)
        /\ Waits(v, o, todo[c], phase[c], seen[c]) /\ phase[c] = "verifying" /\ Clean(v, o)
    BY Known DEF Verified
  <1>2. O # {} /\ O = Own(c)
    BY <1>1 DEF Waits, Own
  <1>3. Finals(v.turns) \in Nat
    BY <1>1, FinalsCounted DEF RowsAgree
  <1>4. FinalsWith(c) = Finals(v.turns) + 1
    BY <1>1 DEF FinalsWith, Finals
  <1>5. /\ UNCHANGED <<table, seen>>
        /\ mine' = [mine EXCEPT ![c] = w]
    BY <1>2 DEF Verified
  <1>6. Run(c, p)
    <2>1. FinalsWith(c) + 1 = k
      BY <1>3, <1>4
    <2> QED
      BY <1>1, <1>4, <2>1 DEF Verified
  <1>7. p # <<>>
    <2> DEFINE a == Check(seen[c])
               b == Save(next)
               f == Find("turns", Question(k))
               g == AddTurn(i, Question(k))
               h == Find("event", NoRow)
               m == AddEvent
    <2>1. CASE more
      <3>1. p = <<a, b>> \o <<f, g, e>>
        BY <2>1
      <3> HIDE DEF p, a, b, f, g, e
      <3>2. p = <<a, b, f, g, e>>
        BY <3>1, FiveSteps
      <3> QED
        BY <3>2
    <2>2. CASE ~more
      <3>1. p = <<a, b>> \o <<e, h, m>>
        BY <2>2
      <3> HIDE DEF p, a, b, h, m, e
      <3>2. p = <<a, b, e, h, m>>
        BY <3>1, FiveSteps
      <3> QED
        BY <3>2
    <2> QED
      BY <2>1, <2>2
  <1>8. Becomes(c, w, p, "writing", seen[c])
    <2>1. todo' = [todo EXCEPT ![c] = p] /\ phase' = [phase EXCEPT ![c] = "writing"]
      BY <1>6, <1>7 DEF Run
    <2> HIDE DEF p, w
    <2> QED
      BY <1>5, <2>1 DEF IInv, Shaped, Agreement, Becomes
  <1>9. /\ w.session = o.session /\ w.checkpoints = o.checkpoints /\ w.event = o.event
        /\ w.turns = turns /\ DOMAIN w = DOMAIN o
    BY <1>1 DEF Written, Tables
  <1>10. Written(w)
    BY <1>1, <1>9 DEF Written
  <1>11. /\ z.session = v.session /\ z.checkpoints = v.checkpoints /\ z.event = v.event
         /\ DOMAIN z.turns = DOMAIN v.turns
         /\ \A j \in DOMAIN v.turns : z.turns[j] = IF j \in O THEN Final ELSE v.turns[j]
         /\ O \subseteq Of(v.turns, "recording")
    <2> HIDE DEF o, w
    <2>1. /\ v.session = IF o.session = NoRow THEN table.session ELSE o.session
          /\ z.session = IF w.session = NoRow THEN table.session ELSE w.session
          /\ v.checkpoints = table.checkpoints \cup o.checkpoints
          /\ z.checkpoints = table.checkpoints \cup w.checkpoints
          /\ v.event = (table.event \/ o.event) /\ z.event = (table.event \/ w.event)
          /\ DOMAIN v.turns = DOMAIN table.turns \cup DOMAIN o.turns
          /\ DOMAIN z.turns = DOMAIN table.turns \cup DOMAIN w.turns
          /\ \A j \in DOMAIN o.turns : v.turns[j] = o.turns[j]
          /\ \A j \in DOMAIN w.turns : z.turns[j] = w.turns[j]
          /\ \A j \in DOMAIN table.turns \ DOMAIN o.turns : v.turns[j] = table.turns[j]
          /\ \A j \in DOMAIN table.turns \ DOMAIN w.turns : z.turns[j] = table.turns[j]
      BY MergedIs
    <2>2. /\ DOMAIN w.turns = DOMAIN o.turns
          /\ \A j \in DOMAIN o.turns : w.turns[j] = IF j \in O THEN Final ELSE o.turns[j]
          /\ O \subseteq DOMAIN o.turns
      BY <1>9 DEF Of
    <2> HIDE DEF v, z, w, turns
    <2>3. z.session = v.session /\ z.checkpoints = v.checkpoints /\ z.event = v.event
      BY <1>9, <2>1
    <2>4. DOMAIN z.turns = DOMAIN v.turns
      BY <2>1, <2>2
    <2>5. O \subseteq Of(v.turns, "recording")
      BY <2>1 DEF Of
    <2> HIDE DEF O
    <2>6. ASSUME NEW j \in DOMAIN v.turns PROVE z.turns[j] = IF j \in O THEN Final ELSE v.turns[j]
      BY <2>1, <2>2
    <2> QED
      BY <2>3, <2>4, <2>5, <2>6
  <1> HIDE DEF o, v, O, turns, w, z, i
  <1>12. /\ Whole(z.turns) /\ InStep(z.turns) /\ Finals(z.turns) >= Finals(v.turns) + 1
         /\ Finals(z.turns) \in Nat
    <2>1. Whole(z.turns) /\ InStep(z.turns) /\ Finals(z.turns) >= Finals(v.turns) + 1
      BY <1>1, <1>2, <1>11, FinalizedTurns DEF RowsAgree
    <2> QED
      BY <2>1, FinalsCounted
  <1>13. RowsAgree(z)
    BY <1>1, <1>3, <1>11, <1>12, MaxQuestionsAssumption DEF RowsAgree
  <1>14. Clean(z, w)
    BY <1>1, <1>9, <1>11 DEF Clean
  <1>15. Follows(next, z.checkpoints)
    BY <1>1, <1>11, MovedFollows DEF Waits, RowsAgree
  <1>16. Left(z, w, p)
    <2>1. CASE more
      <3>1. i \in Nat /\ FreshPlace(z, w, i)
        <4>1. DOMAIN w.turns \subseteq DOMAIN z.turns
          BY MergedIs DEF z
        <4>2. i = Cardinality(DOMAIN z.turns) + 1
          BY <1>11 DEF i
        <4> QED
          BY <1>12, <4>1, <4>2, NextPlace
      <3>2. k \in Nat /\ Asks(z, w, i, k)
        BY <1>3, <1>12, <3>1 DEF Asks
      <3>3. Unasked(z, w, k)
        <4>1. DOMAIN w.turns # {}
          BY <1>2, <1>9 DEF O, Of, turns
        <4>2. ASSUME NEW j \in DOMAIN z.turns, z.turns[j] = Question(k) PROVE FALSE
          <5>1. v.turns[j] = Question(k)
            BY <1>11, <4>2 DEF Question, Final
          <5>2. k <= Finals(v.turns) + 1
            BY <1>1, <1>11, <5>1 DEF RowsAgree, InStep, Question
          <5> QED
            BY <1>3, <5>2
        <4> QED
          BY <4>1, <4>2 DEF Unasked
      <3> DEFINE f == Find("turns", Question(k))
                 g == AddTurn(i, Question(k))
      <3>4. After(z, w, next, <<f, g, e>>)
        BY <1>15, <3>1, <3>2, <3>3 DEF After
      <3>5. p = <<Check(seen[c]), Save(next), f, g, e>>
        <4> DEFINE a == Check(seen[c])
                   b == Save(next)
        <4>1. p = <<a, b>> \o <<f, g, e>>
          BY <2>1
        <4> HIDE DEF a, b, f, g, e, p
        <4>2. p = <<a, b, f, g, e>>
          BY <4>1, FiveSteps
        <4> QED
          BY <4>2 DEF a, b
      <3> HIDE DEF next, f, g, e, p
      <3> QED
        BY <1>14, <1>15, <3>4, <3>5, ScheduledFive
    <2>2. CASE ~more
      <3>1. Finals(z.turns) >= MaxQuestions
        BY <1>3, <1>12, <2>2, MaxQuestionsAssumption
      <3> DEFINE f == Find("event", NoRow)
                 g == AddEvent
      <3>2. After(z, w, next, <<e, f, g>>)
        BY <1>15, <3>1 DEF After
      <3>3. p = <<Check(seen[c]), Save(next), e, f, g>>
        <4> DEFINE a == Check(seen[c])
                   b == Save(next)
        <4>1. p = <<a, b>> \o <<e, f, g>>
          BY <2>2
        <4> HIDE DEF a, b, f, g, e, p
        <4>2. p = <<a, b, e, f, g>>
          BY <4>1, FiveSteps
        <4> QED
          BY <4>2 DEF a, b
      <3> HIDE DEF next, f, g, e, p
      <3> QED
        BY <1>14, <1>15, <3>2, <3>3, ScheduledFive
    <2> QED
      BY <2>1, <2>2
  <1>17. Waits(z, w, p, "writing", seen[c])
    BY <1>1, <1>7 DEF Waits
  <1>18. Fits(table, w, p, "writing", seen[c])
    BY <1>10, <1>13, <1>16, <1>17 DEF Fits, z
  <1>19. \A n \in w.checkpoints : n \in mine[c].checkpoints
    BY <1>9 DEF o
  <1> HIDE DEF p
  <1> QED
    BY <1>5, <1>8, <1>18, <1>19, StepKeeps

-----------------------------------------------------------------------------
(* The statements *)

LEMMA LastOne ==
    ASSUME NEW p, Program(p), p # <<>>
    PROVE  Len(p) = 1 <=> Tail(p) = <<>>
  <1>1. PICK S : p \in Seq(S)
    BY DEF Program
  <1>2. Tail(p) \in Seq(S) /\ Len(Tail(p)) = Len(p) - 1 /\ Len(p) \in Nat
    BY <1>1, HeadTailProperties, LenProperties
  <1> QED
    BY SMTT(20), <1>2, EmptySeq

\* A statement has run, and what is left goes on from there.
LEMMA ProceedAgrees ==
    ASSUME IInv, Agreement, NEW c \in Connections, todo[c] # <<>>, NEW w, Proceed(c, w),
           Written(w), RowsAgree(Merged(table, w)), Left(Merged(table, w), w, Tail(todo[c])),
           \A n \in w.checkpoints :
              \/ n \in mine[c].checkpoints
              \/ n \notin table.checkpoints /\ \A d \in Connections \ {c} : n \notin mine[d].checkpoints
    PROVE  Agreement' /\ Advances
  <1> DEFINE p == Tail(todo[c])
             v == Merged(table, w)
  <1>1. Len(todo[c]) = 1 <=> p = <<>>
    BY LastOne DEF IInv, Shaped
  <1>2. phase[c] = "writing" /\ seen[c] \in Row \cup {NoRow}
    BY Known DEF Waits
  <1>3. PICK ph, sn : /\ Becomes(c, w, p, ph, sn) /\ UNCHANGED table
                      /\ ph = IF p = <<>> THEN "idle" ELSE "writing"
                      /\ sn \in Row \cup {NoRow}
    <2>1. CASE Len(todo[c]) = 1
      <3>1. Becomes(c, w, p, "idle", NoRow) /\ UNCHANGED table
        BY <2>1 DEF Proceed, IInv, Shaped, Agreement, Becomes
      <3> QED
        BY <1>1, <2>1, <3>1
    <2>2. CASE Len(todo[c]) # 1
      <3>1. Becomes(c, w, p, "writing", seen[c]) /\ UNCHANGED table
        BY <1>2, <2>2 DEF Proceed, IInv, Shaped, Agreement, Becomes
      <3> QED
        BY <1>1, <1>2, <2>2, <3>1
    <2> QED
      BY <2>1, <2>2
  <1> HIDE DEF p, v
  <1>4. Waits(v, w, p, ph, sn)
    BY <1>3 DEF Waits
  <1>5. Fits(table, w, p, ph, sn)
    BY <1>4 DEF Fits, p, v
  <1> QED
    BY <1>3, <1>5, StepKeeps

\* The row is saved; its checkpoint is still to come.
LEMMA SavedFits ==
    ASSUME NEW t, NEW w, Written(w), RowsAgree(Merged(t, w)),
           NEW s, s.on = "session", s.value \in Row, NEW q, After(Merged(t, w), w, s.value, q)
    PROVE  LET u == Writes(w, s)
               z == Merged(t, u)
           IN  /\ Written(u) /\ RowsAgree(z) /\ Left(z, u, q)
               /\ u.checkpoints = w.checkpoints
  <1> DEFINE v == Merged(t, w)
             u == Writes(w, s)
             z == Merged(t, u)
  <1>2. /\ DOMAIN u = DOMAIN w /\ u.session = s.value /\ u.checkpoints = w.checkpoints
        /\ u.event = w.event /\ u.turns = w.turns
    BY DEF Writes, Written, Tables
  <1>3. /\ z.checkpoints = v.checkpoints /\ z.event = v.event /\ z.turns = v.turns
    <2>1. v.event \in BOOLEAN
      BY DEF RowsAgree
    <2> HIDE DEF u
    <2>2. /\ z.turns = v.turns /\ z.checkpoints = t.checkpoints \cup u.checkpoints
          /\ v.checkpoints = t.checkpoints \cup w.checkpoints
          /\ z.event = (t.event \/ u.event) /\ v.event = (t.event \/ w.event)
      BY <1>2 DEF Merged
    <2> HIDE DEF v, z
    <2> QED
      BY <1>2, <2>1, <2>2
  <1>4. RowsAgree(v) /\ After(v, w, s.value, q)
    OBVIOUS
  <1> HIDE DEF u, v, z
  <1>5. Written(u)
    BY <1>2 DEF Written
  <1>6. RowsAgree(z)
    BY <1>3, <1>4 DEF RowsAgree
  <1>7. After(z, u, u.session, q)
    BY <1>2, <1>3, <1>4 DEF After, Asks, FreshPlace, Unasked
  <1>8. Left(z, u, q)
    BY <1>7 DEF Left
  <1> QED
    BY <1>2, <1>5, <1>6, <1>8 DEF u, z

\* A turn is inserted in a place that was free.
LEMMA InsertedFits ==
    ASSUME NEW t, NEW w, Written(w), RowsAgree(Merged(t, w)),
           NEW s, s.on = "turns", s.key \in Nat, s.value \in Turn,
           FreshPlace(Merged(t, w), w, s.key), s.key \notin DOMAIN t.turns,
           s.value.kind = "question" => s.value.number <= Finals(Merged(t, w).turns) + 1
    PROVE  LET v == Merged(t, w)
               u == Writes(w, s)
               z == Merged(t, u)
           IN  /\ Written(u) /\ RowsAgree(z)
               /\ z.session = v.session /\ z.checkpoints = v.checkpoints
               /\ u.session = w.session /\ u.checkpoints = w.checkpoints
  <1> DEFINE v == Merged(t, w)
             u == Writes(w, s)
             z == Merged(t, u)
  <1>1. u = [w EXCEPT !.turns = Overlay(w.turns, [i \in {s.key} |-> s.value])]
    BY DEF Writes
  <1>2. /\ DOMAIN u = DOMAIN w /\ u.session = w.session /\ u.checkpoints = w.checkpoints
        /\ u.event = w.event
        /\ u.turns = Overlay(w.turns, [i \in {s.key} |-> s.value])
    BY <1>1 DEF Written, Tables
  <1>3. /\ DOMAIN u.turns = DOMAIN w.turns \cup {s.key} /\ u.turns[s.key] = s.value
        /\ \A j \in DOMAIN w.turns : j # s.key => u.turns[j] = w.turns[j]
    BY <1>2 DEF Overlay
  <1>4. s.key \notin DOMAIN w.turns
    BY DEF FreshPlace
  <1> HIDE DEF u
  <1>5. /\ z.session = v.session
        /\ z.checkpoints = t.checkpoints \cup u.checkpoints
        /\ v.checkpoints = t.checkpoints \cup w.checkpoints
        /\ z.event = (t.event \/ u.event) /\ v.event = (t.event \/ w.event)
    BY <1>2 DEF Merged
  <1>a. /\ s.key \notin DOMAIN v.turns /\ DOMAIN z.turns = DOMAIN v.turns \cup {s.key}
        /\ Keeps(v.turns, z.turns) /\ z.turns[s.key] = s.value
    BY <1>3, <1>4 DEF Merged, Overlay, Keeps
  <1>6. /\ RowsAgree(v) /\ FreshPlace(v, w, s.key)
        /\ s.value.kind = "question" => s.value.number <= Finals(v.turns) + 1
    OBVIOUS
  <1> HIDE DEF u, v, z
  <1>b. z.checkpoints = v.checkpoints /\ z.event = v.event
    BY <1>2, <1>5
  <1>7. Whole(z.turns) /\ InStep(z.turns) /\ Finals(v.turns) <= Finals(z.turns)
    BY <1>a, <1>6, AddedTurn DEF RowsAgree, FreshPlace
  <1>8. Finals(v.turns) \in Nat /\ Finals(z.turns) \in Nat
    BY <1>6, <1>7, FinalsCounted DEF RowsAgree
  <1>9. RowsAgree(z)
    BY <1>b, <1>6, <1>7, <1>8, MaxQuestionsAssumption DEF RowsAgree
  <1>10. Written(u)
    BY <1>2 DEF Written
  <1> QED
    BY <1>2, <1>5, <1>b, <1>9, <1>10 DEF u, v, z

\* The saved row gets its checkpoint.
LEMMA MarkedFits ==
    ASSUME NEW t, NEW w, Written(w), RowsAgree(Merged(t, w)),
           w.session \in Row, Follows(w.session, Merged(t, w).checkpoints),
           NEW s, s.on = "checkpoints", s.key = w.session.sequence
    PROVE  LET u == Writes(w, s)
               z == Merged(t, u)
           IN  /\ Written(u) /\ RowsAgree(z) /\ Clean(z, u)
               /\ z.turns = Merged(t, w).turns
               /\ u.checkpoints = w.checkpoints \cup {s.key}
  <1> DEFINE v == Merged(t, w)
             u == Writes(w, s)
             z == Merged(t, u)
  <1>2. /\ DOMAIN u = DOMAIN w /\ u.session = w.session
        /\ u.checkpoints = w.checkpoints \cup {s.key} /\ u.event = w.event
        /\ u.turns = w.turns
    BY DEF Writes, Written, Tables
  <1> HIDE DEF u
  <1>3. /\ z.session = v.session /\ z.turns = v.turns
        /\ z.checkpoints = t.checkpoints \cup u.checkpoints
        /\ v.checkpoints = t.checkpoints \cup w.checkpoints
        /\ z.event = (t.event \/ u.event) /\ v.event = (t.event \/ w.event)
    BY <1>2 DEF Merged
  <1>5. v.session = w.session
    <2>1. w.session # NoRow
      BY DEF Row, NoRow
    <2> QED
      BY <2>1, MergedIs
  <1>6. RowsAgree(v) /\ Follows(w.session, v.checkpoints)
    OBVIOUS
  <1> HIDE DEF u, v, z
  <1>4. z.checkpoints = v.checkpoints \cup {w.session.sequence} /\ z.event = v.event
    BY <1>2, <1>3
  <1>7. /\ z.checkpoints \subseteq Nat \ {0} /\ EvenClosed(z.checkpoints)
        /\ Marked(w.session, z.checkpoints)
    <2>1. v.checkpoints \subseteq Nat \ {0} /\ EvenClosed(v.checkpoints)
      BY <1>6 DEF RowsAgree
    <2> QED
      BY <1>4, <1>6, <2>1, MarkedNext
  <1>8. RowsAgree(z)
    BY <1>3, <1>4, <1>6, <1>7 DEF RowsAgree
  <1>9. Clean(z, u)
    BY <1>2, <1>3, <1>5, <1>7 DEF Clean
  <1>10. Written(u)
    BY <1>2 DEF Written
  <1> QED
    BY <1>2, <1>3, <1>8, <1>9, <1>10 DEF u, v, z

\* The event is inserted.
LEMMA AnnouncedFits ==
    ASSUME NEW t, NEW w, Written(w), RowsAgree(Merged(t, w)), Clean(Merged(t, w), w),
           Finals(Merged(t, w).turns) >= MaxQuestions, NEW s, s.on = "event"
    PROVE  LET u == Writes(w, s)
               z == Merged(t, u)
           IN  /\ Written(u) /\ RowsAgree(z) /\ Clean(z, u)
               /\ u.checkpoints = w.checkpoints
  <1> DEFINE v == Merged(t, w)
             u == Writes(w, s)
             z == Merged(t, u)
  <1>2. /\ DOMAIN u = DOMAIN w /\ u.session = w.session
        /\ u.checkpoints = w.checkpoints /\ u.event = TRUE
        /\ u.turns = w.turns
    BY DEF Writes, Written, Tables
  <1> HIDE DEF u
  <1>3. /\ z.session = v.session /\ z.turns = v.turns
        /\ z.checkpoints = t.checkpoints \cup u.checkpoints
        /\ v.checkpoints = t.checkpoints \cup w.checkpoints
        /\ z.event = (t.event \/ u.event)
    BY <1>2 DEF Merged
  <1>4. z.checkpoints = v.checkpoints /\ z.event \in BOOLEAN
    BY <1>2, <1>3
  <1>5. RowsAgree(v) /\ Clean(v, w) /\ Finals(v.turns) >= MaxQuestions
    OBVIOUS
  <1> HIDE DEF u, v, z
  <1>6. RowsAgree(z)
    BY <1>3, <1>4, <1>5 DEF RowsAgree
  <1>7. Clean(z, u)
    BY <1>2, <1>3, <1>5 DEF Clean
  <1>8. Written(u)
    BY <1>2 DEF Written
  <1> QED
    BY <1>2, <1>6, <1>7, <1>8 DEF u, z

\* The statement that a handler runs next, by what is left to run.
LEMMA NextStatement ==
    ASSUME NEW v, NEW w, NEW p, Left(v, w, p), p # <<>>
    PROVE  LET s == Head(p)
               q == Tail(p)
           IN  \/ /\ s.op = "insert" /\ s.on = "turns" /\ s.value = Recording /\ s.key \in Nat
                  /\ Clean(v, w) /\ FreshPlace(v, w, s.key) /\ q = <<>>
               \/ s.op = "check" /\ Clean(v, w) /\ Saving(v, w, q)
               \/ /\ s.op = "update" /\ s.on = "session" /\ s.value \in Row
                  /\ After(v, w, s.value, q)
               \/ /\ s.op = "insert" /\ s.on = "checkpoints" /\ s.key = w.session.sequence
                  /\ Follows(w.session, v.checkpoints)
                  /\ \/ q = <<>>
                     \/ q = <<Find("event", NoRow), AddEvent>> /\ Finals(v.turns) >= MaxQuestions
               \/ /\ s.op = "insert" /\ s.on = "turns" /\ Follows(w.session, v.checkpoints)
                  /\ \E k \in Nat : s.value = Question(k) /\ Asks(v, w, s.key, k)
                  /\ s.key \in Nat
                  /\ q = <<AddCheckpoint(w.session.sequence)>>
               \/ /\ s.op = "find" /\ s.on = "turns" /\ Unasked(v, w, s.value.number)
                  /\ s.value = Question(s.value.number)
                  /\ After(v, w, w.session, q)
               \/ /\ s.op = "find" /\ s.on = "event" /\ Clean(v, w)
                  /\ Finals(v.turns) >= MaxQuestions /\ q = <<AddEvent>>
               \/ /\ s.op = "insert" /\ s.on = "event" /\ Clean(v, w)
                  /\ Finals(v.turns) >= MaxQuestions /\ q = <<>>
  <1> DEFINE s == Head(p)
             q == Tail(p)
             f == Find("event", NoRow)
             g == AddEvent
             e == AddCheckpoint(w.session.sequence)
  <1>0. /\ f.op = "find" /\ f.on = "event" /\ g.op = "insert" /\ g.on = "event"
        /\ e.op = "insert" /\ e.on = "checkpoints" /\ e.key = w.session.sequence
    BY DEF Find, AddEvent, AddCheckpoint
  <1>1. ASSUME Clean(v, w), NEW i \in Nat, p = <<AddTurn(i, Recording)>>, FreshPlace(v, w, i)
        PROVE  /\ s.op = "insert" /\ s.on = "turns" /\ s.value = Recording /\ s.key \in Nat
               /\ FreshPlace(v, w, s.key) /\ q = <<>>
    <2> DEFINE a == AddTurn(i, Recording)
    <2>1. a.op = "insert" /\ a.on = "turns" /\ a.value = Recording /\ a.key = i
      BY DEF AddTurn
    <2>2. s = a /\ q = <<>>
      <3> HIDE DEF a
      <3> QED
        BY <1>1 DEF a
    <2> HIDE DEF a, s, q
    <2> QED
      BY <1>1, <2>1, <2>2
  <1>2. ASSUME Saving(v, w, p)
        PROVE  s.op = "update" /\ s.on = "session" /\ s.value \in Row /\ After(v, w, s.value, q)
    <2>1. PICK x \in Row : s = Save(x) /\ After(v, w, x, q)
      BY <1>2 DEF Saving
    <2>2. Save(x).op = "update" /\ Save(x).on = "session" /\ Save(x).value = x
      BY DEF Save
    <2> HIDE DEF s, q
    <2> QED
      BY <2>1, <2>2
  <1>3. ASSUME After(v, w, w.session, p), p = <<e>>
        PROVE  /\ s.op = "insert" /\ s.on = "checkpoints" /\ s.key = w.session.sequence
               /\ q = <<>>
    <2> HIDE DEF e
    <2>1. s = e /\ q = <<>>
      BY <1>3
    <2> QED
      BY <1>0, <2>1
  <1>4. ASSUME After(v, w, w.session, p), NEW i \in Nat, NEW k \in Nat, Asks(v, w, i, k),
               p = <<AddTurn(i, Question(k)), e>>
        PROVE  /\ s.op = "insert" /\ s.on = "turns" /\ s.value = Question(k) /\ Asks(v, w, s.key, k)
               /\ s.key \in Nat /\ q = <<e>>
    <2> DEFINE a == AddTurn(i, Question(k))
    <2>1. a.op = "insert" /\ a.on = "turns" /\ a.value = Question(k) /\ a.key = i
      BY DEF AddTurn
    <2> HIDE DEF a, e
    <2>2. s = a /\ q = <<e>>
      BY <1>4 DEF a
    <2> HIDE DEF s, q
    <2> QED
      BY <1>4, <2>1, <2>2
  <1>5. ASSUME After(v, w, w.session, p), NEW i \in Nat, NEW k \in Nat, Asks(v, w, i, k),
               Unasked(v, w, k), p = <<Find("turns", Question(k)), AddTurn(i, Question(k)), e>>
        PROVE  /\ s.op = "find" /\ s.on = "turns" /\ s.value = Question(s.value.number)
               /\ Unasked(v, w, s.value.number)
               /\ After(v, w, w.session, q)
    <2> DEFINE b == Find("turns", Question(k))
               a == AddTurn(i, Question(k))
    <2>1. b.op = "find" /\ b.on = "turns" /\ b.value = Question(k) /\ Question(k).number = k
      BY DEF Find, Question
    <2>2. After(v, w, w.session, <<a, e>>)
      BY <1>5 DEF After
    <2> HIDE DEF a, b, e
    <2>3. s = b /\ q = <<a, e>>
      BY <1>5 DEF a, b
    <2> HIDE DEF s, q
    <2> QED
      BY <1>5, <2>1, <2>2, <2>3
  <1>6. ASSUME After(v, w, w.session, p), p = <<e, f, g>>
        PROVE  /\ s.op = "insert" /\ s.on = "checkpoints" /\ s.key = w.session.sequence
               /\ q = <<f, g>>
    <2> HIDE DEF e, f, g
    <2>1. s = e /\ q = <<f, g>>
      BY <1>6
    <2> QED
      BY <1>0, <2>1
  <1>7. ASSUME p = <<f, g>> PROVE s.op = "find" /\ s.on = "event" /\ q = <<g>>
    <2> HIDE DEF f, g
    <2>1. s = f /\ q = <<g>>
      BY <1>7
    <2> QED
      BY <1>0, <2>1
  <1>8. ASSUME p = <<g>> PROVE s.op = "insert" /\ s.on = "event" /\ q = <<>>
    <2> HIDE DEF f, g
    <2>1. s = g /\ q = <<>>
      BY <1>8
    <2> QED
      BY <1>0, <2>1
  <1>9. CASE After(v, w, w.session, p)
    <2>1. Follows(w.session, v.checkpoints)
      BY <1>9 DEF After
    <2>2. \/ p = <<e>>
          \/ \E i, k \in Nat : Asks(v, w, i, k) /\ p = <<AddTurn(i, Question(k)), e>>
          \/ \E i, k \in Nat :
                /\ Asks(v, w, i, k) /\ Unasked(v, w, k)
                /\ p = <<Find("turns", Question(k)), AddTurn(i, Question(k)), e>>
          \/ p = <<e, f, g>> /\ Finals(v.turns) >= MaxQuestions
      BY <1>9 DEF After
    <2> HIDE DEF s, q, e, f, g
    <2>3. CASE p = <<e>>
      BY <1>3, <1>9, <2>1, <2>3 DEF s, q
    <2>4. CASE \E i, k \in Nat : Asks(v, w, i, k) /\ p = <<AddTurn(i, Question(k)), e>>
      BY <1>4, <1>9, <2>1, <2>4 DEF s, q, e
    <2>5. CASE \E i, k \in Nat :
                /\ Asks(v, w, i, k) /\ Unasked(v, w, k)
                /\ p = <<Find("turns", Question(k)), AddTurn(i, Question(k)), e>>
      BY <1>5, <1>9, <2>5 DEF s, q
    <2>6. CASE p = <<e, f, g>> /\ Finals(v.turns) >= MaxQuestions
      BY <1>6, <1>9, <2>1, <2>6 DEF s, q, f, g
    <2> QED
      BY <2>2, <2>3, <2>4, <2>5, <2>6
  <1>10. CASE ~After(v, w, w.session, p)
    <2> HIDE DEF s, q, f, g
    <2>1. \/ Clean(v, w) /\ \E i \in Nat : p = <<AddTurn(i, Recording)>> /\ FreshPlace(v, w, i)
          \/ Clean(v, w) /\ s.op = "check" /\ Saving(v, w, q)
          \/ Clean(v, w) /\ Saving(v, w, p)
          \/ /\ Clean(v, w) /\ Finals(v.turns) >= MaxQuestions
             /\ p = <<f, g>> \/ p = <<g>>
      BY <1>10 DEF Left, s, q, f, g
    <2> QED
      BY <1>1, <1>2, <1>7, <1>8, <2>1 DEF s, q, g
  <1> QED
    BY <1>9, <1>10

LEMMA WriteAgrees ==
    ASSUME IInv, IInv', Agreement, NEW c \in Connections, Write(c)
    PROVE  Agreement' /\ Advances
  <1>1. CASE Abort(c)
    BY <1>1, EndingKeeps
  <1>2. CASE ~Abort(c)
    <2> DEFINE p == todo[c]
               s == Head(p)
               q == Tail(p)
               w == mine[c]
               u == Writes(w, s)
               v == Merged(table, w)
               z == Merged(table, u)
    <2>1. /\ p # <<>> /\ Proceed(c, u)
          /\ s.op \in {"update", "insert"} /\ ~Blocked(c)
          /\ s.op = "insert" => ~Taken(s)
      BY <1>2 DEF Write
    <2>2. Written(w) /\ RowsAgree(v) /\ Left(v, w, p)
      BY Known
    <2>3. \A d \in Connections \ {c} : ~Holds(d, s)
      BY <2>1 DEF Blocked, WaitsFor
    <2>4. /\ s.op = "insert" /\ s.on = "turns" => s.key \notin DOMAIN table.turns
          /\ s.op = "insert" /\ s.on = "checkpoints" =>
                /\ s.key \notin table.checkpoints
                /\ \A d \in Connections \ {c} : s.key \notin mine[d].checkpoints
      BY <2>1, <2>3 DEF Taken, Holds
    <2> DEFINE Agrees == /\ Written(u) /\ RowsAgree(z) /\ Left(z, u, q)
                         /\ \/ u.checkpoints = w.checkpoints
                            \/ /\ u.checkpoints = w.checkpoints \cup {s.key}
                               /\ s.op = "insert" /\ s.on = "checkpoints"
    <2>5. ASSUME Agrees PROVE Agreement' /\ Advances
      <3>1. \A n \in u.checkpoints :
              \/ n \in mine[c].checkpoints
              \/ n \notin table.checkpoints /\ \A d \in Connections \ {c} : n \notin mine[d].checkpoints
        BY <2>4, <2>5
      <3>2. Left(Merged(table, u), u, Tail(todo[c])) /\ Written(u) /\ RowsAgree(Merged(table, u))
        BY <2>5
      <3> HIDE DEF u
      <3> QED
        BY <2>1, <3>1, <3>2, ProceedAgrees
    <2> HIDE DEF p, s, q, w, v
    <2>6. CASE /\ s.op = "insert" /\ s.on = "turns" /\ s.value = Recording /\ s.key \in Nat
               /\ Clean(v, w) /\ FreshPlace(v, w, s.key) /\ q = <<>>
      <3>1. s.value \in Turn /\ s.value.kind # "question"
        BY <2>6 DEF Recording, Turn
      <3>2. /\ Written(u) /\ RowsAgree(z)
            /\ z.session = v.session /\ z.checkpoints = v.checkpoints
            /\ u.session = w.session /\ u.checkpoints = w.checkpoints
        BY <2>2, <2>4, <2>6, <3>1, InsertedFits DEF v
      <3> HIDE DEF u, z
      <3>3. Clean(z, u)
        BY <2>6, <3>2 DEF Clean
      <3>4. Left(z, u, q)
        BY <2>6, <3>3 DEF Left
      <3> QED
        BY <2>5, <3>2, <3>4 DEF u, z
    <2>7. CASE /\ s.op = "update" /\ s.on = "session" /\ s.value \in Row
               /\ After(v, w, s.value, q)
      <3>1. Written(u) /\ RowsAgree(z) /\ Left(z, u, q) /\ u.checkpoints = w.checkpoints
        BY <2>2, <2>7, SavedFits DEF v
      <3> QED
        BY <2>5, <3>1
    <2>8. CASE /\ s.op = "insert" /\ s.on = "checkpoints" /\ s.key = w.session.sequence
               /\ Follows(w.session, v.checkpoints)
               /\ \/ q = <<>>
                  \/ q = <<Find("event", NoRow), AddEvent>> /\ Finals(v.turns) >= MaxQuestions
      <3>1. w.session \in Row
        BY <2>8 DEF Follows
      <3>2. /\ Written(u) /\ RowsAgree(z) /\ Clean(z, u) /\ z.turns = v.turns
            /\ u.checkpoints = w.checkpoints \cup {s.key}
        BY <2>2, <2>8, <3>1, MarkedFits DEF v
      <3> HIDE DEF u, z
      <3>3. Left(z, u, q)
        BY <2>8, <3>2 DEF Left
      <3> QED
        BY <2>5, <2>8, <3>2, <3>3 DEF u, z
    <2>9. CASE /\ s.op = "insert" /\ s.on = "turns" /\ Follows(w.session, v.checkpoints)
               /\ \E k \in Nat : s.value = Question(k) /\ Asks(v, w, s.key, k)
               /\ s.key \in Nat
               /\ q = <<AddCheckpoint(w.session.sequence)>>
      <3>1. PICK k \in Nat : s.value = Question(k) /\ Asks(v, w, s.key, k)
        BY <2>9
      <3>2. /\ s.value \in Turn /\ s.value.number <= Finals(v.turns) + 1
            /\ FreshPlace(v, w, s.key)
        BY <3>1 DEF Question, Turn, Asks
      <3>3. /\ Written(u) /\ RowsAgree(z)
            /\ z.session = v.session /\ z.checkpoints = v.checkpoints
            /\ u.session = w.session /\ u.checkpoints = w.checkpoints
        BY <2>2, <2>4, <2>9, <3>2, InsertedFits DEF v
      <3> HIDE DEF u, z
      <3>4. After(z, u, u.session, q)
        BY <2>9, <3>3 DEF After
      <3>5. Left(z, u, q)
        BY <3>4 DEF Left
      <3> QED
        BY <2>5, <3>3, <3>5 DEF u, z
    <2>10. CASE /\ s.op = "insert" /\ s.on = "event" /\ Clean(v, w)
                /\ Finals(v.turns) >= MaxQuestions /\ q = <<>>
      <3>1. Written(u) /\ RowsAgree(z) /\ Clean(z, u) /\ u.checkpoints = w.checkpoints
        BY <2>2, <2>10, AnnouncedFits DEF v
      <3> HIDE DEF u, z
      <3>2. Left(z, u, q)
        BY <2>10, <3>1 DEF Left
      <3> QED
        BY <2>5, <3>1, <3>2 DEF u, z
    <2> HIDE DEF u, z, Agrees
    <2>11. Agreement' /\ Advances
      BY <2>1, <2>2, <2>6, <2>7, <2>8, <2>9, <2>10, NextStatement DEF s, q
    <2> QED
      BY <2>11
  <1> QED
    BY <1>1, <1>2

\* Looking finds the row as it was read, or ends the connection; the next question is
\* never there already.
LEMMA LookAgrees ==
    ASSUME IInv, IInv', Agreement, NEW c \in Connections, CompareVersion(c) \/ FindKey(c)
    PROVE  Agreement' /\ Advances
  <1> DEFINE p == todo[c]
             s == Head(p)
             q == Tail(p)
             w == mine[c]
             v == Merged(table, w)
  <1>1. p # <<>> /\ s.op \in {"check", "find"}
    BY DEF CompareVersion, FindKey
  <1>2. Written(w) /\ RowsAgree(v) /\ Left(v, w, p) /\ Turns(c) = v.turns
    BY Known
  <1>3. CommitAndLeave(c, w) \/ Proceed(c, w)
    BY DEF CompareVersion, FindKey
  <1>4. ASSUME Proceed(c, w), Left(v, w, q) PROVE Agreement' /\ Advances
    <2> HIDE DEF w
    <2>1. \A n \in w.checkpoints : n \in mine[c].checkpoints
      BY DEF w
    <2> QED
      BY <1>1, <1>2, <1>4, <2>1, ProceedAgrees
  <1> HIDE DEF p, s, q, v
  <1>5. CASE s.op = "check" /\ Clean(v, w) /\ Saving(v, w, q)
    <2>1. Left(v, w, q)
      BY <1>5 DEF Left
    <2> QED
      BY <1>3, <1>4, <1>5, <2>1, EndingKeeps DEF v
  <1>6. CASE /\ s.op = "find" /\ s.on = "turns" /\ Unasked(v, w, s.value.number)
             /\ s.value = Question(s.value.number)
             /\ After(v, w, w.session, q)
    <2>1. ~Found(c, s)
      BY <1>2, <1>6 DEF Found, Unasked
    <2>2. Proceed(c, w)
      BY <1>1, <1>6, <2>1 DEF CompareVersion, FindKey, p, s
    <2>3. Left(v, w, q)
      BY <1>6 DEF Left
    <2> QED
      BY <1>4, <2>2, <2>3
  <1>7. CASE /\ s.op = "find" /\ s.on = "event" /\ Clean(v, w)
             /\ Finals(v.turns) >= MaxQuestions /\ q = <<AddEvent>>
    <2>1. Left(v, w, q)
      BY <1>7 DEF Left
    <2> QED
      BY <1>3, <1>4, <1>7, <2>1, EndingKeeps DEF v
  <1> HIDE DEF w
  <1>8. Agreement' /\ Advances
    BY <1>1, <1>2, <1>5, <1>6, <1>7, NextStatement DEF s, q
  <1> QED
    BY <1>8

-----------------------------------------------------------------------------
(* The second invariant and its theorems *)

LEMMA InitAgrees == Init => Agreement
  <1> SUFFICES ASSUME Init PROVE Agreement
    OBVIOUS
  <1>1. /\ table = NewTable /\ mine = [c \in Connections |-> NoWrites]
        /\ phase = [c \in Connections |-> "off"] /\ seen = [c \in Connections |-> NoRow]
        /\ todo = [c \in Connections |-> <<>>]
    BY DEF Init
  <1>2. Sound(table)
    <2>1. /\ table.session = [state |-> "preparing", sequence |-> 0] /\ table.turns = <<>>
          /\ table.checkpoints = {} /\ table.event = FALSE
      BY <1>1 DEF NewTable
    <2>2. DOMAIN table.turns = 1..0
      BY <2>1
    <2>3. Whole(table.turns) /\ InStep(table.turns)
      BY <2>2 DEF Whole, InStep
    <2>4. EvenClosed({})
      BY DEF EvenClosed
    <2>5. RowsAgree(table)
      BY <2>1, <2>3, <2>4 DEF RowsAgree
    <2>6. /\ table.session \in Row /\ table.session.state = "preparing"
          /\ table.session.sequence = 0
      BY <2>1 DEF Row
    <2>7. Marked(table.session, table.checkpoints)
      BY <2>6 DEF Marked
    <2> QED
      BY <2>5, <2>7 DEF Sound
  <1>3. \A c \in Connections : Fits(table, mine[c], todo[c], phase[c], seen[c])
    BY <1>1, <1>2, NothingFits
  <1>4. PointsAreOwn
    BY <1>1, NothingIs DEF PointsAreOwn
  <1> QED
    BY <1>1, <1>2, <1>3, <1>4 DEF Agreement

LEMMA NextAgrees == IInv /\ IInv' /\ Agreement /\ [Next]_vars => Agreement' /\ Advances
  <1> SUFFICES ASSUME IInv, IInv', Agreement, [Next]_vars PROVE Agreement' /\ Advances
    OBVIOUS
  <1>1. CASE UNCHANGED vars
    <2>1. /\ table' = table /\ mine' = mine /\ todo' = todo /\ phase' = phase /\ seen' = seen
      BY <1>1 DEF vars
    <2>2. Agreement'
      BY <2>1 DEF Agreement, PointsAreOwn
    <2> QED
      BY <2>1, <2>2, StayingAdvances DEF Agreement
  <1>2. ASSUME NEW c \in Connections, Disconnect(c) PROVE Agreement' /\ Advances
    <2>1. Clean(Merged(table, mine[c]), mine[c]) /\ CommitAndLeave(c, mine[c])
      BY <1>2, Known DEF Disconnect
    <2> QED
      BY <2>1, EndingKeeps
  <1>3. ASSUME NEW c \in Connections, DeadlockVictim(c) PROVE Agreement' /\ Advances
    BY <1>3, EndingKeeps DEF DeadlockVictim
  <1> QED
    BY <1>1, <1>2, <1>3, ConnectAgrees, StartAgrees, ResumeAgrees, SubmitAgrees, AwaitAgrees,
       UnavailableAgrees, VerifiedAgrees, LookAgrees, WriteAgrees DEF Next

LEMMA AgreementHolds == Spec => []Agreement
  BY InitHolds, NextKeeps, InitAgrees, NextAgrees, PTL DEF Spec

LEMMA AgreementTypes == Agreement => TypeOK /\ CommittedRowsAgree
  <1> SUFFICES ASSUME Agreement PROVE TypeOK /\ CommittedRowsAgree
    OBVIOUS
  <1>1. Sound(table)
    BY DEF Agreement
  <1>2. PICK n \in Nat : DOMAIN table.turns = 1..n
    BY <1>1 DEF Sound, RowsAgree, Whole
  <1>3. DOMAIN table.turns = 1..Cardinality(DOMAIN table.turns)
    BY <1>2, FS_Interval
  <1>4. /\ table.session \in Row /\ table.event \in BOOLEAN
        /\ \A i \in DOMAIN table.turns : table.turns[i] \in Turn
    BY <1>1 DEF Sound, RowsAgree, Marked, Whole
  <1>5. ASSUME NEW c \in Connections
        PROVE  /\ mine[c].session \in Row \cup {NoRow}
               /\ phase[c] \in {"off", "idle", "verifying", "transcribing", "writing"}
               /\ seen[c] \in Row \cup {NoRow}
               /\ phase[c] = "writing" <=> todo[c] # <<>>
    BY DEF Agreement, Fits, Waits, Written
  <1>6. CommittedRowsAgree
    BY <1>1, <1>4 DEF Sound, RowsAgree, Marked, Row, Finals, CommittedRowsAgree
  <1> QED
    BY <1>3, <1>4, <1>5, <1>6 DEF TypeOK

\* The committed transcript has no gap, and only a handler inside its statements has any
\* left to run (persistence.add_turn, interview_engine/api/runtime.py).
THEOREM TypeCorrect == Spec => []TypeOK
  BY AgreementHolds, AgreementTypes, PTL

\* Wherever handlers stop and transactions are rolled back, the committed session has a
\* checkpoint of its own sequence, and interview.completed is announced only behind
\* max_questions final answers (interview_engine/api/runtime.py).
THEOREM RowsAlwaysAgree == Spec => []CommittedRowsAgree
  BY AgreementHolds, AgreementTypes, PTL

\* Although save_session compares a version that it read and updates by primary key, a
\* session that waits for an answer never goes back: the unique key of its checkpoint
\* (persistence.add_checkpoint) ends the transaction that would put it back.
THEOREM AwaitingAdvances == Spec => AwaitingNeverFallsBack
  <1>1. IInv /\ IInv' /\ Agreement /\ [Next]_vars =>
            [table'.session.state = "awaiting_answer" =>
                table'.session.sequence >= table.session.sequence]_table
    BY NextAgrees DEF Advances
  <1> QED
    BY <1>1, Inductive, AgreementHolds, PTL DEF Spec, AwaitingNeverFallsBack

=============================================================================
