-------------------------- MODULE StreamConnections --------------------------
(***************************************************************************)
(* Several WebSocket connections of the same interview session, each in    *)
(* its own long transaction (one per connection, READ COMMITTED), spread    *)
(* over the API processes.  A dropped network makes this ordinary: the      *)
(* client reconnects before the server notices that the old socket is dead. *)
(*                                                                         *)
(* A handler reads the session row, may wait (for the object store, for the *)
(* transcriber), and then writes row by row.  save_session compares the row *)
(* version it SELECTs and afterwards UPDATEs by primary key: the comparison *)
(* and the write are two steps, and the write waits for whoever holds the   *)
(* row.  row_version is sequence + 1 throughout and is not kept separately. *)
(*                                                                         *)
(* Statements are synchronous calls on the event loop: while one waits for  *)
(* a row lock, nothing else runs in that process.                           *)
(***************************************************************************)
EXTENDS Integers, Sequences, FiniteSets, FiniteSetsExt

CONSTANTS
    Connections,    \* connection slots of this session
    Processes,      \* API processes
    Home,           \* the process each connection is accepted by
    MaxQuestions,   \* the handler's max_questions
    MaxPauseAt,     \* bound: the session may pause only up to this sequence
    MaxTurns        \* bound: answers are begun only in a transcript shorter than this

ASSUME HomeAssumption == Home \in [Connections -> Processes]
ASSUME MaxQuestionsAssumption == MaxQuestions \in Nat \ {0}
ASSUME BoundsAssumption == MaxPauseAt \in Nat /\ MaxTurns \in Nat

VARIABLES
    table,   \* the committed rows
    mine,    \* per connection, the rows its transaction wrote
    phase,   \* per connection: off, idle, verifying, transcribing or writing
    seen,    \* per connection, the session row its handler read first
    todo,    \* per connection, the statements its handler has still to run
    heard    \* per connection, the sequence its client last heard

vars == <<table, mine, phase, seen, todo, heard>>

-----------------------------------------------------------------------------
Row == [state : {"preparing", "awaiting_answer", "paused", "completed"}, sequence : Nat]

Turn == [kind : {"question", "recording", "final"}, number : Nat]

Question(n) == [kind |-> "question", number |-> n]
Recording   == [kind |-> "recording", number |-> 0]
Final       == [kind |-> "final", number |-> 0]

NoRow == [state |-> "none", sequence |-> 0]

NoWrites == [session |-> NoRow, turns |-> <<>>, checkpoints |-> {}, event |-> FALSE]

NewTable ==
    [session |-> [state |-> "preparing", sequence |-> 0],
     turns |-> <<>>, checkpoints |-> {}, event |-> FALSE]

\* What a statement of c sees: what is committed now, and its own writes.
Overlay(under, over) ==
    [i \in DOMAIN under \cup DOMAIN over |-> IF i \in DOMAIN over THEN over[i] ELSE under[i]]

Session(c) == IF mine[c].session = NoRow THEN table.session ELSE mine[c].session

Turns(c) == Overlay(table.turns, mine[c].turns)

Of(turns, kind) == {i \in DOMAIN turns : turns[i].kind = kind}

\* The answer turn c's client made on this connection and has not completed.
Own(c) == Of(mine[c].turns, "recording")

-----------------------------------------------------------------------------
(* Statements.  A row a transaction wrote is locked until the transaction  *)
(* ends, and so is the unique key of a row it inserted.                    *)

Check(row)       == [op |-> "check", on |-> "session", key |-> 0, value |-> row]
Save(row)        == [op |-> "update", on |-> "session", key |-> 0, value |-> row]
AddTurn(i, turn) == [op |-> "insert", on |-> "turns", key |-> i, value |-> turn]

\* Takes the sequence the row had before the transition.
MutantAddCheckpoint(n) ==
    [op |-> "insert", on |-> "checkpoints", key |-> n - 1, value |-> NoRow]

AddCheckpoint(n) == [op |-> "insert", on |-> "checkpoints", key |-> n, value |-> NoRow]
Find(on, value)  == [op |-> "find", on |-> on, key |-> 0, value |-> value]
AddEvent         == [op |-> "insert", on |-> "event", key |-> 0, value |-> NoRow]

Holds(d, s) ==
    CASE s.on = "session"     -> mine[d].session # NoRow
      [] s.on = "turns"       -> s.key \in DOMAIN mine[d].turns
      [] s.on = "checkpoints" -> s.key \in mine[d].checkpoints
      [] s.on = "event"       -> mine[d].event

\* Does not look at the checkpoints, as if their key were not unique.
MutantTaken(s) == s.on = "turns" /\ s.key \in DOMAIN table.turns

\* Does not look at the turns, as if a place could be taken twice.
MutantTakenPlace(s) == s.on = "checkpoints" /\ s.key \in table.checkpoints

\* Would the insert break a unique constraint?
Taken(s) ==
    CASE s.on = "turns"       -> s.key \in DOMAIN table.turns
      [] s.on = "checkpoints" -> s.key \in table.checkpoints
      [] s.on = "event"       -> table.event
      [] OTHER                -> FALSE

WaitsFor(c, d) ==
    /\ c # d
    /\ todo[c] # <<>>
    /\ Head(todo[c]).op \in {"update", "insert"}
    /\ Holds(d, Head(todo[c]))

Blocked(c) == \E d \in Connections : WaitsFor(c, d)

\* c's coroutine can run: no other coroutine of its process is inside its
\* statements, where it does not yield.
Runs(c) ==
    \A d \in Connections \ {c} : Home[d] = Home[c] => phase[d] # "writing"

-----------------------------------------------------------------------------
(* Ends of a connection *)

\* Leaves the transaction open behind the connection.
MutantLeave(c) ==
    /\ phase' = [phase EXCEPT ![c] = "off"]
    /\ todo' = [todo EXCEPT ![c] = <<>>]
    /\ seen' = [seen EXCEPT ![c] = NoRow]
    /\ heard' = [heard EXCEPT ![c] = 0]
    /\ UNCHANGED mine

Leave(c) ==
    /\ mine' = [mine EXCEPT ![c] = NoWrites]
    /\ phase' = [phase EXCEPT ![c] = "off"]
    /\ todo' = [todo EXCEPT ![c] = <<>>]
    /\ seen' = [seen EXCEPT ![c] = NoRow]
    /\ heard' = [heard EXCEPT ![c] = 0]

Merged(under, over) ==
    [session     |-> IF over.session = NoRow THEN under.session ELSE over.session,
     turns       |-> Overlay(under.turns, over.turns),
     checkpoints |-> under.checkpoints \cup over.checkpoints,
     event       |-> under.event \/ over.event]

\* The middleware commits, also after a handler that raised.
CommitAndLeave(c, writes) == table' = Merged(table, writes) /\ Leave(c)

\* A statement failed in the database: there is nothing left to commit.
Abort(c) == UNCHANGED table /\ Leave(c)

-----------------------------------------------------------------------------
(* Connections *)

Connect(c) ==
    /\ phase[c] = "off"
    /\ Runs(c)
    /\ phase' = [phase EXCEPT ![c] = "idle"]
    /\ UNCHANGED <<table, mine, seen, todo, heard>>

Disconnect(c) == phase[c] = "idle" /\ Runs(c) /\ CommitAndLeave(c, mine[c])

-----------------------------------------------------------------------------
(* Handlers *)

Fresh(c) == phase[c] = "idle" /\ Runs(c) /\ heard[c] >= Session(c).sequence

Run(c, statements) ==
    /\ todo' = [todo EXCEPT ![c] = statements]
    /\ phase' = [phase EXCEPT ![c] = IF statements = <<>> THEN "idle" ELSE "writing"]

Moved(row, state, steps) == [state |-> state, sequence |-> row.sequence + steps]

Start(c) ==
    /\ Fresh(c)
    /\ DOMAIN Turns(c) = {}
    /\ Session(c).state = "preparing"
    /\ LET next == Moved(Session(c), "awaiting_answer", 2)
       IN  Run(c, <<Check(Session(c)), Save(next),
                    AddTurn(1, Question(1)), AddCheckpoint(next.sequence)>>)
    /\ UNCHANGED <<table, mine, seen, heard>>

\* session.resume, or any message behind the session's sequence.
Resume(c) ==
    /\ phase[c] = "idle"
    /\ Runs(c)
    /\ IF Session(c).state = "paused"
       THEN LET next == Moved(Session(c), "awaiting_answer", 1)
            IN  /\ Run(c, <<Check(Session(c)), Save(next), AddCheckpoint(next.sequence)>>)
                /\ UNCHANGED heard
       ELSE /\ heard' = [heard EXCEPT ![c] = Session(c).sequence]
            /\ UNCHANGED <<todo, phase>>
    /\ UNCHANGED <<table, mine, seen>>

\* The first text or audio of an answer; later ones change only c's own row.
SubmitAnswer(c) ==
    /\ Fresh(c)
    /\ Session(c).state = "awaiting_answer"
    /\ Own(c) = {}
    /\ Cardinality(DOMAIN Turns(c)) < MaxTurns
    /\ Run(c, <<AddTurn(Cardinality(DOMAIN Turns(c)) + 1, Recording)>>)
    /\ UNCHANGED <<table, mine, seen, heard>>

\* A handler that waits: the session row is read, and kept, before the wait.
Await(c, for) ==
    /\ Fresh(c)
    /\ Session(c).state = "awaiting_answer"
    /\ phase' = [phase EXCEPT ![c] = for]
    /\ seen' = [seen EXCEPT ![c] = Session(c)]
    /\ UNCHANGED <<table, mine, todo, heard>>

AudioChunk(c) == Session(c).sequence < MaxPauseAt /\ Await(c, "transcribing")

CompleteAnswer(c) == Own(c) # {} /\ Await(c, "verifying")

TranscriberUnavailable(c) ==
    /\ phase[c] = "transcribing"
    /\ Runs(c)
    /\ LET next == Moved(seen[c], "paused", 1)
       IN  Run(c, <<Check(seen[c]), Save(next), AddCheckpoint(next.sequence)>>)
    /\ UNCHANGED <<table, mine, seen, heard>>

\* The final answers, with the one that is being completed.
FinalsWith(c) == Cardinality(Of(Turns(c), "final")) + 1

\* verify_recording_chunks returned.  The answer is finalized before the
\* session row is compared and saved.
Verified(c) ==
    /\ phase[c] = "verifying"
    /\ Runs(c)
    /\ LET finals == FinalsWith(c)
           more == finals < MaxQuestions
           next == Moved(seen[c], IF more THEN "awaiting_answer" ELSE "completed", 2)
       IN  /\ mine' = [mine EXCEPT ![c].turns =
                  [i \in DOMAIN @ |-> IF i \in Own(c) THEN Final ELSE @[i]]]
           /\ Run(c, <<Check(seen[c]), Save(next)>> \o
                     IF more
                     THEN <<Find("turns", Question(finals + 1)),
                            AddTurn(Cardinality(DOMAIN Turns(c)) + 1, Question(finals + 1)),
                            AddCheckpoint(next.sequence)>>
                     ELSE <<AddCheckpoint(next.sequence), Find("event", NoRow), AddEvent>>)
    /\ UNCHANGED <<table, seen, heard>>

-----------------------------------------------------------------------------
(* Statements, one at a time *)

Writes(w, s) ==
    CASE s.on = "session"     -> [w EXCEPT !.session = s.value]
      [] s.on = "turns"       -> [w EXCEPT !.turns = Overlay(@, [i \in {s.key} |-> s.value])]
      [] s.on = "checkpoints" -> [w EXCEPT !.checkpoints = @ \cup {s.key}]
      [] s.on = "event"       -> [w EXCEPT !.event = TRUE]

\* Done with s; after the last statement the reply tells the session's sequence.
Proceed(c, w) ==
    /\ mine' = [mine EXCEPT ![c] = w]
    /\ todo' = [todo EXCEPT ![c] = Tail(@)]
    /\ IF Len(todo[c]) = 1
       THEN /\ phase' = [phase EXCEPT ![c] = "idle"]
            /\ seen' = [seen EXCEPT ![c] = NoRow]
            /\ heard' = [heard EXCEPT ![c] = IF w.session = NoRow THEN @ ELSE w.session.sequence]
       ELSE UNCHANGED <<phase, seen, heard>>
    /\ UNCHANGED table

\* The comparison in save_session: STALE_VERSION ends the connection, and
\* commits what the handler had written before it.
Matches(c, row) == Session(c).sequence = row.sequence

CompareVersion(c) ==
    /\ todo[c] # <<>>
    /\ Head(todo[c]).op = "check"
    /\ IF Matches(c, Head(todo[c]).value)
       THEN Proceed(c, mine[c])
       ELSE CommitAndLeave(c, mine[c])

\* add_turn and the outbox look for the idempotency key first; a row that is
\* there already, with another identity, ends the connection the same way.
Found(c, s) ==
    \/ s.on = "turns" /\ \E i \in DOMAIN Turns(c) : Turns(c)[i] = s.value
    \/ s.on = "event" /\ (table.event \/ mine[c].event)

FindKey(c) ==
    /\ todo[c] # <<>>
    /\ Head(todo[c]).op = "find"
    /\ IF Found(c, Head(todo[c]))
       THEN CommitAndLeave(c, mine[c])
       ELSE Proceed(c, mine[c])

Write(c) ==
    /\ todo[c] # <<>>
    /\ Head(todo[c]).op \in {"update", "insert"}
    /\ ~Blocked(c)
    /\ IF Head(todo[c]).op = "insert" /\ Taken(Head(todo[c]))
       THEN Abort(c)
       ELSE Proceed(c, Writes(mine[c], Head(todo[c])))

\* The database ends one of two transactions that wait for each other.
DeadlockVictim(c) ==
    /\ \E d \in Connections : WaitsFor(c, d) /\ WaitsFor(d, c)
    /\ Abort(c)

-----------------------------------------------------------------------------
Init ==
    /\ table = NewTable
    /\ mine = [c \in Connections |-> NoWrites]
    /\ phase = [c \in Connections |-> "off"]
    /\ seen = [c \in Connections |-> NoRow]
    /\ todo = [c \in Connections |-> <<>>]
    /\ heard = [c \in Connections |-> 0]

Next ==
    \E c \in Connections :
        \/ Connect(c)
        \/ Disconnect(c)
        \/ Start(c)
        \/ Resume(c)
        \/ SubmitAnswer(c)
        \/ AudioChunk(c)
        \/ CompleteAnswer(c)
        \/ TranscriberUnavailable(c)
        \/ Verified(c)
        \/ CompareVersion(c)
        \/ FindKey(c)
        \/ Write(c)
        \/ DeadlockVictim(c)

Spec == Init /\ [][Next]_vars

\* Handlers run on, every wait for a dependency ends, the database hands a lock
\* to its waiters, and no connection lasts forever.
FairSpec ==
    /\ Spec
    /\ \A c \in Connections :
        /\ SF_vars(Disconnect(c))
        /\ WF_vars(TranscriberUnavailable(c))
        /\ WF_vars(Verified(c))
        /\ WF_vars(CompareVersion(c))
        /\ WF_vars(FindKey(c))
        /\ SF_vars(Write(c))
        /\ WF_vars(DeadlockVictim(c))

-----------------------------------------------------------------------------
\* The committed rows have their types, the transcript has no gap, and only a
\* handler inside its statements has statements left to run.
TypeOK ==
    /\ table.session \in Row
    /\ \A i \in DOMAIN table.turns : table.turns[i] \in Turn
    /\ DOMAIN table.turns = 1..Cardinality(DOMAIN table.turns)
    /\ table.event \in BOOLEAN
    /\ \A c \in Connections :
        /\ mine[c].session \in Row \cup {NoRow}
        /\ phase[c] \in {"off", "idle", "verifying", "transcribing", "writing"}
        /\ seen[c] \in Row \cup {NoRow}
        /\ phase[c] = "writing" <=> todo[c] # <<>>

\* However connections interleave and wherever their handlers stop, what is committed
\* belongs together: the session row has a checkpoint of its own sequence, so that a
\* resume has a point to resume from, and interview.completed is not announced before
\* max_questions answers are final.
CommittedRowsAgree ==
    /\ table.session.state # "preparing" => table.session.sequence \in table.checkpoints
    /\ table.event => Cardinality(Of(table.turns, "final")) >= MaxQuestions

\* A committed question or final answer keeps its place and its content: two
\* connections that counted the same turns never both write the next place.
CommittedTurnsStay ==
    [][\A i \in DOMAIN table.turns :
          table.turns[i].kind # "recording" =>
              i \in DOMAIN table'.turns /\ table'.turns[i] = table.turns[i]]_table

\* A session that waits for an answer is never put back to an earlier
\* sequence that waits for an answer: a lost update can only leave it paused.
AwaitingNeverFallsBack ==
    [][table'.session.state = "awaiting_answer" =>
          table'.session.sequence >= table.session.sequence]_table

\* Every handler that began ends, with or without an error.
HandlersEnd == \A c \in Connections : phase[c] = "writing" ~> phase[c] # "writing"
=============================================================================
