---------------------------- MODULE InterviewRoom ----------------------------
(***************************************************************************)
(* The applicant's page (apps/applicant-interview, InterviewRoom.tsx and    *)
(* api.ts) and the stream handler of InterviewStream, joined by a socket.    *)
(*                                                                         *)
(* InterviewStream lets a client send anything that carries what it last     *)
(* heard.  Here the messages are those the page sends: it knows the question *)
(* it shows and the answer_turn_id it made for it, puts its socket's last    *)
(* sequence into each message, and after a drop reads a snapshot over HTTP   *)
(* and opens another socket.  A message is handled when it arrives, so it    *)
(* may be stale by then, and a reply may find the page somewhere else.       *)
(*                                                                         *)
(* A session.start and an answer.complete are handled where InterviewRoom    *)
(* can send them: the text that goes before an answer.complete is refused    *)
(* by a session that does not wait for an answer.                            *)
(*                                                                         *)
(* The server handles the end of a connection before it accepts the next     *)
(* (StreamConnections has them overlap), and no process dies here.           *)
(***************************************************************************)
EXTENDS InterviewStream

CONSTANT MaxMishaps  \* bound: drops, reloads, faults, repeats, and clicks that did not wait

ASSUME MishapsAssumption == MaxMishaps \in Nat
ASSUME NumbersAssumption == AnswerIds \subseteq Nat \ {0} /\ Fragments = 1..MaxQuestions

VARIABLES
    room,      \* the state of the page
    socket,    \* its current WebSocket; unsent is what waits for it to open
    replaced,  \* sockets the page closed, whose close event is still to come
    toServer,  \* messages on the server's connection
    toRoom,    \* replies on the current socket
    mishaps    \* how many there were, and whether one was hasty: an answer completed, or a
               \* question repeated, before what was under way had come

page == <<room, socket, replaced>>
wire == <<toServer, toRoom>>
roomVars == <<vars, page, wire, mishaps>>

-----------------------------------------------------------------------------
(* The page *)

NoSnapshot == [state |-> "none", sequence |-> 0, media |-> 0, place |-> 0]

\* question: the number of the question shown; place: its turn; id: the
\* answer_turn_id; draft: the question that the text was written under.  0 is none.
NewPage(known) ==
    [known |-> known, phase |-> "paused", question |-> 0, place |-> 0, id |-> 0, draft |-> 0,
     last |-> 0, media |-> 0, snapshot |-> NoSnapshot]

PhaseOf(state) ==
    CASE state = "awaiting_answer" -> "answering"
      [] state = "preparing"       -> "processing"
      [] state = "completed"       -> "completed"
      [] OTHER                     -> "paused"

Opening(unsent) == [state |-> "connecting", sequence |-> 0, unsent |-> unsent]

Message(type, answer, text, place, media) ==
    [type |-> type, sequence |-> socket.sequence, answer |-> answer, text |-> text,
     place |-> place, media |-> media]

First(type) == [type |-> type, sequence |-> 0, answer |-> 0, text |-> 0, place |-> 0, media |-> 0]

\* send: writes to an open socket, waits for one that opens, and is lost on another.
Send(messages) ==
    CASE socket.state = "open" /\ conn = "open" ->
            toServer' = toServer \o messages /\ UNCHANGED <<socket, toRoom>>
      [] socket.state = "connecting" ->
            socket' = [socket EXCEPT !.unsent = @ \o messages] /\ UNCHANGED wire
      [] OTHER -> UNCHANGED <<socket, wire>>

\* Nothing is under way, for all that the page will ever see.
Quiet == socket.state # "connecting" /\ wire = <<<<>>, <<>>>> /\ replaced = 0

Happens(hasty) ==
    /\ mishaps.number < MaxMishaps
    /\ mishaps' = [number |-> mishaps.number + 1, hasty |-> mishaps.hasty \/ hasty]

Mishap == Happens(FALSE)

MishapUnless(fine) == IF fine THEN UNCHANGED mishaps ELSE Mishap

CanAnswer == room.id # 0 /\ room.phase = "answering"

Starting == room.snapshot # NoSnapshot

-----------------------------------------------------------------------------
(* Buttons *)

\* startSession of a page that knows no session: the session is created by a request
\* of its own.
StartSession ==
    /\ ~room.known
    /\ room' = [room EXCEPT !.known = TRUE]
    /\ socket' = Opening(<<First("start")>>)
    /\ UNCHANGED <<vars, replaced, wire, mishaps>>

\* startSession of a page that knows one: get_resume_snapshot reads what is committed.
AskSnapshot ==
    /\ room.known /\ room.phase = "paused" /\ ~Starting
    /\ MishapUnless(Quiet)
    /\ room' = [room EXCEPT !.snapshot =
          [state |-> saved.state, sequence |-> saved.sequence, media |-> LastVerified(saved),
           place |-> Latest(saved).pending]]
    /\ UNCHANGED <<vars, socket, replaced, wire>>

\* applyResumeSnapshot and connectSocket, which closes the socket before.
ApplySnapshot ==
    /\ Starting
    /\ room' = [room EXCEPT !.last = room.snapshot.sequence, !.media = room.snapshot.media,
                            !.phase = PhaseOf(room.snapshot.state), !.snapshot = NoSnapshot,
                            !.place = IF room.snapshot.place = 0 THEN @ ELSE room.snapshot.place]
    /\ socket' = Opening(<<First("resume")>>)
    /\ replaced' = IF socket.state = "closed" THEN replaced ELSE replaced + 1
    /\ toRoom' = <<>>
    /\ UNCHANGED <<vars, toServer, mishaps>>

Write ==
    /\ CanAnswer
    /\ room.draft = 0
    /\ room' = [room EXCEPT !.draft = room.question]
    /\ UNCHANGED <<vars, socket, replaced, wire, mishaps>>

CompleteAnswer ==
    /\ CanAnswer
    /\ room.draft # 0
    /\ IF Quiet THEN UNCHANGED mishaps ELSE Happens(TRUE)
    /\ Send(<<Message("submit", room.id, room.draft, 0, 0),
              Message("complete", room.id, 0, 0, room.media)>>)
    /\ room' = [room EXCEPT !.phase = "processing"]
    /\ UNCHANGED <<vars, replaced>>

RepeatQuestion ==
    /\ room.place # 0
    /\ Happens(~Quiet)
    /\ Send(<<Message("repeat", 0, 0, room.place, 0)>>)
    /\ UNCHANGED <<vars, room, replaced>>

\* The page of a completed interview is closed.
Leave ==
    /\ room.phase = "completed" /\ socket.state = "open" /\ Quiet
    /\ socket' = [socket EXCEPT !.state = "closed"]
    /\ UNCHANGED <<vars, room, replaced, wire, mishaps>>

-----------------------------------------------------------------------------
(* Connections *)

\* The page stays where it was, as if its socket were still open.
MutantDisconnected(r) == r

Disconnected(r) == [r EXCEPT !.phase = IF @ = "completed" THEN @ ELSE "paused"]

Closed == [socket EXCEPT !.state = "closed", !.unsent = <<>>]

\* The network fails: the page sees it now, the server later.
Drop ==
    /\ socket.state # "closed"
    /\ Mishap
    /\ room' = Disconnected(room)
    /\ socket' = Closed
    /\ toRoom' = <<>>
    /\ UNCHANGED <<vars, replaced, toServer>>

\* sessionStorage keeps that there is a session, and nothing else.
Reload ==
    /\ room.known
    /\ Mishap
    /\ room' = NewPage(TRUE)
    /\ socket' = Closed
    /\ replaced' = 0
    /\ toRoom' = <<>>
    /\ UNCHANGED <<vars, toServer>>

\* The close event of a socket that was replaced does what that of the current one does.
ReplacedCloses ==
    /\ replaced > 0
    /\ replaced' = replaced - 1
    /\ room' = Disconnected(room)
    /\ UNCHANGED <<vars, socket, wire, mishaps>>

\* A close event that comes only after the next socket is open is a mishap.
Accept ==
    /\ socket.state = "connecting"
    /\ MishapUnless(replaced = 0)
    /\ Connect
    /\ toServer' = socket.unsent
    /\ toRoom' = <<>>
    /\ socket' = [socket EXCEPT !.state = "open", !.unsent = <<>>]
    /\ UNCHANGED <<room, replaced>>

\* The server finds that the client is gone; what it did not receive is lost.
EndConnection ==
    /\ socket.state # "open"
    /\ Disconnect
    /\ toServer' = <<>>
    /\ UNCHANGED <<page, toRoom, mishaps>>

-----------------------------------------------------------------------------
(* The server's replies *)

FromServer(type, d, place) ==
    [type |-> type, sequence |-> d.sequence, state |-> d.state, place |-> place,
     question |-> IF place = 0 THEN 0 ELSE d.turns[place].number, media |-> LastVerified(d)]

Ready(d, place) == FromServer("question.ready", d, place)

StateChanged(d) == FromServer("session.state_changed", d, 0)

Snapshot(d) == FromServer("resume.snapshot", d, 0)

ToRoom(messages) == IF socket.state = "open" THEN toRoom \o messages ELSE toRoom

Reply(d, messages) ==
    /\ Respond(d, d.sequence)
    /\ toServer' = Tail(toServer)
    /\ toRoom' = ToRoom(messages)
    /\ UNCHANGED <<page, mishaps>>

\* The handler raises: the router closes with 1011.
Raise(d) ==
    /\ Close(d)
    /\ toServer' = <<>>
    /\ toRoom' = ToRoom(<<[FromServer("close", d, 0) EXCEPT !.sequence = 0]>>)
    /\ UNCHANGED page

-----------------------------------------------------------------------------
(* handle_message *)

Stale(m) == m.sequence < db.sequence

Arrives(type) == conn = "open" /\ toServer # <<>> /\ Head(toServer).type = type

Current(type) == Arrives(type) /\ ~Stale(Head(toServer))

HandleStale ==
    /\ conn = "open" /\ toServer # <<>>
    /\ Head(toServer).type # "resume" /\ Stale(Head(toServer))
    /\ Reply(Resumed(db), <<Snapshot(Resumed(db))>>)

\* Tells where the session is, and not what was asked.
MutantHandleResume ==
    Arrives("resume") /\ Reply(Resumed(db), <<Snapshot(Resumed(db))>>)

HandleResume ==
    /\ Arrives("resume")
    /\ LET d == Resumed(db)
           pending == Latest(d).pending
       IN  Reply(d, IF d.state = "awaiting_answer" /\ pending # 0
                    THEN <<Snapshot(d), Ready(d, pending)>> ELSE <<Snapshot(d)>>)

\* Before the first question is asked: afterwards a first message is stale.
HandleStart ==
    /\ Current("start")
    /\ db.turns = <<>>
    /\ MayPass(db, "in_progress", "awaiting_answer")
    /\ LET d == Asked(Started, 1, 0, 0) IN Reply(d, <<StateChanged(d), Ready(d, 1)>>)

HandleRepeat ==
    /\ Current("repeat")
    /\ Reply(db, <<Ready(db, Head(toServer).place)>>)

\* Writes the text in whatever state the session is.
MutantHandleText ==
    /\ Current("submit")
    /\ LET m == Head(toServer)
       IN  Reply(Written(db, m.answer, <<m.text>>), <<FromServer("transcript.final", db, 0)>>)

HandleText ==
    /\ Current("submit")
    /\ LET m == Head(toServer)
       IN  IF db.state = "awaiting_answer"
           THEN Reply(Written(db, m.answer, <<m.text>>), <<FromServer("transcript.final", db, 0)>>)
           ELSE Raise(db) /\ UNCHANGED mishaps

HandleUnverified ==
    /\ Current("complete")
    /\ db.state = "awaiting_answer"
    /\ \E upto \in 0..Head(toServer).media - 1 :
          /\ Verifiable(upto)
          /\ upto + 1 \notin db.verified
          /\ upto + 1 \in stored => "storage" \in Faults
          /\ MishapUnless(upto + 1 \notin stored)
          /\ Raise(Verified(db, upto))

Answering(a, media) ==
    /\ Current("complete")
    /\ db.state = "awaiting_answer"
    /\ a = Head(toServer).answer /\ media = Head(toServer).media
    /\ Verifiable(media)

HandleMissing ==
    \E a \in AnswerIds, media \in 0..MaxChunks :
        /\ Answering(a, media)
        /\ MayPause
        /\ Recording(db, a) = {}
        /\ LET d == Paused(Verified(db, media))
           IN  Reply(d, <<FromServer("session.paused", d, 0)>>)

HandleNext ==
    \E a \in AnswerIds, media \in 0..MaxChunks :
        /\ Answering(a, media)
        /\ AnswersAfter(a) < MaxQuestions
        /\ \E place \in Recording(db, a) :
              LET d == Asked(Answered(a, media), AnswersAfter(a) + 1, place, media)
              IN  Reply(d, <<StateChanged(d), FromServer("question.preparing", d, 0),
                             Ready(d, LastQuestion(d))>>)

HandleLast ==
    \E a \in AnswerIds, media \in 0..MaxChunks :
        /\ Answering(a, media)
        /\ AnswersAfter(a) >= MaxQuestions
        /\ \E place \in Recording(db, a) :
              LET d == Completed(a, place, media, "published")
              IN  \/ Reply(d, <<StateChanged(d), FromServer("session.completed", d, 0)>>)
                  \/ "completion" \in Faults /\ Mishap /\ Raise([d EXCEPT !.event = "pending"])

Handle ==
    \/ HandleStale \/ HandleResume \/ HandleStart \/ HandleRepeat \/ HandleText
    \/ HandleUnverified \/ HandleMissing \/ HandleNext \/ HandleLast

-----------------------------------------------------------------------------
(* handleServerMessage *)

Answers(messages) == {messages[i].answer : i \in DOMAIN messages}

\* createUuid7: an id that nobody remembers.
NewId ==
    Min({a \in AnswerIds :
            /\ Places(db, a) \cup Places(saved, a) = {}
            /\ a \notin Answers(toServer) \cup Answers(socket.unsent)})

\* Keeps what was written for the question before.
MutantShown(r, m) ==
    [r EXCEPT !.question = m.question, !.place = m.place, !.id = NewId, !.phase = "answering"]

ShownIn(r, m) ==
    [r EXCEPT !.question = m.question, !.place = m.place, !.id = NewId,
              !.draft = 0, !.phase = "answering"]

Understood(r, m) ==
    CASE m.type = "question.ready"        -> ShownIn(r, m)
      [] m.type = "question.preparing"    -> [r EXCEPT !.phase = "processing"]
      [] m.type = "session.state_changed" -> [r EXCEPT !.phase = PhaseOf(m.state)]
      [] m.type = "resume.snapshot"       ->
            [r EXCEPT !.phase = PhaseOf(m.state), !.media = Max({@, m.media})]
      [] m.type = "session.paused"        -> [r EXCEPT !.phase = "paused"]
      [] m.type = "session.completed"     -> [r EXCEPT !.phase = "completed"]
      [] OTHER                            -> r

Receive ==
    /\ toRoom # <<>>
    /\ toRoom' = Tail(toRoom)
    /\ LET m == Head(toRoom)
       IN  CASE m.type = "close" -> room' = Disconnected(room) /\ socket' = Closed
             [] m.type # "close" /\ m.sequence < socket.sequence -> UNCHANGED <<room, socket>>
             [] OTHER ->
                  /\ socket' = [socket EXCEPT !.sequence = m.sequence]
                  /\ room' = IF m.sequence < room.last THEN room
                             ELSE Understood([room EXCEPT !.last = m.sequence], m)
    /\ UNCHANGED <<vars, replaced, toServer, mishaps>>

-----------------------------------------------------------------------------
(* The recorder: an upload intent, the PUT, and what the page then knows. *)

RecordChunk ==
    /\ room.known
    /\ CreateRecordingUploadIntent \/ StoreChunk
    /\ UNCHANGED <<page, wire, mishaps>>

Uploaded ==
    /\ \E n \in stored : n > room.media /\ room' = [room EXCEPT !.media = n]
    /\ UNCHANGED <<vars, socket, replaced, wire, mishaps>>

-----------------------------------------------------------------------------
RoomInit ==
    /\ Init
    /\ room = NewPage(FALSE)
    /\ socket = [state |-> "closed", sequence |-> 0, unsent |-> <<>>]
    /\ replaced = 0
    /\ toServer = <<>> /\ toRoom = <<>>
    /\ mishaps = [number |-> 0, hasty |-> FALSE]

RoomNext ==
    \/ StartSession \/ AskSnapshot \/ ApplySnapshot
    \/ Write \/ CompleteAnswer \/ RepeatQuestion \/ Leave
    \/ Drop \/ Reload \/ ReplacedCloses \/ Accept \/ EndConnection
    \/ Handle \/ Receive \/ RecordChunk \/ Uploaded

\* Computers and networks go on; the applicant goes on when nothing moves any more.
RoomFairness ==
    /\ WF_roomVars(ApplySnapshot) /\ WF_roomVars(Accept) /\ WF_roomVars(EndConnection)
    /\ WF_roomVars(ReplacedCloses) /\ WF_roomVars(Handle) /\ WF_roomVars(Receive)
    /\ WF_roomVars(StartSession) /\ WF_roomVars(Quiet /\ AskSnapshot) /\ WF_roomVars(Write)
    /\ WF_roomVars(Quiet /\ CompleteAnswer) /\ WF_roomVars(Leave)

RoomSpec == RoomInit /\ [][RoomNext]_roomVars /\ RoomFairness

-----------------------------------------------------------------------------
AnswersMatch ==
    \A i \in Finals(db) :
        LET asked == Max({q \in Questions(db) : q < i})
        IN  db.turns[i].text = <<db.turns[asked].number>>

\* However connections drop, close late, and lose replies that were committed: the text of
\* a final answer was written under the question that it answers in the record.  This is so
\* for an applicant who waits for what is under way before answering: in between, the page
\* has an old question and the sequence of the next.
AnswerMeetsItsQuestion == ~mishaps.hasty => AnswersMatch

\* When nothing is under way and the page lets such an applicant answer, the session waits
\* for an answer, to the question that the page shows, under an answer_turn_id that is not
\* used up.  Excepted is a completed interview, of which question.repeat shows the last
\* question again.
AnsweringIsCurrent ==
    Quiet /\ socket.state = "open" /\ CanAnswer /\ ~mishaps.hasty /\ db.state # "completed" =>
        /\ db.state = "awaiting_answer"
        /\ room.place = LastQuestion(db)
        /\ Places(db, room.id) \cap Finals(db) = {}

\* To the server, the page is one of the clients of InterviewStream: what is shown there
\* for any client that sends what it last heard holds for this one.
RoomIsAClient == Spec

\* Once the first question is committed, an applicant who waits, writes and resumes gets
\* to the end, and the end is committed.
InterviewIsSaved == saved.state # "preparing" ~> saved.state = "completed"

\* contracts/websocket.md:255: "Reconnect resumes from the last final Turn and verified
\* media sequence": the page does not stay where it offers nothing to do.
RoomGoesOn == room.phase = "processing" ~> room.phase # "processing"
=============================================================================
