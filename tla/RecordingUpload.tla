-------------------------- MODULE RecordingUpload --------------------------
(***************************************************************************)
(* The applicant's recorder and the server's record of its chunks.  A page  *)
(* that starts or resumes the session makes a recorder; an earlier one of   *)
(* the same page goes on recording.  A recorder cuts chunks, keeps each in a *)
(* buffer (its memory, and IndexedDB, which all share and which survives a  *)
(* reload), asks for an upload intent, PUTs the chunk and drops it.  Each    *)
(* chunk is a chain of callbacks of its own; what is buffered is retried when*)
(* a recorder starts and when the socket opens.  The server takes chunks in  *)
(* sequence and verifies them when an answer ends.                           *)
(***************************************************************************)
EXTENDS Naturals, Sequences, FiniteSets

CONSTANTS
    Uploads,        \* chains of callbacks that can run at a time
    MaxRecorders,   \* bound: how often the session is started or resumed
    MaxCaptured,    \* bound: chunks that are recorded
    MaxNow,         \* bound: the page's clock
    MaxFailures     \* bound: requests, replies and commits that get lost

ASSUME BoundsAssumption ==
    {MaxRecorders, MaxCaptured, MaxNow, MaxFailures} \subseteq Nat

VARIABLES
    page,       \* what a reload forgets
    recorder,   \* the recorders of the page, the last one being recorderRef
    database,   \* the IndexedDB store: sequence -> chunk
    upload,     \* per chain: what it does
    rows,       \* the server's chunks; the place of a row is its sequence
    objects,    \* the sequences whose object is in the store
    captured,   \* how many chunks were recorded
    started,    \* how many recorders were made
    dropped,    \* chunks that a reload or a lost commit took
    overlapped, \* whether two chunks of one recorder, or two recorders, were at work at once
    failures

server == <<rows, objects>>
ghosts == <<captured, started, dropped, overlapped>>
vars == <<page, recorder, database, upload, rows, objects, captured, started, dropped,
          overlapped, failures>>

-----------------------------------------------------------------------------
\* content tells one recorded chunk from another, as its sha256 does.
Chunk(content, start, end) == [content |-> content, start |-> start, end |-> end]

\* performance.now(), lastRecordingChunkSequenceRef, and whether the socket's onOpen has run.
NewPage(verified) == [now |-> 0, uploaded |-> verified, opened |-> FALSE]

\* phase: retrying (startRecorder awaits retryPending), recording or unavailable.
NewRecorder == [phase |-> "retrying", sequence |-> 0, start |-> 0, memory |-> <<>>]

Idle == [kind |-> "none", step |-> "idle", of |-> 0, sequence |-> 0,
         chunk |-> Chunk(0, 0, 0), rest |-> <<>>, stored |-> FALSE]

Verified == {n \in DOMAIN rows : rows[n].status = "verified"}

With(buffer, n, chunk) == [k \in DOMAIN buffer \cup {n} |-> IF k = n THEN chunk ELSE buffer[k]]

Without(buffer, n) == [k \in DOMAIN buffer \ {n} |-> buffer[k]]

\* pending(): what is in IndexedDB replaces what the memory has.
Loaded(memory) ==
    [k \in DOMAIN memory \cup DOMAIN database |->
        IF k \in DOMAIN database THEN database[k] ELSE memory[k]]

\* The numbers of a set, from the least.
Ordered(S) ==
    CHOOSE order \in [1..Cardinality(S) -> S] :
        \A i, j \in DOMAIN order : i < j => order[i] < order[j]

Listed(memory) ==
    LET order == Ordered(DOMAIN memory)
    IN  [k \in DOMAIN order |-> [sequence |-> order[k], chunk |-> memory[order[k]]]]

Larger(a, b) == IF a > b THEN a ELSE b

Current == Len(recorder)

-----------------------------------------------------------------------------
(* Recording. *)

\* retryPending: one chunk after the other; what remains is in rest.
Retrying(kind, r, chunks) ==
    IF chunks = <<>> THEN Idle
    ELSE [Idle EXCEPT !.kind = kind, !.step = "intent", !.of = r, !.sequence = Head(chunks).sequence,
                      !.chunk = Head(chunks).chunk, !.rest = Tail(chunks)]

Recording(r) == [r EXCEPT !.phase = "recording", !.start = page.now]

\* startRecorder of a page whose earlier recorders go on: what is buffered is retried first.
StartRecorder(u, earlier, p) ==
    LET memory == Loaded(<<>>)
        new == [NewRecorder EXCEPT !.memory = memory]
    IN  /\ started < MaxRecorders
        /\ started' = started + 1
        /\ overlapped' = (overlapped \/ \E k \in DOMAIN earlier : earlier[k].phase # "unavailable")
        /\ page' = p
        /\ \/ /\ recorder' = Append(earlier, IF memory = <<>>
                                             THEN [new EXCEPT !.phase = "recording", !.start = p.now]
                                             ELSE new)
              /\ upload' = [v \in Uploads |->
                    IF v = u THEN Retrying("first", Len(earlier) + 1, Listed(memory))
                    ELSE IF earlier = <<>> THEN Idle ELSE upload[v]]
           \/ /\ recorder' = Append(earlier, [NewRecorder EXCEPT !.phase = "unavailable"])
              /\ upload' = [v \in Uploads |-> IF earlier = <<>> THEN Idle ELSE upload[v]]

\* The resume button of a paused page.
Resume(u) ==
    /\ recorder # <<>>
    /\ upload[u] = Idle
    /\ StartRecorder(u, recorder, [page EXCEPT !.uploaded = Cardinality(Verified), !.opened = FALSE])
    /\ UNCHANGED <<database, server, captured, dropped, failures>>

Buffers == {database} \cup {recorder[k].memory : k \in DOMAIN recorder}

Kept(buffers) == UNION {{b[n].content : n \in DOMAIN b} : b \in buffers}

\* The page is opened, or opened again: what only it knew is gone.
Load(u) ==
    /\ StartRecorder(u, <<>>, NewPage(Cardinality(Verified)))
    /\ dropped' = dropped \cup (1..captured \ Kept({database}))
    /\ UNCHANGED <<database, server, captured, failures>>

\* onOpen retries too, when there is a recorder.
SocketOpens(u) ==
    /\ recorder # <<>> /\ ~page.opened
    /\ upload[u] = Idle
    /\ page' = [page EXCEPT !.opened = TRUE]
    /\ LET memory == Loaded(recorder[Current].memory)
       IN  /\ recorder' = [recorder EXCEPT ![Current].memory = memory]
           /\ upload' = [upload EXCEPT ![u] = Retrying("open", Current, Listed(memory))]
    /\ UNCHANGED <<database, server, ghosts, failures>>

Wait ==
    /\ recorder # <<>> /\ page.now < MaxNow
    /\ page' = [page EXCEPT !.now = @ + 1]
    /\ UNCHANGED <<recorder, database, upload, server, ghosts, failures>>

Hashing(r) == {u \in Uploads : upload[u].step = "hash" /\ upload[u].of = r}

\* handleChunk up to its first await: the sequence is read, not taken.
Capture(u, r) ==
    /\ recorder[r].phase = "recording"
    /\ upload[u] = Idle
    /\ captured < MaxCaptured /\ page.now < MaxNow
    /\ page' = [page EXCEPT !.now = @ + 1]
    /\ captured' = captured + 1
    /\ overlapped' = (overlapped \/ Hashing(r) # {})
    /\ upload' = [upload EXCEPT ![u] =
          [Idle EXCEPT !.kind = "chunk", !.step = "hash", !.of = r,
                       !.sequence = recorder[r].sequence + 1,
                       !.chunk = Chunk(captured + 1, 0, page.now + 1)]]
    /\ UNCHANGED <<recorder, database, server, started, dropped, failures>>

MutantBuffered(buffer, n, chunk) == IF n \in DOMAIN buffer THEN With(buffer, n, chunk) ELSE buffer

Buffered(buffer, n, chunk) == With(buffer, n, chunk)

\* After the hash: the start is read now, and the sequence is taken now.
Hashed(u) ==
    /\ upload[u].step = "hash"
    /\ LET r == upload[u].of
           n == upload[u].sequence
           chunk == [upload[u].chunk EXCEPT !.start = recorder[r].start]
       IN  /\ upload' = [upload EXCEPT ![u].step = "intent", ![u].chunk = chunk]
           /\ recorder' = [recorder EXCEPT ![r].start = chunk.end, ![r].sequence = n,
                                           ![r].memory = Buffered(@, n, chunk)]
           /\ database' = Buffered(database, n, chunk)
    /\ UNCHANGED <<page, server, ghosts, failures>>

-----------------------------------------------------------------------------
(* Uploading. *)

MutantAcceptable(n, chunk) == n = Len(rows) + 1 /\ chunk.start < chunk.end

\* create_recording_upload_intent; no two requests of this client share a key.
Acceptable(n, chunk) ==
    /\ n = Len(rows) + 1
    /\ chunk.start < chunk.end
    /\ rows # <<>> => chunk.start >= rows[Len(rows)].chunk.end

\* The promise of an upload rejects: the chunk stays buffered, and a first retry
\* that fails leaves the recorder unstarted.
Rejected(u) ==
    /\ upload' = [upload EXCEPT ![u] = Idle]
    /\ recorder' = IF upload[u].kind = "first"
                   THEN [recorder EXCEPT ![upload[u].of].phase = "unavailable"] ELSE recorder

Row(chunk) == [chunk |-> chunk, status |-> "issued"]

RequestIntent(u) ==
    /\ upload[u].step = "intent"
    /\ IF Acceptable(upload[u].sequence, upload[u].chunk)
       THEN /\ rows' = Append(rows, Row(upload[u].chunk))
            /\ upload' = [upload EXCEPT ![u].step = "put", ![u].stored = TRUE]
            /\ UNCHANGED recorder
       ELSE Rejected(u) /\ UNCHANGED rows
    /\ UNCHANGED <<page, database, objects, ghosts, failures>>

Failing ==
    /\ failures < MaxFailures
    /\ failures' = failures + 1

\* The request is lost, or its reply, after the row was committed.
IntentFails(u) ==
    /\ upload[u].step = "intent"
    /\ Failing
    /\ \/ UNCHANGED rows
       \/ /\ Acceptable(upload[u].sequence, upload[u].chunk)
          /\ rows' = Append(rows, Row(upload[u].chunk))
    /\ Rejected(u)
    /\ UNCHANGED <<page, database, objects, ghosts>>

\* The reply is sent before the commit, and the commit fails.
IntentNotCommitted(u) ==
    /\ upload[u].step = "intent"
    /\ Acceptable(upload[u].sequence, upload[u].chunk)
    /\ Failing
    /\ upload' = [upload EXCEPT ![u].step = "put"]
    /\ dropped' = dropped \cup {upload[u].chunk.content}
    /\ UNCHANGED <<page, recorder, database, server, captured, started, overlapped>>

Put(u) ==
    /\ upload[u].step = "put"
    /\ objects' = IF upload[u].stored THEN objects \cup {upload[u].sequence} ELSE objects
    /\ page' = [page EXCEPT !.uploaded = Larger(@, upload[u].sequence)]
    /\ upload' = [upload EXCEPT ![u].step = "remove"]
    /\ UNCHANGED <<recorder, database, rows, ghosts, failures>>

PutFails(u) ==
    /\ upload[u].step = "put"
    /\ Failing
    /\ \/ UNCHANGED objects
       \/ upload[u].stored /\ objects' = objects \cup {upload[u].sequence}
    /\ Rejected(u)
    /\ UNCHANGED <<page, database, rows, ghosts>>

\* What has this sequence now is dropped.  A retry goes on to its next chunk, and
\* after the last one a first retry starts the recorder.
DropFromBuffer(u) ==
    /\ upload[u].step = "remove"
    /\ LET t == upload[u]
           r == [recorder[t.of] EXCEPT !.memory = Without(@, t.sequence),
                     !.sequence = IF t.kind = "chunk" THEN @ ELSE Larger(@, t.sequence)]
       IN  /\ upload' = [upload EXCEPT ![u] = Retrying(t.kind, t.of, t.rest)]
           /\ recorder' = [recorder EXCEPT ![t.of] =
                 IF t.kind = "first" /\ t.rest = <<>> THEN Recording(r) ELSE r]
           /\ database' = Without(database, t.sequence)
    /\ UNCHANGED <<page, server, ghosts, failures>>

-----------------------------------------------------------------------------
\* verify_recording_chunks: the rows it finds stored before it stops.
Walked(through) ==
    {n \in DOMAIN rows : n <= through /\ \A k \in 1..n : k \in Verified \cup objects}

\* An answer ends; what was verified before the walk fails is kept.
CompleteAnswer ==
    /\ rows' = [n \in DOMAIN rows |->
          IF n \in Walked(page.uploaded) THEN [rows[n] EXCEPT !.status = "verified"] ELSE rows[n]]
    /\ UNCHANGED <<page, recorder, database, upload, objects, ghosts, failures>>

Init ==
    /\ page = NewPage(0) /\ recorder = <<>>
    /\ database = <<>>
    /\ upload = [u \in Uploads |-> Idle]
    /\ rows = <<>> /\ objects = {}
    /\ captured = 0 /\ started = 0 /\ dropped = {} /\ overlapped = FALSE
    /\ failures = 0

Next ==
    \/ Wait \/ CompleteAnswer
    \/ \E u \in Uploads :
          \/ Load(u) \/ Resume(u) \/ SocketOpens(u)
          \/ \E r \in DOMAIN recorder : Capture(u, r)
          \/ Hashed(u) \/ RequestIntent(u) \/ IntentFails(u) \/ IntentNotCommitted(u)
          \/ Put(u) \/ PutFails(u) \/ DropFromBuffer(u)

Spec == Init /\ [][Next]_vars

-----------------------------------------------------------------------------
(* However chunks and recorders overtake each other and whatever is retried, *)
(* the server's record is in the order in which the chunks were recorded,    *)
(* none twice, and in times that do not overlap.                             *)
ChunksInCaptureOrder ==
    \A m, n \in DOMAIN rows : m < n =>
        /\ rows[m].chunk.content < rows[n].chunk.content
        /\ rows[m].chunk.end <= rows[n].chunk.start

Stored == {rows[n].chunk.content : n \in objects}

(* As long as one recorder is at work and hashes one chunk at a time, what   *)
(* was recorded is in the store, in a buffer or on its way to one, wherever  *)
(* requests fail; only a reload or a lost commit can take it.                *)
NothingIsDropped ==
    ~overlapped => \A c \in (1..captured) \ dropped :
        \/ c \in Stored \cup Kept(Buffers)
        \/ \E r \in DOMAIN recorder : \E u \in Hashing(r) : upload[u].chunk.content = c
=============================================================================
