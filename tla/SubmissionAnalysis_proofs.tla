----------------------- MODULE SubmissionAnalysis_proofs -----------------------
(***************************************************************************)
(* Theorems about SubmissionAnalysis, for any processes, requests, keys,    *)
(* faults and number of registrations.                                      *)
(***************************************************************************)
EXTENDS SubmissionAnalysis, FiniteSetTheorems, TLAPS

-----------------------------------------------------------------------------
(* The inductive invariant *)

Own(c, status) == [id |-> c.id, key |-> c.key, status |-> status]

EventOf(c) == [key |-> c.key, submission |-> c.id]

\* The rows of a request that is about to be committed.
Whole(c, rows) ==
    \E status \in AnalysisStatus :
        /\ rows.submissions = {Own(c, status)}
        /\ rows.analyses = {[submission |-> c.id, status |-> status]}
        /\ rows.outbox = {EventOf(c)}
        /\ rows.strategies = IF status = "failed" THEN {}
                             ELSE {[version |-> c.version, submission |-> c.id,
                                    partial |-> status = "partial"]}

\* The rows of a request that is not yet analyzed, or that will be rolled back.
Partial(c, rows) ==
    /\ \E status \in SubmissionStatus : rows.submissions = {Own(c, status)}
    /\ rows.analyses = {}
    /\ rows.strategies = {}
    /\ rows.outbox \subseteq {EventOf(c)}
    /\ c.step \in {"handle", "process", "keep", "strategy"} => rows.outbox = {EventOf(c)}

\* What the step of a request says of its rows.
RowsOfStep(c, rows) ==
    IF c.step = "idle" THEN rows = NoRows
    ELSE IF c.step \in {"record", "commit"} THEN Whole(c, rows) ELSE Partial(c, rows)

StepsEarned == \A r \in Requests : RowsOfStep(request[r], txn[r])

\* An id is given to one request, and to one submission that is stored.
IdsApart ==
    /\ \A s \in db.submissions : s.id <= tried
    /\ \A r \in Requests : ~At(r, "idle") =>
          /\ request[r].id \in 1..tried
          /\ \A s \in db.submissions : s.id # request[r].id
          /\ \A q \in Requests \ {r} : ~At(q, "idle") => request[q].id # request[r].id

\* A key or a version that a transaction has inserted is neither stored nor
\* inserted by another.
KeyApart(r, e) ==
    /\ \A f \in db.outbox : f.key # e.key
    /\ \A q \in Requests \ {r} : \A f \in txn[q].outbox : f.key # e.key

VersionApart(r, s) ==
    /\ \A t \in db.strategies : t.version # s.version
    /\ \A q \in Requests \ {r} : \A t \in txn[q].strategies : t.version # s.version

KeysApart == \A r \in Requests : \A e \in txn[r].outbox : KeyApart(r, e)

VersionsApart == \A r \in Requests : \A s \in txn[r].strategies : VersionApart(r, s)

\* The safety properties of what is committed, and what keeps them at a commit.
IInv ==
    /\ TypeOK
    /\ StepsEarned /\ IdsApart /\ KeysApart /\ VersionsApart
    /\ CommittedIsAnalyzed /\ OncePerKey /\ StrategyVersionsDiffer

-----------------------------------------------------------------------------
(* Rows *)

\* The rows of a step are rows; an idle request has none.
LEMMA NoRowsAreRows == NoRows \in Rows
  BY DEF NoRows, Rows

\* Any step's rows hold at most the request's own event and strategy.
LEMMA OnlyOwnRows ==
    ASSUME NEW c, NEW rows, RowsOfStep(c, rows)
    PROVE  /\ rows.outbox \subseteq {EventOf(c)}
           /\ \A s \in rows.strategies : s.submission = c.id
           /\ \A s, t \in rows.strategies : s = t
  <1>1. CASE c.step = "idle"
    BY <1>1 DEF RowsOfStep, NoRows
  <1>2. CASE c.step \in {"record", "commit"}
    <2>1. PICK status \in AnalysisStatus :
              /\ rows.outbox = {EventOf(c)}
              /\ rows.strategies = IF status = "failed" THEN {}
                                   ELSE {[version |-> c.version, submission |-> c.id,
                                          partial |-> status = "partial"]}
      BY <1>2 DEF RowsOfStep, Whole
    <2> QED
      BY <2>1
  <1>3. CASE c.step \notin {"idle", "record", "commit"}
    BY <1>3 DEF RowsOfStep, Partial
  <1> QED
    BY <1>1, <1>2, <1>3

\* A process starts, again, with empty dictionaries.
LEMMA RestartedIsMemory == Restarted \in Memory
  BY LimitAssumption DEF Restarted, Memory

\* The state of a request that handles nothing.
LEMMA RestIsWorking == Rest \in Working /\ Rest.step = "idle"
  BY ProcessesAssumption, KeysAssumption, LimitAssumption DEF Rest, Working, Steps

-----------------------------------------------------------------------------
(* Steps of one request *)

\* A request in hand goes on: it keeps its id and its key, its rows are those of
\* its new step, and what it has inserted is apart from everything else.
LEMMA OwnStepKeeps ==
    ASSUME IInv, NEW r \in Requests, ~At(r, "idle"),
           NEW c \in Working, NEW rows \in Rows,
           request' = [request EXCEPT ![r] = c],
           txn' = [txn EXCEPT ![r] = rows],
           c.step # "idle", c.id = request[r].id, c.key = request[r].key,
           RowsOfStep(c, rows),
           \A e \in rows.outbox : KeyApart(r, e),
           \A s \in rows.strategies : VersionApart(r, s),
           memory' \in [Processes -> Memory],
           UNCHANGED <<db, tried>>
    PROVE  IInv'
  <1> USE DEF IInv
  <1>1. TypeOK'
    BY DEF TypeOK, At
  <1>2. /\ \A q \in Requests \ {r} : request'[q] = request[q] /\ txn'[q] = txn[q]
        /\ request'[r] = c /\ txn'[r] = rows
    BY DEF TypeOK
  <1>3. StepsEarned'
    BY <1>2 DEF StepsEarned
  <1>4. IdsApart'
    BY <1>2 DEF IdsApart, At
  <1>5. KeysApart'
    BY <1>2 DEF KeysApart, KeyApart
  <1>6. VersionsApart'
    BY <1>2 DEF VersionsApart, VersionApart
  <1>7. CommittedIsAnalyzed' /\ OncePerKey' /\ StrategyVersionsDiffer'
    BY DEF CommittedIsAnalyzed, OncePerKey, StrategyVersionsDiffer
  <1> QED
    BY <1>1, <1>3, <1>4, <1>5, <1>6, <1>7

\* Requests end, and what they have not committed is forgotten.
LEMMA EndingKeeps ==
    ASSUME IInv, NEW ended \in SUBSET Requests,
           request' = [r \in Requests |-> IF r \in ended THEN Rest ELSE request[r]],
           txn' = [r \in Requests |-> IF r \in ended THEN NoRows ELSE txn[r]],
           memory' \in [Processes -> Memory],
           UNCHANGED <<db, tried>>
    PROVE  IInv'
  <1> USE DEF IInv
  <1>1. TypeOK'
    BY NoRowsAreRows, RestIsWorking DEF TypeOK, At
  <1>2. /\ \A q \in Requests \ ended : request'[q] = request[q] /\ txn'[q] = txn[q]
        /\ \A q \in ended : request'[q].step = "idle" /\ txn'[q] = NoRows
    BY RestIsWorking
  <1>3. StepsEarned'
    BY <1>2 DEF StepsEarned, RowsOfStep
  <1>4. IdsApart'
    BY <1>2 DEF IdsApart, At
  <1>5. KeysApart'
    BY <1>2 DEF KeysApart, KeyApart, NoRows
  <1>6. VersionsApart'
    BY <1>2 DEF VersionsApart, VersionApart, NoRows
  <1>7. CommittedIsAnalyzed' /\ OncePerKey' /\ StrategyVersionsDiffer'
    BY DEF CommittedIsAnalyzed, OncePerKey, StrategyVersionsDiffer
  <1> QED
    BY <1>1, <1>3, <1>4, <1>5, <1>6, <1>7

-----------------------------------------------------------------------------
(* One lemma per action *)

\* What is known of a request that is in hand.
LEMMA InHand ==
    ASSUME IInv, NEW r \in Requests, ~At(r, "idle")
    PROVE  /\ request[r] \in Working /\ txn[r] \in Rows
           /\ request[r].id \in Ids /\ request[r].key \in Keys
           /\ RowsOfStep(request[r], txn[r])
           /\ \A e \in txn[r].outbox : KeyApart(r, e)
           /\ \A s \in txn[r].strategies : VersionApart(r, s)
  <1>1. request[r] \in Working /\ txn[r] \in Rows
    BY DEF IInv, TypeOK
  <1>2. request[r].id \in 1..tried /\ tried \in 0..MaxSubmissions
    BY DEF IInv, IdsApart, TypeOK
  <1>3. request[r].id \in Ids
    BY <1>2, LimitAssumption DEF Ids
  <1> QED
    BY <1>1, <1>3 DEF IInv, StepsEarned, KeysApart, VersionsApart, Working

LEMMA CreateUploadIntentKeeps ==
    ASSUME IInv, NEW p \in Processes, NEW k \in Keys, CreateUploadIntent(p, k)
    PROVE  IInv'
  <1>1. memory' \in [Processes -> Memory]
    BY DEF CreateUploadIntent, IInv, TypeOK, Memory
  <1> DEFINE none == {}
  <1>2. request' = [r \in Requests |-> IF r \in none THEN Rest ELSE request[r]]
        /\ txn' = [r \in Requests |-> IF r \in none THEN NoRows ELSE txn[r]]
    BY DEF CreateUploadIntent, IInv, TypeOK
  <1>3. UNCHANGED <<db, tried>> /\ none \in SUBSET Requests
    BY DEF CreateUploadIntent
  <1> HIDE DEF none
  <1> QED
    BY <1>1, <1>2, <1>3, EndingKeeps

\* A new submission takes an id that nobody has.
LEMMA RegisterKeeps ==
    ASSUME IInv, NEW r \in Requests, NEW p \in Processes, NEW k \in Keys, Register(r, p, k)
    PROVE  IInv'
  <1> DEFINE c == [request[r] EXCEPT !.step = "dispatch", !.process = p, !.key = k, !.id = tried + 1]
             rows == [txn[r] EXCEPT !.submissions =
                         {[id |-> tried + 1, key |-> k, status |-> "received"]}]
  <1>1. /\ request' = [request EXCEPT ![r] = c]
        /\ txn' = [txn EXCEPT ![r] = rows]
        /\ tried' = tried + 1
        /\ UNCHANGED <<db, memory>>
    BY DEF Register
  <1>2. tried + 1 \in Ids /\ tried \in Nat /\ tried' \in 0..MaxSubmissions
    BY <1>1, LimitAssumption DEF Register, IInv, TypeOK, Ids
  <1>3. request \in [Requests -> Working] /\ txn \in [Requests -> Rows] /\ txn[r] = NoRows
    BY DEF Register, IInv, TypeOK
  <1>4. /\ c.step = "dispatch" /\ c.id = tried + 1 /\ c.key = k
        /\ c \in Working
    <2>1. request[r] \in Working
      BY <1>3
    <2>2. tried + 1 \in 0..MaxSubmissions /\ "dispatch" \in Steps
      BY <1>2, LimitAssumption DEF Ids, Steps
    <2> QED
      BY <2>1, <2>2 DEF Working
  <1>5. /\ rows.submissions = {Own(c, "received")}
        /\ rows.analyses = {} /\ rows.strategies = {} /\ rows.outbox = {}
    BY <1>3, <1>4 DEF Own, NoRows
  <1>6. [id |-> tried + 1, key |-> k, status |-> "received"] \in Submission
    BY <1>2 DEF Submission, SubmissionStatus
  <1>7. rows \in Rows
    BY <1>3, <1>6 DEF Rows
  <1> HIDE DEF c, rows
  <1>8. RowsOfStep(c, rows)
    BY <1>4, <1>5 DEF RowsOfStep, Partial, SubmissionStatus
  <1>9. /\ \A q \in Requests \ {r} : request'[q] = request[q] /\ txn'[q] = txn[q]
        /\ request'[r] = c /\ txn'[r] = rows
    BY <1>1, <1>3
  <1>10. TypeOK'
    BY <1>1, <1>2, <1>3, <1>4, <1>7, <1>9 DEF IInv, TypeOK, At
  <1>11. StepsEarned'
    BY <1>8, <1>9 DEF IInv, StepsEarned
  <1>12. IdsApart'
    <2>1. \A s \in db.submissions : s.id \in Nat
      BY DEF IInv, TypeOK, Rows, Submission, Ids
    <2> QED
      BY <1>1, <1>2, <1>4, <1>9, <2>1 DEF IInv, IdsApart, At
  <1>13. KeysApart' /\ VersionsApart'
    BY <1>1, <1>5, <1>9 DEF IInv, KeysApart, KeyApart, VersionsApart, VersionApart
  <1>14. CommittedIsAnalyzed' /\ OncePerKey' /\ StrategyVersionsDiffer'
    BY <1>1 DEF IInv, CommittedIsAnalyzed, OncePerKey, StrategyVersionsDiffer
  <1> QED
    BY <1>10, <1>11, <1>12, <1>13, <1>14 DEF IInv

\* The event is added when no other transaction holds the key and it is not stored.
LEMMA DispatchKeeps ==
    ASSUME IInv, NEW r \in Requests, Dispatch(r)
    PROVE  IInv'
  <1>1. ~At(r, "idle") /\ request[r].step = "dispatch"
    BY DEF Dispatch, At
  <1>2. /\ request[r] \in Working /\ txn[r] \in Rows
        /\ request[r].id \in Ids /\ request[r].key \in Keys
        /\ Partial(request[r], txn[r])
        /\ \A e \in txn[r].outbox : KeyApart(r, e)
    BY <1>1, InHand DEF RowsOfStep
  <1>3. memory' \in [Processes -> Memory] /\ UNCHANGED <<db, tried>>
    BY DEF Dispatch, IInv, TypeOK
  <1>4. CASE KeyFree(request[r].key)
    <2> DEFINE c == [request[r] EXCEPT !.step = "handle"]
               rows == [txn[r] EXCEPT !.outbox =
                           {[key |-> request[r].key, submission |-> request[r].id]}]
    <2>1. request' = [request EXCEPT ![r] = c] /\ txn' = [txn EXCEPT ![r] = rows]
      BY <1>4 DEF Dispatch, To
    <2>2. c \in Working /\ c.step = "handle" /\ c.id = request[r].id /\ c.key = request[r].key
      BY <1>2 DEF Working, Steps
    <2>3. EventOf(c) \in Event
      BY <1>2, <2>2 DEF EventOf, Event
    <2>4. /\ rows \in Rows /\ rows.outbox = {EventOf(c)}
          /\ rows.submissions = txn[r].submissions
          /\ rows.analyses = {} /\ rows.strategies = {}
      BY <1>2, <2>2, <2>3 DEF Rows, EventOf, Partial
    <2>5. \E status \in SubmissionStatus : rows.submissions = {Own(c, status)}
      BY <1>2, <2>2, <2>4 DEF Partial, Own
    <2> HIDE DEF c, rows
    <2>6. RowsOfStep(c, rows)
      BY <2>2, <2>4, <2>5 DEF RowsOfStep, Partial
    <2>7. \A e \in rows.outbox : KeyApart(r, e)
      BY <1>4, <2>2, <2>4 DEF Dispatch, KeyFree, KeyWaits, KeyApart, EventOf
    <2> QED
      BY <1>1, <1>3, <2>1, <2>2, <2>4, <2>6, <2>7, OwnStepKeeps
  <1>5. CASE ~KeyFree(request[r].key)
    <2> DEFINE c == [request[r] EXCEPT !.step = "refused"]
    <2>1. request' = [request EXCEPT ![r] = c] /\ txn' = [txn EXCEPT ![r] = txn[r]]
      BY <1>5 DEF Dispatch, To, IInv, TypeOK
    <2>2. c \in Working /\ c.step = "refused" /\ c.id = request[r].id /\ c.key = request[r].key
      BY <1>2 DEF Working, Steps
    <2> HIDE DEF c
    <2>3. RowsOfStep(c, txn[r]) /\ txn[r].strategies = {}
      BY <1>2, <2>2 DEF RowsOfStep, Partial, Own, EventOf
    <2> QED
      BY <1>1, <1>2, <1>3, <2>1, <2>2, <2>3, OwnStepKeeps
  <1> QED
    BY <1>4, <1>5

\* A request that has its event goes on to another step with its rows, but for
\* the status of its submission.
LEMMA AnalyzingKeeps ==
    ASSUME IInv, NEW r \in Requests,
           request[r].step \in {"handle", "process", "keep", "strategy"},
           NEW c \in Working,
           c.step \in {"process", "keep", "strategy", "refused", "failed"},
           c.id = request[r].id, c.key = request[r].key,
           NEW rows \in {txn[r], WithStatus(txn[r], r, "analyzing")},
           request' = [request EXCEPT ![r] = c],
           txn' = [txn EXCEPT ![r] = rows],
           memory' \in [Processes -> Memory],
           UNCHANGED <<db, tried>>
    PROVE  IInv'
  <1>1. ~At(r, "idle")
    BY DEF At
  <1>2. /\ txn[r] \in Rows
        /\ request[r].id \in Ids /\ request[r].key \in Keys
        /\ Partial(request[r], txn[r])
        /\ \A e \in txn[r].outbox : KeyApart(r, e)
    BY <1>1, InHand DEF RowsOfStep
  <1>3. Own(request[r], "analyzing") \in Submission
    BY <1>2 DEF Own, Submission, SubmissionStatus
  <1>4. /\ rows \in Rows
        /\ rows.outbox = txn[r].outbox /\ rows.analyses = {} /\ rows.strategies = {}
        /\ \/ rows.submissions = txn[r].submissions
           \/ rows.submissions = {Own(request[r], "analyzing")}
    BY <1>2, <1>3 DEF WithStatus, Rows, Partial, Own
  <1>5. \E status \in SubmissionStatus : rows.submissions = {Own(c, status)}
    BY <1>2, <1>4 DEF Partial, Own, SubmissionStatus
  <1>6. rows.outbox = {EventOf(c)}
    BY <1>2, <1>4 DEF Partial, EventOf
  <1>7. RowsOfStep(c, rows)
    BY <1>4, <1>5, <1>6 DEF RowsOfStep, Partial
  <1> QED
    BY <1>1, <1>2, <1>4, <1>7, OwnStepKeeps

\* Dictionaries with an entry more, or another counter, are dictionaries.
LEMMA MemoryEntry ==
    ASSUME TypeOK, NEW p \in Processes, NEW k \in Keys, NEW id \in Ids, NEW v \in Nat
    PROVE  /\ [memory EXCEPT ![p].jobs[k] = id] \in [Processes -> Memory]
           /\ [memory EXCEPT ![p].replies[k] = id] \in [Processes -> Memory]
           /\ [memory EXCEPT ![p].versions = v] \in [Processes -> Memory]
  <1>1. memory \in [Processes -> Memory] /\ memory[p] \in Memory
    BY DEF TypeOK
  <1>2. id \in 0..MaxSubmissions
    BY LimitAssumption DEF Ids
  <1>3. /\ [memory[p] EXCEPT !.jobs[k] = id] \in Memory
        /\ [memory[p] EXCEPT !.replies[k] = id] \in Memory
        /\ [memory[p] EXCEPT !.versions = v] \in Memory
    BY <1>1, <1>2 DEF Memory
  <1> QED
    BY <1>1, <1>3

LEMMA HandleKeeps ==
    ASSUME IInv, NEW r \in Requests, Handle(r)
    PROVE  IInv'
  <1>1. request[r].step = "handle" /\ ~At(r, "idle")
    BY DEF Handle, At
  <1>2. /\ request[r] \in Working /\ request[r].process \in Processes
        /\ request[r].id \in Ids /\ request[r].key \in Keys
    BY <1>1, InHand DEF Working
  <1>3. memory' \in [Processes -> Memory]
    <2>1. \/ memory' = memory
          \/ memory' = [memory EXCEPT ![request[r].process].jobs[request[r].key] = request[r].id]
      BY DEF Handle
    <2>2. TypeOK /\ memory \in [Processes -> Memory] /\ 0 \in Nat
      BY DEF IInv, TypeOK
    <2>3. [memory EXCEPT ![request[r].process].jobs[request[r].key] = request[r].id]
              \in [Processes -> Memory]
      BY <1>2, <2>2, MemoryEntry
    <2> QED
      BY <2>1, <2>2, <2>3
  <1>4. PICK s \in {"process", "refused"} : request' = [request EXCEPT ![r].step = s]
    BY DEF Handle, To
  <1> DEFINE c == [request[r] EXCEPT !.step = s]
  <1>5. request' = [request EXCEPT ![r] = c]
    BY <1>4
  <1>6. c \in Working /\ c.step = s /\ c.id = request[r].id /\ c.key = request[r].key
    BY <1>2 DEF Working, Steps
  <1>7. txn' = [txn EXCEPT ![r] = WithStatus(txn[r], r, "analyzing")] /\ UNCHANGED <<db, tried>>
    BY DEF Handle
  <1> HIDE DEF c
  <1> QED
    BY <1>1, <1>3, <1>5, <1>6, <1>7, AnalyzingKeeps

LEMMA ProcessKeeps ==
    ASSUME IInv, NEW r \in Requests, Process(r)
    PROVE  IInv'
  <1>1. request[r].step = "process" /\ ~At(r, "idle")
    BY DEF Process, At
  <1>2. request[r] \in Working /\ request[r].process \in Processes
    BY <1>1, InHand DEF Working
  <1>3. /\ memory \in [Processes -> Memory] /\ txn \in [Requests -> Rows]
        /\ Its(r).versions + 1 \in Nat
    BY <1>2 DEF IInv, TypeOK, Memory, Its
  <1>4. PICK partial \in MayBePartial(request[r].key) :
            request' = [request EXCEPT ![r] =
                [@ EXCEPT !.step = "keep", !.version = Its(r).versions + 1, !.partial = partial]]
    BY DEF Process
  <1> DEFINE c == [request[r] EXCEPT !.step = "keep", !.version = Its(r).versions + 1,
                                     !.partial = partial]
  <1>5. request' = [request EXCEPT ![r] = c]
    BY <1>4
  <1>6. partial \in BOOLEAN
    BY DEF MayBePartial
  <1>7. c \in Working /\ c.step = "keep" /\ c.id = request[r].id /\ c.key = request[r].key
    BY <1>2, <1>3, <1>6 DEF Working, Steps
  <1>8. txn' = [txn EXCEPT ![r] = txn[r]] /\ UNCHANGED <<db, memory, tried>>
    BY <1>3 DEF Process
  <1> HIDE DEF c
  <1> QED
    BY <1>1, <1>3, <1>5, <1>7, <1>8, AnalyzingKeeps

LEMMA ProcessFailsKeeps ==
    ASSUME IInv, NEW r \in Requests, ProcessFails(r)
    PROVE  IInv'
  <1>1. request[r].step = "process" /\ ~At(r, "idle")
    BY DEF ProcessFails, At
  <1>2. request[r] \in Working
    BY <1>1, InHand
  <1> DEFINE c == [request[r] EXCEPT !.step = "failed"]
  <1>3. c \in Working /\ c.step = "failed" /\ c.id = request[r].id /\ c.key = request[r].key
    BY <1>2 DEF Working, Steps
  <1>4. /\ request' = [request EXCEPT ![r] = c] /\ txn' = [txn EXCEPT ![r] = txn[r]]
        /\ UNCHANGED <<db, tried>> /\ memory' \in [Processes -> Memory]
    BY DEF ProcessFails, To, IInv, TypeOK
  <1> HIDE DEF c
  <1> QED
    BY <1>1, <1>3, <1>4, AnalyzingKeeps

LEMMA KeepVersionKeeps ==
    ASSUME IInv, NEW r \in Requests, KeepVersion(r)
    PROVE  IInv'
  <1>1. request[r].step = "keep" /\ ~At(r, "idle")
    BY DEF KeepVersion, At
  <1>2. /\ request[r] \in Working /\ request[r].process \in Processes
        /\ request[r].version \in Nat /\ request[r].id \in Ids /\ request[r].key \in Keys
    BY <1>1, InHand DEF Working
  <1> DEFINE c == [request[r] EXCEPT !.step = "strategy"]
  <1>3. c \in Working /\ c.step = "strategy" /\ c.id = request[r].id /\ c.key = request[r].key
    BY <1>2 DEF Working, Steps
  <1>4. memory' \in [Processes -> Memory]
    BY <1>2, MemoryEntry DEF KeepVersion, IInv
  <1>5. /\ request' = [request EXCEPT ![r] = c] /\ txn' = [txn EXCEPT ![r] = txn[r]]
        /\ UNCHANGED <<db, tried>>
    BY DEF KeepVersion, To, IInv, TypeOK
  <1> HIDE DEF c
  <1> QED
    BY <1>1, <1>3, <1>4, <1>5, AnalyzingKeeps

\* An analysis that failed for good is complete without a strategy.
LEMMA ProcessRejectsKeeps ==
    ASSUME IInv, NEW r \in Requests, ProcessRejects(r)
    PROVE  IInv'
  <1>1. request[r].step = "process" /\ ~At(r, "idle")
    BY DEF ProcessRejects, At
  <1>2. /\ request[r] \in Working /\ txn[r] \in Rows
        /\ request[r].id \in Ids /\ request[r].key \in Keys
        /\ Partial(request[r], txn[r])
        /\ \A e \in txn[r].outbox : KeyApart(r, e)
    BY <1>1, InHand DEF RowsOfStep
  <1> DEFINE c == [request[r] EXCEPT !.step = "record"]
             rows == Analyzed(txn[r], r, "failed")
  <1>3. c \in Working /\ c.step = "record" /\ c.id = request[r].id /\ c.key = request[r].key
    BY <1>2 DEF Working, Steps
  <1>4. /\ Own(c, "failed") \in Submission
        /\ [submission |-> c.id, status |-> "failed"] \in Analysis
    BY <1>2, <1>3 DEF Own, Submission, Analysis, SubmissionStatus, AnalysisStatus
  <1>5. /\ rows.submissions = {Own(c, "failed")}
        /\ rows.analyses = {[submission |-> c.id, status |-> "failed"]}
        /\ rows.strategies = {} /\ rows.outbox = txn[r].outbox
        /\ rows \in Rows
    BY <1>2, <1>3, <1>4 DEF Analyzed, WithStatus, Own, Rows, Partial
  <1>6. rows.outbox = {EventOf(c)}
    BY <1>1, <1>2, <1>3, <1>5 DEF Partial, EventOf
  <1>7. /\ request' = [request EXCEPT ![r] = c] /\ txn' = [txn EXCEPT ![r] = rows]
        /\ UNCHANGED <<db, tried>> /\ memory' \in [Processes -> Memory]
    BY DEF ProcessRejects, To, IInv, TypeOK
  <1> HIDE DEF c, rows
  <1>8. RowsOfStep(c, rows)
    BY <1>3, <1>5, <1>6 DEF RowsOfStep, Whole, AnalysisStatus
  <1> QED
    BY <1>1, <1>2, <1>3, <1>5, <1>7, <1>8, OwnStepKeeps

\* The strategy is added when no other transaction holds its version and it is not stored.
LEMMA AddStrategyKeeps ==
    ASSUME IInv, NEW r \in Requests, AddStrategy(r)
    PROVE  IInv'
  <1>1. request[r].step = "strategy" /\ ~At(r, "idle")
    BY DEF AddStrategy, At
  <1>2. /\ request[r] \in Working /\ txn[r] \in Rows
        /\ request[r].id \in Ids /\ request[r].key \in Keys
        /\ request[r].version \in Nat /\ request[r].partial \in BOOLEAN
        /\ Partial(request[r], txn[r])
        /\ \A e \in txn[r].outbox : KeyApart(r, e)
    BY <1>1, InHand DEF RowsOfStep, Working
  <1>3. memory' \in [Processes -> Memory] /\ UNCHANGED <<db, tried>>
    BY DEF AddStrategy, IInv, TypeOK
  <1>4. CASE VersionFree(request[r].version)
    <2> DEFINE status == Outcome(request[r].partial)
               strategy == [version |-> request[r].version, submission |-> request[r].id,
                            partial |-> request[r].partial]
               c == [request[r] EXCEPT !.step = "record"]
               rows == [Analyzed(txn[r], r, status) EXCEPT !.strategies = {strategy}]
    <2>1. request' = [request EXCEPT ![r] = c] /\ txn' = [txn EXCEPT ![r] = rows]
      BY <1>4 DEF AddStrategy, To
    <2>2. /\ c \in Working /\ c.step = "record" /\ c.id = request[r].id
          /\ c.key = request[r].key /\ c.version = request[r].version
      BY <1>2 DEF Working, Steps
    <2>3. /\ status \in AnalysisStatus /\ status # "failed"
          /\ request[r].partial = (status = "partial")
      BY <1>2 DEF Outcome, AnalysisStatus
    <2>4. /\ Own(c, status) \in Submission
          /\ [submission |-> c.id, status |-> status] \in Analysis
          /\ strategy \in Strategy
      BY <1>2, <2>2, <2>3 DEF Own, Submission, Analysis, Strategy, SubmissionStatus, AnalysisStatus
    <2> HIDE DEF status
    <2>5. /\ rows.submissions = {Own(c, status)}
          /\ rows.analyses = {[submission |-> c.id, status |-> status]}
          /\ rows.strategies = {strategy} /\ rows.outbox = txn[r].outbox
          /\ rows \in Rows
      BY <1>2, <2>2, <2>4 DEF Analyzed, WithStatus, Own, Rows
    <2>6. rows.outbox = {EventOf(c)}
      BY <1>1, <1>2, <2>2, <2>5 DEF Partial, EventOf
    <2>7. strategy = [version |-> c.version, submission |-> c.id, partial |-> status = "partial"]
      BY <2>2, <2>3
    <2>8. strategy.version = request[r].version
      OBVIOUS
    <2> HIDE DEF c, rows, strategy
    <2>9. RowsOfStep(c, rows)
      BY <2>2, <2>3, <2>5, <2>6, <2>7 DEF RowsOfStep, Whole
    <2>10. \A s \in rows.strategies : VersionApart(r, s)
      BY <1>4, <2>5, <2>8 DEF AddStrategy, VersionFree, VersionWaits, VersionApart
    <2> QED
      BY <1>1, <1>2, <1>3, <2>1, <2>2, <2>5, <2>9, <2>10, OwnStepKeeps
  <1>5. CASE ~VersionFree(request[r].version)
    <2> DEFINE c == [request[r] EXCEPT !.step = "failed"]
    <2>1. request' = [request EXCEPT ![r] = c] /\ txn' = [txn EXCEPT ![r] = txn[r]]
      BY <1>5 DEF AddStrategy, To, IInv, TypeOK
    <2>2. c \in Working /\ c.step = "failed" /\ c.id = request[r].id /\ c.key = request[r].key
      BY <1>2 DEF Working, Steps
    <2> HIDE DEF c
    <2> QED
      BY <1>1, <1>3, <2>1, <2>2, AnalyzingKeeps
  <1> QED
    BY <1>4, <1>5

LEMMA RecordReplyKeeps ==
    ASSUME IInv, NEW r \in Requests, RecordReply(r)
    PROVE  IInv'
  <1>1. request[r].step = "record" /\ ~At(r, "idle")
    BY DEF RecordReply, At
  <1>2. /\ request[r] \in Working /\ request[r].process \in Processes /\ txn[r] \in Rows
        /\ request[r].id \in Ids /\ request[r].key \in Keys
        /\ Whole(request[r], txn[r])
        /\ \A e \in txn[r].outbox : KeyApart(r, e)
        /\ \A s \in txn[r].strategies : VersionApart(r, s)
    BY <1>1, InHand DEF RowsOfStep, Working
  <1> DEFINE c == [request[r] EXCEPT !.step = "commit"]
  <1>3. /\ c \in Working /\ c.step = "commit" /\ c.id = request[r].id
        /\ c.key = request[r].key /\ c.version = request[r].version
    BY <1>2 DEF Working, Steps
  <1>4. memory' \in [Processes -> Memory]
    <2>1. 0 \in Nat /\ TypeOK
      BY DEF IInv
    <2> QED
      BY <1>2, <2>1, MemoryEntry DEF RecordReply
  <1>5. /\ request' = [request EXCEPT ![r] = c] /\ txn' = [txn EXCEPT ![r] = txn[r]]
        /\ UNCHANGED <<db, tried>>
    BY DEF RecordReply, To, IInv, TypeOK
  <1> HIDE DEF c
  <1>6. RowsOfStep(c, txn[r])
    BY <1>2, <1>3 DEF RowsOfStep, Whole, Own, EventOf
  <1> QED
    BY <1>1, <1>2, <1>3, <1>4, <1>5, <1>6, OwnStepKeeps

\* What a whole transaction adds keeps everything that is committed as it was.
LEMMA CommittedAnalyzedKeeps ==
    ASSUME IInv, NEW r \in Requests, ~At(r, "idle"), Whole(request[r], txn[r]),
           db' = Both(db, txn[r])
    PROVE  CommittedIsAnalyzed'
  <1> DEFINE c == request[r]
             PartialOf(strategies, id) == {t.partial : t \in {t \in strategies : t.submission = id}}
             PartialFor(status) == {partial \in BOOLEAN : status = Outcome(partial)}
  <1>1. PICK status \in AnalysisStatus :
            /\ txn[r].submissions = {Own(c, status)}
            /\ txn[r].analyses = {[submission |-> c.id, status |-> status]}
            /\ txn[r].outbox = {EventOf(c)}
            /\ txn[r].strategies = IF status = "failed" THEN {}
                                   ELSE {[version |-> c.version, submission |-> c.id,
                                          partial |-> status = "partial"]}
    BY DEF Whole
  <1>2. /\ db'.submissions = db.submissions \cup txn[r].submissions
        /\ db'.analyses = db.analyses \cup txn[r].analyses
        /\ db'.strategies = db.strategies \cup txn[r].strategies
        /\ db'.outbox = db.outbox \cup txn[r].outbox
    BY DEF Both
  <1>3. /\ \A x \in txn[r].analyses \cup txn[r].strategies \cup txn[r].outbox :
              x.submission = c.id
        /\ \A s \in db.submissions : s.id # c.id
    BY <1>1 DEF EventOf, IInv, IdsApart
  <1>4. \A x \in db.outbox \cup db.analyses \cup db.strategies :
            \E s \in db.submissions : s.id = x.submission
    BY DEF IInv, CommittedIsAnalyzed
  <1>5. \A x \in db.outbox \cup db.analyses \cup db.strategies : x.submission # c.id
    BY <1>3, <1>4
  <1>6. ASSUME NEW s \in db.submissions
        PROVE  /\ s.status \in AnalysisStatus
               /\ [key |-> s.key, submission |-> s.id] \in db'.outbox
               /\ {a \in db'.analyses : a.submission = s.id}
                     = {[submission |-> s.id, status |-> s.status]}
               /\ PartialOf(db'.strategies, s.id) = PartialFor(s.status)
    <2>1. /\ s.status \in AnalysisStatus
          /\ [key |-> s.key, submission |-> s.id] \in db.outbox
          /\ {a \in db.analyses : a.submission = s.id} = {[submission |-> s.id, status |-> s.status]}
          /\ PartialOf(db.strategies, s.id) = PartialFor(s.status)
      BY DEF IInv, CommittedIsAnalyzed
    <2>2. {a \in db'.analyses : a.submission = s.id} = {a \in db.analyses : a.submission = s.id}
      BY <1>2, <1>3
    <2>3. {t \in db'.strategies : t.submission = s.id} = {t \in db.strategies : t.submission = s.id}
      BY <1>2, <1>3
    <2> QED
      BY <1>2, <2>1, <2>2, <2>3
  <1>7. LET s == Own(c, status)
        IN  /\ s.status \in AnalysisStatus
            /\ [key |-> s.key, submission |-> s.id] \in db'.outbox
            /\ {a \in db'.analyses : a.submission = s.id}
                  = {[submission |-> s.id, status |-> s.status]}
            /\ PartialOf(db'.strategies, s.id) = PartialFor(s.status)
    <2>1. Own(c, status).id = c.id /\ Own(c, status).key = c.key /\ Own(c, status).status = status
      BY DEF Own
    <2>2. [key |-> c.key, submission |-> c.id] \in db'.outbox
      BY <1>1, <1>2 DEF EventOf
    <2>3. {a \in db'.analyses : a.submission = c.id} = {[submission |-> c.id, status |-> status]}
      BY <1>1, <1>2, <1>5
    <2>4. {t \in db'.strategies : t.submission = c.id} = txn[r].strategies
      BY <1>2, <1>3, <1>5
    <2>5. PartialOf(db'.strategies, c.id) = {t.partial : t \in txn[r].strategies}
      BY <2>4
    <2>6. {t.partial : t \in txn[r].strategies} = PartialFor(status)
      <3>1. CASE status = "failed"
        BY <1>1, <3>1 DEF Outcome
      <3>2. CASE status # "failed"
        <4>1. {t.partial : t \in txn[r].strategies} = {status = "partial"}
          BY <1>1, <3>2
        <4>2. PartialFor(status) = {status = "partial"}
          BY <3>2 DEF Outcome, AnalysisStatus
        <4> QED
          BY <4>1, <4>2
      <3> QED
        BY <3>1, <3>2
    <2> QED
      BY <2>1, <2>2, <2>3, <2>5, <2>6
  <1>8. \A x \in db'.outbox \cup db'.analyses \cup db'.strategies :
            \E s \in db'.submissions : s.id = x.submission
    <2>1. Own(c, status) \in db'.submissions /\ Own(c, status).id = c.id
      BY <1>1, <1>2 DEF Own
    <2> QED
      BY <1>2, <1>3, <1>4, <2>1
  <1>9. \A s \in db'.submissions : s \in db.submissions \/ s = Own(c, status)
    BY <1>1, <1>2
  <1> QED
    BY <1>6, <1>7, <1>8, <1>9 DEF CommittedIsAnalyzed

\* A commit adds a whole transaction, whose key and version are nobody else's.
LEMMA CommitKeeps ==
    ASSUME IInv, NEW r \in Requests, Commit(r)
    PROVE  IInv'
  <1>1. request[r].step = "commit" /\ ~At(r, "idle")
    BY DEF Commit, At
  <1>2. /\ request[r] \in Working /\ txn[r] \in Rows
        /\ request[r].id \in Ids
        /\ Whole(request[r], txn[r])
        /\ \A e \in txn[r].outbox : KeyApart(r, e)
        /\ \A s \in txn[r].strategies : VersionApart(r, s)
        /\ \A s, t \in txn[r].strategies : s = t
    BY <1>1, InHand, OnlyOwnRows DEF RowsOfStep
  <1>3. /\ db' = Both(db, txn[r])
        /\ txn' = [txn EXCEPT ![r] = NoRows] /\ request' = [request EXCEPT ![r] = Rest]
        /\ UNCHANGED <<memory, tried>>
    BY DEF Commit, End
  <1>4. /\ db'.submissions = db.submissions \cup txn[r].submissions
        /\ db'.analyses = db.analyses \cup txn[r].analyses
        /\ db'.strategies = db.strategies \cup txn[r].strategies
        /\ db'.outbox = db.outbox \cup txn[r].outbox
    BY <1>3 DEF Both
  <1>5. db \in Rows /\ txn \in [Requests -> Rows] /\ request \in [Requests -> Working]
    BY DEF IInv, TypeOK
  <1>6. /\ \A q \in Requests \ {r} : request'[q] = request[q] /\ txn'[q] = txn[q]
        /\ request'[r] = Rest /\ Rest.step = "idle" /\ txn'[r] = NoRows
    BY <1>3, <1>5, RestIsWorking
  <1>7. PICK status \in AnalysisStatus :
            /\ txn[r].submissions = {Own(request[r], status)}
            /\ txn[r].outbox = {EventOf(request[r])}
    BY <1>2 DEF Whole
  <1>8. TypeOK'
    <2>1. db' \in Rows
      BY <1>2, <1>3, <1>5 DEF Rows, Both
    <2>2. txn' \in [Requests -> Rows] /\ request' \in [Requests -> Working]
      BY <1>3, <1>5, NoRowsAreRows, RestIsWorking
    <2>3. \A q \in Requests : At(q, "idle")' => txn'[q] = NoRows
      BY <1>6 DEF IInv, TypeOK, At
    <2> QED
      BY <1>3, <2>1, <2>2, <2>3 DEF IInv, TypeOK
  <1>9. StepsEarned'
    BY <1>6 DEF IInv, StepsEarned, RowsOfStep
  <1>10. IdsApart'
    <2>1. Own(request[r], status).id = request[r].id /\ request[r].id <= tried
      BY <1>1, <1>2 DEF Own, IInv, IdsApart, TypeOK
    <2>2. \A s \in db'.submissions : s \in db.submissions \/ s.id = request[r].id
      BY <1>4, <1>7, <2>1
    <2>3. \A q \in Requests : ~At(q, "idle")' => q # r /\ ~At(q, "idle")
      BY <1>6 DEF At
    <2> QED
      BY <1>1, <1>3, <1>6, <2>1, <2>2, <2>3 DEF IInv, IdsApart
  <1>11. KeysApart'
    BY <1>4, <1>6 DEF IInv, KeysApart, KeyApart, NoRows
  <1>12. VersionsApart'
    BY <1>4, <1>6 DEF IInv, VersionsApart, VersionApart, NoRows
  <1>13. CommittedIsAnalyzed'
    BY <1>1, <1>2, <1>3, CommittedAnalyzedKeeps
  <1>14. OncePerKey'
    <2>1. Own(request[r], status).key = request[r].key /\ EventOf(request[r]).key = request[r].key
      BY DEF Own, EventOf
    <2>2. \A e \in db.outbox : e.key # request[r].key
      BY <1>2, <1>7, <2>1 DEF KeyApart
    <2>3. \A s \in db.submissions : [key |-> s.key, submission |-> s.id] \in db.outbox
      BY DEF IInv, CommittedIsAnalyzed
    <2>4. \A s \in db.submissions : s.key # request[r].key
      BY <2>2, <2>3
    <2> QED
      BY <1>4, <1>7, <2>1, <2>4 DEF IInv, OncePerKey
  <1>15. StrategyVersionsDiffer'
    BY <1>2, <1>4 DEF IInv, StrategyVersionsDiffer, VersionApart
  <1> QED
    BY <1>8, <1>9, <1>10, <1>11, <1>12, <1>13, <1>14, <1>15 DEF IInv

LEMMA RollbackKeeps ==
    ASSUME IInv, NEW r \in Requests, Rollback(r)
    PROVE  IInv'
  <1> DEFINE ended == {r}
  <1>1. /\ request' = [q \in Requests |-> IF q \in ended THEN Rest ELSE request[q]]
        /\ txn' = [q \in Requests |-> IF q \in ended THEN NoRows ELSE txn[q]]
    BY DEF Rollback, End, Released, IInv, TypeOK
  <1>2. UNCHANGED <<db, tried>> /\ memory' \in [Processes -> Memory]
    BY DEF Rollback, AfterFailure, IInv, TypeOK
  <1>3. ended \in SUBSET Requests
    OBVIOUS
  <1> HIDE DEF ended
  <1> QED
    BY <1>1, <1>2, <1>3, EndingKeeps

LEMMA CrashProcessKeeps ==
    ASSUME IInv, NEW p \in Processes, CrashProcess(p)
    PROVE  IInv'
  <1> DEFINE ended == {r \in Requests : request[r].process = p}
  <1>1. /\ request' = [r \in Requests |-> IF r \in ended THEN Rest ELSE request[r]]
        /\ txn' = [r \in Requests |-> IF r \in ended THEN NoRows ELSE txn[r]]
    BY DEF CrashProcess
  <1>2. UNCHANGED <<db, tried>> /\ memory' \in [Processes -> Memory]
    BY RestartedIsMemory DEF CrashProcess, IInv, TypeOK
  <1>3. ended \in SUBSET Requests
    OBVIOUS
  <1> HIDE DEF ended
  <1> QED
    BY <1>1, <1>2, <1>3, EndingKeeps

-----------------------------------------------------------------------------
(* The invariant *)

LEMMA InitHolds == Init => IInv
  <1> SUFFICES ASSUME Init PROVE IInv
    OBVIOUS
  <1>1. db = NoRows /\ \A r \in Requests : txn[r] = NoRows /\ request[r] = Rest
    BY DEF Init
  <1>2. Rest.step = "idle" /\ Rest \in Working
    BY RestIsWorking
  <1>3. TypeOK
    BY <1>2, NoRowsAreRows, RestartedIsMemory, LimitAssumption DEF Init, TypeOK
  <1>4. StepsEarned /\ IdsApart
    BY <1>1, <1>2 DEF StepsEarned, RowsOfStep, IdsApart, At, NoRows
  <1>5. KeysApart /\ VersionsApart
    BY <1>1 DEF KeysApart, VersionsApart, NoRows
  <1>6. CommittedIsAnalyzed /\ OncePerKey /\ StrategyVersionsDiffer
    BY <1>1 DEF CommittedIsAnalyzed, OncePerKey, StrategyVersionsDiffer, NoRows
  <1> QED
    BY <1>3, <1>4, <1>5, <1>6 DEF IInv

\* The same variables say the same.
LEMMA StutteringKeeps == IInv /\ UNCHANGED vars => IInv'
  BY DEF vars, IInv, TypeOK, At, StepsEarned, IdsApart, KeysApart, KeyApart, VersionsApart,
         VersionApart, CommittedIsAnalyzed, OncePerKey, StrategyVersionsDiffer

LEMMA WorkKeeps ==
    ASSUME IInv, NEW r \in Requests, Work(r)
    PROVE  IInv'
  BY DispatchKeeps, HandleKeeps, ProcessKeeps, ProcessFailsKeeps, ProcessRejectsKeeps,
     KeepVersionKeeps, AddStrategyKeeps, RecordReplyKeeps, CommitKeeps, RollbackKeeps DEF Work

LEMMA NextKeeps == IInv /\ [Next]_vars => IInv'
  <1> SUFFICES ASSUME IInv, [Next]_vars PROVE IInv'
    OBVIOUS
  <1>1. CASE UNCHANGED vars
    BY <1>1, StutteringKeeps
  <1>2. ASSUME NEW p \in Processes, NEW k \in Keys, CreateUploadIntent(p, k) PROVE IInv'
    BY <1>2, CreateUploadIntentKeeps
  <1>3. ASSUME NEW r \in Requests, NEW p \in Processes, NEW k \in Keys, Register(r, p, k)
        PROVE  IInv'
    BY <1>3, RegisterKeeps
  <1>4. ASSUME NEW r \in Requests, Work(r) PROVE IInv'
    BY <1>4, WorkKeeps
  <1>5. ASSUME NEW p \in Processes, CrashProcess(p) PROVE IInv'
    BY <1>5, CrashProcessKeeps
  <1> QED
    BY <1>1, <1>2, <1>3, <1>4, <1>5 DEF Next

-----------------------------------------------------------------------------
(* Theorems *)

\* The inductive invariant holds in every state that concurrent registrations reach
\* (submission_service.register_submission).
THEOREM Inductive == Spec => []IInv
  BY InitHolds, NextKeeps, PTL DEF Spec

\* Every variable keeps its type, and an idle request has no rows.
THEOREM TypeCorrect == Spec => []TypeOK
  <1>1. IInv => TypeOK
    BY DEF IInv
  <1> QED
    BY <1>1, Inductive, PTL

\* A submission is only ever committed with its event, its one analysis and, unless
\* that failed, its one strategy (submission_service.register_submission,
\* analysis_pipeline.execute).
THEOREM CommittedAnalyzed == Spec => []CommittedIsAnalyzed
  <1>1. IInv => CommittedIsAnalyzed
    BY DEF IInv
  <1> QED
    BY <1>1, Inductive, PTL

\* A command that is repeated, at any processes and around restarts, is stored once:
\* the unique outbox key stands in for the memories that do not know of each other.
THEOREM StoredOnce == Spec => []OncePerKey
  <1>1. IInv => OncePerKey
    BY DEF IInv
  <1> QED
    BY <1>1, Inductive, PTL

\* No two stored strategies have one version, whatever the counters in the processes
\* have lost or taken twice (strategy_service).
THEOREM VersionsNeverRepeat == Spec => []StrategyVersionsDiffer
  <1>1. IInv => StrategyVersionsDiffer
    BY DEF IInv
  <1> QED
    BY <1>1, Inductive, PTL

-----------------------------------------------------------------------------
(* What readers are told *)

\* A set of final statuses has more than one member when it has "failed" and another.
LEMMA FailedAmongOthers ==
    ASSUME NEW S \in SUBSET AnalysisStatus, "failed" \in S
    PROVE  /\ S = {"failed"} => ~(Cardinality(S) > 1)
           /\ S # {"failed"} => Cardinality(S) > 1
  <1>1. IsFiniteSet(AnalysisStatus)
    <2>1. IsFiniteSet({})
      BY FS_EmptySet
    <2>2. IsFiniteSet({} \cup {"ready"})
      BY <2>1, FS_AddElement
    <2>3. IsFiniteSet(({} \cup {"ready"}) \cup {"partial"})
      BY <2>2, FS_AddElement
    <2>4. IsFiniteSet((({} \cup {"ready"}) \cup {"partial"}) \cup {"failed"})
      BY <2>3, FS_AddElement
    <2>5. AnalysisStatus = (({} \cup {"ready"}) \cup {"partial"}) \cup {"failed"}
      BY DEF AnalysisStatus
    <2> QED
      BY <2>4, <2>5
  <1>2. IsFiniteSet(S) /\ IsFiniteSet(S \ {"failed"})
    BY <1>1, FS_Subset
  <1>3. /\ Cardinality(S \ {"failed"}) = Cardinality(S) - 1
        /\ Cardinality(S) \in Nat /\ Cardinality(S \ {"failed"}) \in Nat
    BY <1>2, FS_RemoveElement, FS_CardinalityType
  <1>4. Cardinality(S \ {"failed"}) = 0 <=> S \ {"failed"} = {}
    BY <1>2, FS_EmptySet
  <1>5. S \ {"failed"} = {} <=> S = {"failed"}
    OBVIOUS
  <1> QED
    BY <1>3, <1>4, <1>5

\* A stored strategy belongs to a submission that is ready or partial, which has one.
LEMMA StrategyMeansReady ==
    ASSUME CommittedIsAnalyzed
    PROVE  db.strategies # {} <=> {"ready", "partial"} \cap Statuses # {}
  <1>1. ASSUME NEW t \in db.strategies PROVE {"ready", "partial"} \cap Statuses # {}
    <2>1. PICK s \in db.submissions : s.id = t.submission
      BY DEF CommittedIsAnalyzed
    <2>2. t.partial \in {partial \in BOOLEAN : s.status = Outcome(partial)}
      BY <2>1 DEF CommittedIsAnalyzed
    <2>3. s.status \in {"ready", "partial"}
      BY <2>2 DEF Outcome
    <2> QED
      BY <2>1, <2>3 DEF Statuses
  <1>2. ASSUME NEW s \in db.submissions, s.status \in {"ready", "partial"}
        PROVE  db.strategies # {}
    <2>1. PICK partial \in BOOLEAN : s.status = Outcome(partial)
      BY <1>2 DEF Outcome
    <2>2. partial \in {t.partial : t \in {t \in db.strategies : t.submission = s.id}}
      BY <2>1 DEF CommittedIsAnalyzed
    <2> QED
      BY <2>2
  <1> QED
    BY <1>1, <1>2 DEF Statuses

\* The applicant and the other modules are told the same of what is committed, and
\* that the interview can begin exactly when a strategy is stored
\* (submission_service.get_readiness and get_analysis_status).
THEOREM ReadersAgree == Spec => []ReadinessIsTrue
  <1>1. IInv => ReadinessIsTrue
    <2> SUFFICES ASSUME IInv PROVE ReadinessIsTrue
      OBVIOUS
    <2>1. Statuses \in SUBSET AnalysisStatus
      BY DEF IInv, CommittedIsAnalyzed, Statuses
    <2>2. db.strategies # {} <=> {"ready", "partial"} \cap Statuses # {}
      BY StrategyMeansReady DEF IInv
    <2>3. Overall(Statuses) \in {"ready", "partial"} <=> {"ready", "partial"} \cap Statuses # {}
      BY <2>1 DEF Overall, AnalysisStatus
    <2>4. Overall(Statuses) = OverallForModules(Statuses)
      <3>1. CASE "failed" \in Statuses
        BY <2>1, <3>1, FailedAmongOthers DEF Overall, OverallForModules, AnalysisStatus
      <3>2. CASE "failed" \notin Statuses
        BY <2>1, <3>2 DEF Overall, OverallForModules, AnalysisStatus
      <3> QED
        BY <3>1, <3>2
    <2> QED
      BY <2>2, <2>3, <2>4 DEF ReadinessIsTrue, InterviewReady
  <1> QED
    BY <1>1, Inductive, PTL

=============================================================================
