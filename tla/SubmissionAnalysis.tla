-------------------------- MODULE SubmissionAnalysis --------------------------
(***************************************************************************)
(* The submissions of one invitation: registration by idempotency key, the  *)
(* analysis that runs inside the request, and the interview strategy it     *)
(* stores.  A request is one database transaction.  Idempotent replies,     *)
(* upload intents, analysis jobs and the strategy counter live in the memory *)
(* of an API process, which a restart empties and other processes do not    *)
(* share.  A key stands for one command, which clients repeat as it is.     *)
(***************************************************************************)
EXTENDS Naturals, FiniteSets

CONSTANTS
    Processes,        \* API processes
    Requests,         \* what can be handled at a time, by any process
    Keys,             \* the idempotency keys of registrations
    Files,            \* those that register an uploaded file; the others give a public URL
    MaxSubmissions,   \* bound on the registrations that are tried
    Faults            \* which failures may happen

FaultKinds == {"dependency", "content", "commit", "process"}

ASSUME ProcessesAssumption == Processes # {}
ASSUME KeysAssumption == Keys # {} /\ Files \subseteq Keys
ASSUME LimitAssumption == MaxSubmissions \in Nat
ASSUME FaultsAssumption == Faults \subseteq FaultKinds

VARIABLES
    db,        \* the committed rows
    txn,       \* per request: the rows it has added
    memory,    \* per process: what its services keep in dictionaries
    request,   \* per request: what it handles and its next step
    tried      \* how many submission ids were given out

vars == <<db, txn, memory, request, tried>>

-----------------------------------------------------------------------------
SubmissionStatus == {"received", "validating", "analyzing", "ready", "partial", "failed"}

AnalysisStatus == {"ready", "partial", "failed"}

Ids == 1..MaxSubmissions

Submission == [id : Ids, key : Keys, status : SubmissionStatus]
Analysis == [submission : Ids, status : AnalysisStatus]
Strategy == [version : Nat, submission : Ids, partial : BOOLEAN]
Event == [key : Keys, submission : Ids]

Rows == [submissions : SUBSET Submission, analyses : SUBSET Analysis,
         strategies : SUBSET Strategy, outbox : SUBSET Event]

NoRows == [submissions |-> {}, analyses |-> {}, strategies |-> {}, outbox |-> {}]

\* 0 stands for no entry.
Memory == [intents : SUBSET Files, replies : [Keys -> 0..MaxSubmissions],
           jobs : [Keys -> 0..MaxSubmissions], versions : Nat]

Restarted == [intents |-> {}, replies |-> [k \in Keys |-> 0],
              jobs |-> [k \in Keys |-> 0], versions |-> 0]

Steps == {"idle", "dispatch", "handle", "process", "keep", "strategy", "record", "commit",
          "refused", "failed"}

Working == [step : Steps, process : Processes, key : Keys, id : 0..MaxSubmissions,
            version : Nat, partial : BOOLEAN]

\* No command is handled.  The process and the key then mean nothing.
Rest == [step |-> "idle", process |-> CHOOSE p \in Processes : TRUE,
         key |-> CHOOSE k \in Keys : TRUE, id |-> 0, version |-> 0, partial |-> FALSE]

At(r, s) == request[r].step = s

To(r, s) == request' = [request EXCEPT ![r].step = s]

End(r) == request' = [request EXCEPT ![r] = Rest]

Its(r) == memory[request[r].process]

\* The transaction's own submission with another status.
WithStatus(rows, r, status) ==
    [rows EXCEPT !.submissions = {[id |-> request[r].id, key |-> request[r].key, status |-> status]}]

\* add_analysis and _complete_submission.
Analyzed(rows, r, status) ==
    [WithStatus(rows, r, status) EXCEPT
        !.analyses = {[submission |-> request[r].id, status |-> status]}]

Both(a, b) == [submissions |-> a.submissions \cup b.submissions,
               analyses |-> a.analyses \cup b.analyses,
               strategies |-> a.strategies \cup b.strategies,
               outbox |-> a.outbox \cup b.outbox]

\* A unique key that another transaction has inserted and not committed: the
\* insert waits for that transaction to end.
KeyWaits(r) ==
    \E q \in Requests \ {r} : \E e \in txn[q].outbox : e.key = request[r].key

VersionWaits(r) ==
    \E q \in Requests \ {r} : \E s \in txn[q].strategies : s.version = request[r].version

\* The outbox has no such key: what it has belongs to another event.
MutantKeyFree(k) == TRUE

KeyFree(k) == \A e \in db.outbox : e.key # k

VersionFree(v) == \A s \in db.strategies : s.version # v

-----------------------------------------------------------------------------
CreateUploadIntent(p, k) ==
    /\ k \in Files \ memory[p].intents
    /\ memory' = [memory EXCEPT ![p].intents = @ \cup {k}]
    /\ UNCHANGED <<db, txn, request, tried>>

\* _replay: the process remembers a reply, and answers with it.
Known(p, k) == memory[p].replies[k] # 0

\* register_submission up to add_submission; a file's intent must be in memory.
Register(r, p, k) ==
    /\ At(r, "idle")
    /\ tried < MaxSubmissions
    /\ ~Known(p, k)
    /\ k \in Files => k \in memory[p].intents
    /\ tried' = tried + 1
    /\ request' = [request EXCEPT ![r] =
          [@ EXCEPT !.step = "dispatch", !.process = p, !.key = k, !.id = tried + 1]]
    /\ txn' = [txn EXCEPT ![r] =
          [@ EXCEPT !.submissions = {[id |-> tried + 1, key |-> k, status |-> "received"]}]]
    /\ UNCHANGED <<db, memory>>

\* dispatch adds the event.  Its id is new, so that an event stored under the
\* same key is never the same one.  Whether the select or, after a wait, the
\* insert meets it, the request is refused and rolled back.
Dispatch(r) ==
    /\ At(r, "dispatch")
    /\ ~KeyWaits(r)
    /\ IF KeyFree(request[r].key)
       THEN /\ txn' = [txn EXCEPT ![r].outbox =
                  {[key |-> request[r].key, submission |-> request[r].id]}]
            /\ To(r, "handle")
       ELSE UNCHANGED txn /\ To(r, "refused")
    /\ UNCHANGED <<db, memory, tried>>

\* execute up to the job's digest, which holds the submission's id: a job that
\* the process knows under this key is another one, and its attempts are never
\* counted beyond the first.
Handle(r) ==
    /\ At(r, "handle")
    /\ txn' = [txn EXCEPT ![r] = WithStatus(@, r, "analyzing")]
    /\ IF Its(r).jobs[request[r].key] = 0
       THEN /\ memory' = [memory EXCEPT ![request[r].process].jobs[request[r].key] = request[r].id]
            /\ To(r, "process")
       ELSE UNCHANGED memory /\ To(r, "refused")
    /\ UNCHANGED <<db, tried>>

\* _source_references: a public URL gives a partial analysis; a file does so
\* only when no text can be extracted.
MayBePartial(k) == IF k \in Files THEN BOOLEAN ELSE {TRUE}

\* The sources are read, and the next strategy version is taken.
Process(r) ==
    /\ At(r, "process")
    /\ \E partial \in MayBePartial(request[r].key) :
          request' = [request EXCEPT ![r] =
              [@ EXCEPT !.step = "keep", !.version = Its(r).versions + 1, !.partial = partial]]
    /\ UNCHANGED <<db, txn, memory, tried>>

\* The object store or a company snapshot is not available: raised to the client.
ProcessFails(r) ==
    /\ "dependency" \in Faults
    /\ At(r, "process")
    /\ To(r, "failed")
    /\ UNCHANGED <<db, txn, memory, tried>>

\* A failure that is not worth a retry is an outcome, and is stored.
ProcessRejects(r) ==
    /\ "content" \in Faults
    /\ At(r, "process")
    /\ txn' = [txn EXCEPT ![r] = Analyzed(@, r, "failed")]
    /\ To(r, "record")
    /\ UNCHANGED <<db, memory, tried>>

\* Another thread of the process may have taken the same version in between.
KeepVersion(r) ==
    /\ At(r, "keep")
    /\ memory' = [memory EXCEPT ![request[r].process].versions = request[r].version]
    /\ To(r, "strategy")
    /\ UNCHANGED <<db, txn, tried>>

Outcome(partial) == IF partial THEN "partial" ELSE "ready"

\* add_strategy, and the rest of execute.  An integrity error is no outcome.
AddStrategy(r) ==
    /\ At(r, "strategy")
    /\ ~VersionWaits(r)
    /\ IF VersionFree(request[r].version)
       THEN /\ txn' = [txn EXCEPT ![r] =
                  [Analyzed(@, r, Outcome(request[r].partial)) EXCEPT
                      !.strategies = {[version |-> request[r].version,
                                       submission |-> request[r].id,
                                       partial |-> request[r].partial]}]]
            /\ To(r, "record")
       ELSE UNCHANGED txn /\ To(r, "failed")
    /\ UNCHANGED <<db, memory, tried>>

\* The reply is remembered, and sent, before the transaction is committed.
RecordReply(r) ==
    /\ At(r, "record")
    /\ memory' = [memory EXCEPT ![request[r].process].replies[request[r].key] = request[r].id]
    /\ To(r, "commit")
    /\ UNCHANGED <<db, txn, tried>>

Commit(r) ==
    /\ At(r, "commit")
    /\ db' = Both(db, txn[r])
    /\ txn' = [txn EXCEPT ![r] = NoRows]
    /\ End(r)
    /\ UNCHANGED <<memory, tried>>

\* The rows of a request that failed are kept.
MutantAfterFailure(r) == Both(db, txn[r])

AfterFailure(r) == db

\* Locks outlive the transaction.
MutantReleased(r) == txn

Released(r) == [txn EXCEPT ![r] = NoRows]

\* The middleware rolls back when the status is an error, or the commit fails.
Rollback(r) ==
    /\ \/ At(r, "refused") \/ At(r, "failed")
       \/ At(r, "commit") /\ "commit" \in Faults
    /\ db' = AfterFailure(r)
    /\ txn' = Released(r)
    /\ End(r)
    /\ UNCHANGED <<memory, tried>>

\* The process dies, with the transactions of its requests.
CrashProcess(p) ==
    /\ "process" \in Faults
    /\ memory' = [memory EXCEPT ![p] = Restarted]
    /\ txn' = [r \in Requests |-> IF request[r].process = p THEN NoRows ELSE txn[r]]
    /\ request' = [r \in Requests |->
          IF request[r].process = p THEN Rest ELSE request[r]]
    /\ UNCHANGED <<db, tried>>

-----------------------------------------------------------------------------
Init ==
    /\ db = NoRows
    /\ txn = [r \in Requests |-> NoRows]
    /\ memory = [p \in Processes |-> Restarted]
    /\ request = [r \in Requests |-> Rest]
    /\ tried = 0

Work(r) ==
    \/ Dispatch(r) \/ Handle(r) \/ Process(r) \/ ProcessFails(r) \/ ProcessRejects(r)
    \/ KeepVersion(r) \/ AddStrategy(r) \/ RecordReply(r) \/ Commit(r) \/ Rollback(r)

Next ==
    \/ \E p \in Processes, k \in Keys : CreateUploadIntent(p, k)
    \/ \E r \in Requests, p \in Processes, k \in Keys : Register(r, p, k)
    \/ \E r \in Requests : Work(r)
    \/ \E p \in Processes : CrashProcess(p)

Spec == Init /\ [][Next]_vars

\* Threads go on, and a lock wait ends when its holder's transaction ends.
FairSpec == Spec /\ \A r \in Requests : WF_vars(Work(r))

-----------------------------------------------------------------------------
(* What readers of the committed rows conclude *)

Statuses == {s.status : s \in db.submissions}

\* All failed counts as partial.
MutantOverall(statuses) ==
    IF statuses = {} THEN "waiting"
    ELSE IF "analyzing" \in statuses \/ "validating" \in statuses THEN "analyzing"
    ELSE IF "partial" \in statuses \/ "failed" \in statuses THEN "partial"
    ELSE IF statuses = {"ready"} THEN "ready"
    ELSE "analyzing"

\* get_readiness, what the applicant is shown.
Overall(statuses) ==
    IF statuses = {} THEN "waiting"
    ELSE IF "analyzing" \in statuses \/ "validating" \in statuses THEN "analyzing"
    ELSE IF statuses = {"failed"} THEN "failed"
    ELSE IF "partial" \in statuses \/ "failed" \in statuses THEN "partial"
    ELSE IF statuses = {"ready"} THEN "ready"
    ELSE "analyzing"

\* get_analysis_status, what other modules are told.
OverallForModules(statuses) ==
    IF statuses = {} THEN "waiting"
    ELSE IF statuses \subseteq {"ready"} THEN "ready"
    ELSE IF "partial" \in statuses \/ ("failed" \in statuses /\ Cardinality(statuses) > 1)
         THEN "partial"
    ELSE IF statuses = {"failed"} THEN "failed"
    ELSE "analyzing"

InterviewReady == db.strategies # {} /\ Overall(Statuses) \in {"ready", "partial"}

-----------------------------------------------------------------------------
\* The variables have their types, and an idle request has no rows.
TypeOK ==
    /\ db \in Rows
    /\ txn \in [Requests -> Rows]
    /\ memory \in [Processes -> Memory]
    /\ request \in [Requests -> Working]
    /\ tried \in 0..MaxSubmissions
    /\ \A r \in Requests : At(r, "idle") => txn[r] = NoRows

\* A submission is committed with everything that belongs to it and in a final
\* status, however its request was cut off: its event, its one analysis with
\* the same status, and its one strategy unless it failed.  Nothing else is
\* committed.
CommittedIsAnalyzed ==
    /\ \A s \in db.submissions :
          /\ s.status \in AnalysisStatus
          /\ [key |-> s.key, submission |-> s.id] \in db.outbox
          /\ {a \in db.analyses : a.submission = s.id} = {[submission |-> s.id, status |-> s.status]}
          /\ {t.partial : t \in {t \in db.strategies : t.submission = s.id}}
                = {partial \in BOOLEAN : s.status = Outcome(partial)}
    /\ \A x \in db.outbox \cup db.analyses \cup db.strategies :
          \E s \in db.submissions : s.id = x.submission

\* However often a command is repeated, at whatever process and before or after
\* restarts, it is stored once: what the processes forget, the outbox key keeps.
OncePerKey ==
    \A s, t \in db.submissions : s.key = t.key => s = t

\* Counters in several memories never give two stored strategies one version.
StrategyVersionsDiffer ==
    \A s, t \in db.strategies : s.version = t.version => s = t

\* The applicant and the other modules are told the same, and the interview is
\* ready as soon as the analysis is said to be ready or partial, and as soon as
\* there is a strategy: neither is ever told without the other.
ReadinessIsTrue ==
    /\ Overall(Statuses) = OverallForModules(Statuses)
    /\ InterviewReady <=> Overall(Statuses) \in {"ready", "partial"}
    /\ InterviewReady <=> db.strategies # {}

\* Every request ends, whatever it has to wait for.
RequestsEnd == \A r \in Requests : ~At(r, "idle") ~> At(r, "idle")
=============================================================================
