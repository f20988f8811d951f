------------------------------- MODULE Deletion -------------------------------
(***************************************************************************)
(* The deletion of what is kept of one invitation.  An orchestrator asks     *)
(* three owners what they hold and keeps one manifest of targets; an owner   *)
(* deletes a target, looks whether it is gone and answers with a receipt,    *)
(* from which the manifest is updated.  The services are in src; what drives *)
(* them is not, and is external here: a target may be asked for again, and a *)
(* receipt may be late, come again, or be lost with the process.  The        *)
(* applicant may still be active.                                            *)
(***************************************************************************)
EXTENDS FiniteSets, Naturals

CONSTANTS
    Invitation, Consents,   \* rows of company management
    Submissions, Uploads,   \* submission rows, uploads with their originals
    Sessions, Chunks,       \* interview rows, recorded objects
    MaxReceipts             \* receipts on their way at once

VARIABLES
    held,       \* what the stores hold
    intents,    \* uploads that SubmissionObjectStorage knows, in memory
    made,       \* what was ever made: ids are not used again
    manifest,   \* the orchestrator's manifest, in memory
    receipts,   \* receipts that are on their way
    intact      \* the enumeration started clean, and nothing was made since

vars == <<held, intents, made, manifest, receipts, intact>>

-----------------------------------------------------------------------------
(* What is kept *)

Item(store, type, id) == [store |-> store, type |-> type, id |-> id]

Row(type, id) == Item("aurora", type, id)

\* A submission's source reference and its search document have an id of their own.
SourceOf(s) == <<"source", s>>

Original(u) == Item("s3", "submission_original", u)
Document(s) == Item("opensearch", "source", SourceOf(s))
Media(c)    == Item("s3", "recording_object", c)
\* The view of recent turns is kept under the id of its session.
HotView(i)  == Item("dynamodb", "recent_context", i)

Items == {Row("invitation", Invitation)}
            \cup {Row("consent_record", k) : k \in Consents}
            \cup {Row("submission", s) : s \in Submissions}
            \cup {Row("source_reference", SourceOf(s)) : s \in Submissions}
            \cup {Row("interview_session", i) : i \in Sessions}
            \cup {Original(u) : u \in Uploads}
            \cup {Document(s) : s \in Submissions}
            \cup {Media(c) : c \in Chunks}
            \cup {HotView(i) : i \in Sessions}

\* Ids are random: two things have the same only where one is kept under the other's.
ASSUME IdsAssumption ==
    \A a, b \in Items : a.id = b.id /\ a # b =>
        {a.type, b.type} \in {{"interview_session", "recent_context"},
                              {"source_reference", "source"}}

-----------------------------------------------------------------------------
(* The applicant's activity *)

Active == Row("invitation", Invitation) \in held

Make(items) ==
    /\ items \cap made = {}
    /\ held' = held \cup items
    /\ made' = made \cup items
    /\ intact' = FALSE
    /\ UNCHANGED <<intents, manifest, receipts>>

Consent(k) == Active /\ Make({Row("consent_record", k)})

\* The id counts as made, and the signed URL stays with the browser.
CreateIntent(u) ==
    /\ Active
    /\ Original(u) \notin made
    /\ intents' = intents \cup {u}
    /\ made' = made \cup {Original(u)}
    /\ UNCHANGED <<held, manifest, receipts, intact>>

\* The browser puts the object with its URL, which knows nothing of the intent.
Upload(u) ==
    /\ Original(u) \in made
    /\ Original(u) \notin held
    /\ held' = held \cup {Original(u)}
    /\ intact' = FALSE
    /\ UNCHANGED <<intents, made, manifest, receipts>>

\* Nothing in src calls search.index: who does is taken to do it with the submission.
Submit(s) ==
    Active /\ Make({Row("submission", s), Row("source_reference", SourceOf(s)), Document(s)})

Begin(i) == Active /\ Make({Row("interview_session", i)})

Accept(i, c) == Row("interview_session", i) \in held /\ Make({Media(c)})

\* Replaces the view, which may have been deleted before.
Reconcile(i) ==
    /\ Row("interview_session", i) \in held
    /\ HotView(i) \notin held
    /\ held' = held \cup {HotView(i)}
    /\ made' = made \cup {HotView(i)}
    /\ intact' = FALSE
    /\ UNCHANGED <<intents, manifest, receipts>>

-----------------------------------------------------------------------------
(* Enumeration *)

InvitationTargets == {x \in held : x.type \in {"invitation", "consent_record"}}

\* An original is found by its intent, a document by the row of its source.
SubmissionTargets ==
    {x \in held : x.type = "submission"}
        \cup {Original(u) : u \in intents}
        \cup {Document(s) : s \in {r \in Submissions :
                                     Row("source_reference", SourceOf(r)) \in held}}

\* A session stands for its row, its turns, its checkpoints and its chunk rows.
InterviewRows == {x \in held : x.type = "interview_session"}

MutantInterviewTargets ==  \* forgets the views
    InterviewRows \cup {x \in held : x.type = "recording_object"}

InterviewTargets ==
    InterviewRows \cup {x \in held : x.type \in {"recording_object", "recent_context"}}

None == [status |-> "none", of |-> <<>>]

\* The owner of the invitation reads it first, and raises without it.
Enumerate ==
    /\ manifest = None
    /\ Active
    /\ manifest' = [status |-> "pending",
                    of |-> [x \in InvitationTargets \cup SubmissionTargets
                                    \cup InterviewTargets |-> "pending"]]
    /\ intact' = /\ \A u \in Uploads : Original(u) \in held => u \in intents
                 /\ \A r \in receipts : r.id \notin Sessions
    /\ UNCHANGED <<held, intents, made, receipts>>

-----------------------------------------------------------------------------
(* An owner deletes a target and looks whether it is gone *)

Targets == DOMAIN manifest.of

Receipt(x, gone) == [id |-> x.id, gone |-> gone]

\* The receipt may be lost, and then the target be asked for again.
Send(x, gone) ==
    \/ UNCHANGED receipts
    \/ /\ receipts' = receipts \cup {Receipt(x, gone)}
       /\ Cardinality(receipts') <= MaxReceipts

\* What is not there counts as deleted: DELETE ... WHERE and pop(key, None).
Absent(x) ==
    /\ held' = held \ {x}
    /\ Send(x, TRUE)
    /\ UNCHANGED <<intents, made, manifest, intact>>

DeleteCompanyRow(x)   == x.type \in {"invitation", "consent_record"} /\ Absent(x)
DeleteInterviewRow(x) == x.type = "interview_session" /\ Absent(x)
DeleteDocument(x)     == x.type = "source" /\ Absent(x)
DeleteMedia(x)        == x.type = "recording_object" /\ Absent(x)
\* Raises when the view is unavailable, and is asked for again.
DeleteView(x)         == x.type = "recent_context" /\ Absent(x)

\* Raises when the submission is not there; takes its source references along.
DeleteSubmission(x) ==
    /\ x.type = "submission"
    /\ x \in held
    /\ held' = held \ {x, Row("source_reference", SourceOf(x.id))}
    /\ Send(x, TRUE)
    /\ UNCHANGED <<intents, made, manifest, intact>>

MutantDeleteUpload(x) ==  \* takes the store's answer for its success
    /\ x.type = "submission_original"
    /\ x.id \in intents
    /\ held' \in {held, held \ {x}}
    /\ intents' = intents \ {x.id}
    /\ Send(x, TRUE)
    /\ UNCHANGED <<made, manifest, intact>>

\* Raises without the intent; the store may report that the object remains.
DeleteUpload(x) ==
    /\ x.type = "submission_original"
    /\ x.id \in intents
    /\ \/ /\ held' = held \ {x}
          /\ intents' = intents \ {x.id}
          /\ Send(x, TRUE)
       \/ /\ Send(x, FALSE)
          /\ UNCHANGED <<held, intents>>
    /\ UNCHANGED <<made, manifest, intact>>

DeleteTarget(x) ==
    \/ DeleteCompanyRow(x)
    \/ DeleteSubmission(x) \/ DeleteUpload(x) \/ DeleteDocument(x)
    \/ DeleteInterviewRow(x) \/ DeleteView(x) \/ DeleteMedia(x)

-----------------------------------------------------------------------------
(* The orchestrator *)

\* Targets are compared by id; relational ones come first.
Found(id, x) ==
    /\ x \in Targets
    /\ x.id = id
    /\ \A y \in Targets : y.id = id /\ y.store = "aurora" => x.store = "aurora"

Refreshed(old, of) ==
    LET verified == {x \in DOMAIN of : of[x] = "verified_absent"}
    IN  CASE verified = DOMAIN of -> "completed"
          [] verified \notin {{}, DOMAIN of} -> "partially_completed"
          [] verified = {} /\ \E x \in DOMAIN of : of[x] = "failed" -> "retrying"
          [] OTHER -> old

RecordResult(r) ==
    /\ \E x \in Targets :
          /\ Found(r.id, x)
          /\ LET of == [manifest.of EXCEPT ![x] = IF r.gone THEN "verified_absent"
                                                            ELSE "failed"]
             IN  manifest' = [status |-> Refreshed(manifest.status, of), of |-> of]
    /\ receipts' \in {receipts, receipts \ {r}}
    /\ UNCHANGED <<held, intents, made, intact>>

InMemory == {"source", "recording_object", "recent_context"}

\* Documents, recorded objects and views are kept in dictionaries of the process;
\* rows and originals stay, and so do receipts, which are on a queue.
Restart ==
    /\ held' = {x \in held : x.type \notin InMemory}
    /\ manifest' = None
    /\ intents' = {}
    /\ intact' = FALSE
    /\ UNCHANGED <<made, receipts>>

-----------------------------------------------------------------------------

Init ==
    /\ held = {Row("invitation", Invitation)}
    /\ made = held
    /\ intents = {}
    /\ manifest = None
    /\ receipts = {}
    /\ intact = FALSE

Next ==
    \/ \E k \in Consents : Consent(k)
    \/ \E u \in Uploads : CreateIntent(u) \/ Upload(u)
    \/ \E s \in Submissions : Submit(s)
    \/ \E i \in Sessions : Begin(i) \/ Reconcile(i)
    \/ \E i \in Sessions, c \in Chunks : Accept(i, c)
    \/ Enumerate
    \/ \E x \in Targets : DeleteTarget(x)
    \/ \E r \in receipts : RecordResult(r)
    \/ Restart

Spec == Init /\ [][Next]_vars

-----------------------------------------------------------------------------

Statuses == {"none", "pending", "retrying", "partially_completed", "completed"}

\* What each variable may hold.
TypeOK ==
    /\ held \subseteq Items
    /\ made \subseteq Items
    /\ intents \subseteq Uploads
    /\ manifest.status \in Statuses
    /\ Targets \subseteq Items
    /\ manifest.of \in [Targets -> {"pending", "failed", "verified_absent"}]
    /\ receipts \subseteq {Receipt(x, gone) : x \in Items, gone \in BOOLEAN}
    /\ intact \in BOOLEAN

\* A target that is marked verified is gone, whatever receipts were lost, late or
\* repeated (deletion_service.record_result).  Excepted are a session and its view,
\* which share an id, so that a receipt for either marks the session; and an original
\* that is put again with its URL, which nothing revokes.
VerifiedIsGone ==
    \A x \in Targets :
        /\ manifest.of[x] = "verified_absent"
        /\ x.id \notin Sessions
        /\ x.type = "submission_original" => intact
        => x \notin held

\* A completed manifest leaves nothing in any store (deletion.refresh), when nothing
\* was made since the enumeration and it started clean: no restart had lost an intent,
\* by which alone an original is listed, and no receipt of an earlier manifest for a
\* session or its view was on its way.
CompletedLeavesNothing == manifest.status = "completed" /\ intact => held = {}

=============================================================================
