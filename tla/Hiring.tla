------------------------------- MODULE Hiring -------------------------------
(***************************************************************************)
(* Company management and applicant access: competency versions with their  *)
(* criteria, campaigns, invitations, profiles and consents.  A request is a *)
(* READ COMMITTED transaction of some API process.  It reads, computes whole *)
(* objects from what it read, and merges them one after the other: a merge  *)
(* reads the row again and then updates, by primary key, the columns that   *)
(* differ.  The response is sent before the commit.  A request that is       *)
(* refused before it has written anything is no step here.                  *)
(***************************************************************************)
EXTENDS Naturals, Sequences, FiniteSetsExt

CONSTANTS
    Requests,   \* what can be handled at a time, each by a process of its own
    Positions,
    Keys,       \* the idempotency keys of applicants
    Limit       \* bound: how often each operation is called

Operations == {"create_version", "publish_version", "create_campaign", "publish_campaign",
               "issue", "exchange", "verify", "consent"}

ASSUME LimitAssumption == Limit \in [Operations -> Nat]

VARIABLES
    db,         \* the committed rows by table and id; a row that is not there has no columns
    criteria,   \* per version, the copies of its criteria that are committed
    open,       \* per request: its transaction
    calls,      \* how often each operation was called
    sessions    \* per invitation, the applicant sessions that were handed out

vars == <<db, criteria, open, calls, sessions>>

-----------------------------------------------------------------------------
Versions == {"version"} \X (1..Limit["create_version"])
Campaigns == {"campaign"} \X (1..Limit["create_campaign"])
Invitations == {"invitation"} \X (1..Limit["issue"])
Profiles == {"profile"} \X (1..Limit["issue"])
Consents == {"consent"} \X (1..Limit["consent"])

Places == Versions \cup Campaigns \cup Invitations \cup Profiles \cup Consents

NoColumns == [c \in {} |-> 0]

Stored(table) == {x \in table : DOMAIN db[x] # {}}

\* A request's transaction.  phase: what it does next; plan: the objects it has
\* yet to merge; fate: how it ends then; change: the columns the merge at hand
\* found to differ; dirty: the columns it has written; seen, gone: the copies of
\* criteria its DELETE looks at, and removed; copy: the one it inserts; token: the
\* invitation whose token it exchanges.
Rest == [phase |-> "idle", plan |-> <<>>, fate |-> "told", change |-> NoColumns,
         dirty |-> NoColumns, version |-> <<>>, seen |-> {}, gone |-> {}, copy |-> <<>>,
         inserted |-> FALSE, token |-> <<>>]

Over(row, change) ==
    [c \in DOMAIN row \cup DOMAIN change |-> IF c \in DOMAIN change THEN change[c] ELSE row[c]]

Differing(row, object) ==
    [c \in {c \in DOMAIN object : c \notin DOMAIN row \/ row[c] # object[c]} |-> object[c]]

Written(r, x) ==
    IF x \in DOMAIN open[r].dirty THEN Over(db[x], open[r].dirty[x]) ELSE db[x]

Merge(x, object) == [place |-> x, object |-> object]

\* The DELETE of a version's criteria and the INSERT of those that were read.
ReplaceCriteria(v) == [place |-> v, object |-> NoColumns]

Begin(r, op, plan, fate) ==
    /\ open[r].phase = "idle"
    /\ calls[op] < Limit[op]
    /\ calls' = [calls EXCEPT ![op] = @ + 1]
    /\ open' = [open EXCEPT ![r] =
          [Rest EXCEPT !.phase = "load", !.plan = plan, !.fate = fate,
                       !.copy = <<op, calls[op] + 1>>]]
    /\ UNCHANGED <<db, criteria, sessions>>

New(table, op) == <<table, calls[op] + 1>>

-----------------------------------------------------------------------------
(* Competency versions. *)

NumbersOf(p) == {db[v].number : v \in {v \in Stored(Versions) : db[v].position = p}}

NextNumber(p) == 1 + Max({0} \cup NumbersOf(p))

CompetencyModelVersion(p, weighted) ==
    [position |-> p, number |-> NextNumber(p), weighted |-> weighted,
     status |-> "draft", published_at |-> 0, row_version |-> 1]

CreateVersion(r) ==
    \E p \in Positions, weighted \in BOOLEAN :
        LET v == New("version", "create_version")
        IN  Begin(r, "create_version",
                  <<Merge(v, CompetencyModelVersion(p, weighted)), ReplaceCriteria(v)>>, "told")

\* CompetencyModelVersion.publish and Campaign.publish: a published one stays as it is.
Publish(row, op) ==
    IF row.status = "published" THEN row
    ELSE [row EXCEPT !.status = "published", !.published_at = calls[op] + 1, !.row_version = @ + 1]

\* Weights that do not add up cannot be published.
Publishable(row) == row.status = "published" \/ row.weighted

PublishVersion(r) ==
    \E v \in Stored(Versions) :
        /\ Publishable(db[v])
        /\ Begin(r, "publish_version",
                 <<Merge(v, Publish(db[v], "publish_version")), ReplaceCriteria(v)>>, "told")

-----------------------------------------------------------------------------
(* Campaigns and invitations. *)

Campaign(v) ==
    [version |-> v, status |-> "draft", published_at |-> 0, issued |-> FALSE, row_version |-> 1]

CreateCampaign(r) ==
    \E v \in Stored(Versions) :
        /\ db[v].status = "published"
        /\ Begin(r, "create_campaign",
                 <<Merge(New("campaign", "create_campaign"), Campaign(v))>>, "told")

PublishCampaign(r) ==
    \E c \in Stored(Campaigns) :
        Begin(r, "publish_campaign", <<Merge(c, Publish(db[c], "publish_campaign"))>>, "told")

MutantMarkIssued(c) == <<Merge(c, [db[c] EXCEPT !.issued = TRUE])>>

\* Campaign.mark_invitation_issued; an unpublished campaign is a conflict.
MarkIssued(c) ==
    IF db[c].status # "published" THEN <<>>
    ELSE <<Merge(c, IF db[c].issued THEN db[c]
                    ELSE [db[c] EXCEPT !.issued = TRUE, !.row_version = @ + 1])>>

Invitation(c) ==
    [campaign |-> c, state |-> "invited", exchanged |-> FALSE, applied |-> <<>>, row_version |-> 1]

\* The invitation and the profile are added before the campaign is looked at.
IssueInvitations(r) ==
    \E c \in Stored(Campaigns) :
        LET i == New("invitation", "issue")
        IN  Begin(r, "issue",
                  <<Merge(i, Invitation(c)), Merge(New("profile", "issue"), [name |-> "given"])>> \o MarkIssued(c),
                  IF MarkIssued(c) = <<>> THEN "refused" ELSE "told")

-----------------------------------------------------------------------------
(* Applicant access. *)

MutantAllowed == [invited |-> {"identity_verified", "consented"},
                  identity_verified |-> {"consented"}, consented |-> {}]

\* The transitions some operation asks for; the table has more states, which
\* nothing moves an invitation to.
Allowed == [invited |-> {"identity_verified"}, identity_verified |-> {"consented"},
            consented |-> {}]

Applied(row, k) == {row.applied[n][2] : n \in {n \in DOMAIN row.applied : row.applied[n][1] = k}}

\* Invitation.transition: a key that was applied is a repeat, or a conflict if
\* it was applied to something else.
MayMove(row, k, state) ==
    IF Applied(row, k) # {} THEN state \in Applied(row, k) ELSE state \in Allowed[row.state]

Moved(row, k, state) ==
    IF Applied(row, k) # {} THEN row
    ELSE [row EXCEPT !.state = state, !.row_version = @ + 1, !.applied = Append(@, <<k, state>>)]

\* What an applicant's command writes first, then the transition.
Access(r, op, i, k, first, state) ==
    /\ sessions[i] > 0
    /\ IF MayMove(db[i], k, state)
       THEN Begin(r, op, <<first, Merge(i, Moved(db[i], k, state))>>, "told")
       ELSE Begin(r, op, <<first>>, "refused")

VerifyIdentity(r) ==
    \E i \in Stored(Invitations), k \in Keys :
        Access(r, "verify", i, k, Merge(<<"profile", i[2]>>, [name |-> "typed"]), "identity_verified")

ConsentRecord(i) == [invitation |-> i, accepted_at |-> calls["consent"] + 1]

RecordConsent(r) ==
    \E i \in Stored(Invitations), k \in Keys :
        Access(r, "consent", i, k, Merge(New("consent", "consent"), ConsentRecord(i)), "consented")

\* authorize_token, mark_token_exchanged.
ExchangeToken(r) ==
    \E i \in Stored(Invitations) :
        /\ ~db[i].exchanged
        /\ open[r].phase = "idle"
        /\ calls["exchange"] < Limit["exchange"]
        /\ calls' = [calls EXCEPT !["exchange"] = @ + 1]
        /\ open' = [open EXCEPT ![r] =
              [Rest EXCEPT !.phase = "load", !.token = i,
                           !.plan = <<Merge(i, [db[i] EXCEPT !.exchanged = TRUE])>>]]
        /\ UNCHANGED <<db, criteria, sessions>>

\* What the submissions' gate chooses its latest consent from.
ConsentsOf(i) == {c \in Stored(Consents) : db[c].invitation = i}

-----------------------------------------------------------------------------
(* The steps of a transaction. *)

Now(r) == Head(open[r].plan)

OnCriteria(r) == DOMAIN Now(r).object = {}

\* session.merge selects the row, DELETE takes its snapshot.
Load(r) ==
    /\ open[r].phase = "load"
    /\ open' = [open EXCEPT ![r] =
          IF OnCriteria(r)
          THEN [@ EXCEPT !.phase = "flush", !.version = Now(r).place, !.seen = criteria[Now(r).place]]
          ELSE [@ EXCEPT !.phase = "flush",
                         !.change = Differing(Written(r, Now(r).place), Now(r).object)]]
    /\ UNCHANGED <<db, criteria, calls, sessions>>

\* The version number that a request inserts.
Inserts(q, position, number) ==
    \E v \in DOMAIN open[q].dirty :
        /\ DOMAIN db[v] = {}
        /\ {"position", "number"} \subseteq DOMAIN open[q].dirty[v]
        /\ open[q].dirty[v].position = position
        /\ open[q].dirty[v].number = number

Inserting(r) == Now(r).place \in Versions /\ DOMAIN db[Now(r).place] = {} /\ ~OnCriteria(r)

\* Another transaction holds the row or the unique key.
Waits(r) ==
    \E q \in Requests \ {r} :
        IF OnCriteria(r)
        THEN open[q].gone \cap open[r].seen # {} \/ (open[q].inserted /\ open[q].version = Now(r).place)
        ELSE \/ DOMAIN open[r].change # {} /\ Now(r).place \in DOMAIN open[q].dirty
             \/ Inserting(r) /\ Inserts(q, Now(r).object.position, Now(r).object.number)

MutantCollides(r) == OnCriteria(r) /\ criteria[Now(r).place] \ open[r].seen # {}

\* A unique number that is taken, or criteria that someone inserted since the
\* DELETE took its snapshot.
Collides(r) ==
    IF OnCriteria(r) THEN criteria[Now(r).place] \ open[r].seen # {}
    ELSE Inserting(r) /\ Now(r).object.number \in NumbersOf(Now(r).object.position)

Flushed(t, writes) ==
    [writes EXCEPT !.plan = Tail(@), !.change = NoColumns,
                   !.phase = IF Len(t.plan) = 1 THEN t.fate ELSE "load"]

Flush(r) ==
    /\ open[r].phase = "flush"
    /\ ~Waits(r)
    /\ ~Collides(r)
    /\ LET t == open[r]
           x == Now(r).place
       IN  /\ open' = [open EXCEPT ![r] = Flushed(t,
                 IF OnCriteria(r)
                 THEN [t EXCEPT !.gone = @ \cup (t.seen \cap criteria[x]), !.inserted = TRUE]
                 ELSE IF DOMAIN t.change = {} THEN t
                 ELSE [t EXCEPT !.dirty = Over(@, [y \in {x} |->
                          IF x \in DOMAIN t.dirty THEN Over(t.dirty[x], t.change) ELSE t.change])])]
           /\ sessions' = IF t.token = x /\ t.token # <<>>
                          THEN [sessions EXCEPT ![x] = @ + 1] ELSE sessions
    /\ UNCHANGED <<db, criteria, calls>>

\* A collision, a refusal, a failing commit or the death of the process.
RollBack(r) ==
    /\ open[r].phase # "idle"
    /\ open' = [open EXCEPT ![r] = Rest]
    /\ UNCHANGED <<db, criteria, calls, sessions>>

MutantAfterDelete(r, v) == IF open[r].version = v THEN criteria[v] \ open[r].gone ELSE criteria[v]

AfterDelete(r, v) ==
    IF open[r].inserted /\ open[r].version = v
    THEN (criteria[v] \ open[r].gone) \cup {open[r].copy}
    ELSE criteria[v]

Commit(r) ==
    /\ open[r].phase = "told"
    /\ db' = [x \in Places |-> Written(r, x)]
    /\ criteria' = [v \in Versions |-> AfterDelete(r, v)]
    /\ open' = [open EXCEPT ![r] = Rest]
    /\ UNCHANGED <<calls, sessions>>

-----------------------------------------------------------------------------
Init ==
    /\ db = [x \in Places |-> NoColumns]
    /\ criteria = [v \in Versions |-> {}]
    /\ open = [r \in Requests |-> Rest]
    /\ calls = [op \in Operations |-> 0]
    /\ sessions = [i \in Invitations |-> 0]

Next ==
    \E r \in Requests :
        \/ CreateVersion(r) \/ PublishVersion(r)
        \/ CreateCampaign(r) \/ PublishCampaign(r) \/ IssueInvitations(r)
        \/ ExchangeToken(r) \/ VerifyIdentity(r) \/ RecordConsent(r)
        \/ Load(r) \/ Flush(r) \/ Commit(r) \/ RollBack(r)

Spec == Init /\ [][Next]_vars

-----------------------------------------------------------------------------
(* The numbers of a position's versions are 1, 2, ... without a gap or a    *)
(* repetition, although each request counts for itself and some fail.       *)
VersionNumbersDense ==
    \A p \in Positions :
        LET own == {v \in Stored(Versions) : db[v].position = p}
        IN  NumbersOf(p) = 1..Cardinality(own)

(* A committed version has its criteria once: publishing deletes and inserts *)
(* them again, and two requests that publish never leave none or two copies. *)
CriteriaStayWhole ==
    \A v \in Versions : Cardinality(criteria[v]) = IF v \in Stored(Versions) THEN 1 ELSE 0

(* Nobody is invited unless the campaign and its version are published, with *)
(* weights that add up, whatever late merges write over earlier ones.        *)
InvitedUnderPublished ==
    \A i \in Stored(Invitations) :
        LET c == db[i].campaign
        IN  /\ c \in Stored(Campaigns) /\ db[c].status = "published"
            /\ db[c].version \in Stored(Versions)
            /\ db[db[c].version].status = "published" /\ db[db[c].version].weighted

(* An invitation that is consented has a consent row and an applicant who    *)
(* typed a name, so that the gate of submissions finds what it asks for.     *)
ConsentedHasConsent ==
    \A i \in Stored(Invitations) : db[i].state = "consented" =>
        /\ ConsentsOf(i) # {}
        /\ db[<<"profile", i[2]>>].name = "typed"
        /\ sessions[i] > 0
=============================================================================
