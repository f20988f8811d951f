----------------------------- MODULE HumanReviews -----------------------------
(***************************************************************************)
(* What people add to a report: assessment reviews, notes, final decisions,  *)
(* and requests for deletion.  A handler runs on the event loop of its        *)
(* process without a pause: it looks for its idempotency key, inserts, notes *)
(* the audit event in the process's memory and replies.  The transaction is   *)
(* committed only after the reply.  An insert whose key another open          *)
(* transaction has inserted waits for that one's end, and the event loop      *)
(* waits with it.                                                            *)
(***************************************************************************)
EXTENDS FiniteSets

CONSTANTS
    Processes, Requests, Keys,
    Payloads,   \* records of action, resource, meta (what is audited of it) and rest
    NoRequest

ASSUME NoRequestAssumption == NoRequest \notin Requests

VARIABLES
    reviews,    \* committed rows of human_reviews: key, payload, and by which request
    deletions,  \* committed rows of deletion_requests, by the request that made them
    requests,   \* per request, how far it is
    audits      \* per process, the audit events it remembers

reviewVars == <<reviews, deletions, requests, audits>>

Unsent == [phase |-> "unsent", result |-> "none", names |-> NoRequest, alive |-> FALSE]

-----------------------------------------------------------------------------
(* The unique key *)

IsDeletion(p) == p.action = "deletion"

\* Transactions that have inserted the key and are not yet committed.
Holders(k) == {i \in Requests : /\ requests[i].phase = "replied"
                                /\ requests[i].names = i
                                /\ requests[i].key = k
                                /\ ~IsDeletion(requests[i].payload)}

Waiting(n) == {i \in Requests : requests[i].phase = "waiting" /\ requests[i].process = n}

\* A statement that waits keeps the event loop.
Blocked(n) == Waiting(n) # {}

Existing(k) == {v \in reviews : v.key = k}

-----------------------------------------------------------------------------
(* The audit *)

\* The event's key is a digest of the request's key, the action and the resource;
\* a deletion request's resource is its own new id.
AuditKey(i, k, p) == <<k, p.action, IF IsDeletion(p) THEN i ELSE p.resource>>

MutantConflicts(i, n, k, p) == FALSE  \* the digest is not compared

Conflicts(i, n, k, p) ==
    \E a \in audits[n] : a.key = AuditKey(i, k, p) /\ a.meta # p.meta

Reply(i, k, p, n, names) ==
    IF Conflicts(i, n, k, p)
    THEN /\ requests' = [requests EXCEPT ![i] =
                [phase |-> "ended", key |-> k, payload |-> p, process |-> n,
                 result |-> "conflict", names |-> NoRequest, alive |-> FALSE]]
         /\ UNCHANGED audits
    ELSE /\ requests' = [requests EXCEPT ![i] =
                [phase |-> "replied", key |-> k, payload |-> p, process |-> n,
                 result |-> "told", names |-> names, alive |-> TRUE]]
         /\ audits' = [audits EXCEPT ![n] =
                @ \cup {[key |-> AuditKey(i, k, p), meta |-> p.meta]}]

-----------------------------------------------------------------------------
(* Handlers *)

RequestDeletion(i, k, p, n) ==
    /\ IsDeletion(p)
    /\ Reply(i, k, p, n, i)

\* A known key is answered with its review, whatever the request says.
Replay(i, k, p, n) ==
    /\ ~IsDeletion(p)
    /\ \E v \in Existing(k) : Reply(i, k, p, n, v.by)

MutantInsert(i, k, p, n) ==  \* no unique constraint
    /\ ~IsDeletion(p)
    /\ Existing(k) = {}
    /\ Reply(i, k, p, n, i)

Insert(i, k, p, n) ==
    /\ ~IsDeletion(p)
    /\ Existing(k) = {}
    /\ Holders(k) = {}
    /\ Reply(i, k, p, n, i)

Wait(i, k, p, n) ==
    /\ ~IsDeletion(p)
    /\ Existing(k) = {}
    /\ Holders(k) # {}
    /\ requests' = [requests EXCEPT ![i] =
            [phase |-> "waiting", key |-> k, payload |-> p, process |-> n,
             result |-> "none", names |-> NoRequest, alive |-> FALSE]]
    /\ UNCHANGED audits

Handle(i, k, p, n) ==
    /\ requests[i].phase = "unsent"
    /\ ~Blocked(n)
    /\ \/ RequestDeletion(i, k, p, n)
       \/ Replay(i, k, p, n) \/ Insert(i, k, p, n) \/ Wait(i, k, p, n)
    /\ UNCHANGED <<reviews, deletions>>

UsedKeys == {requests[i].key : i \in {j \in Requests : requests[j].phase # "unsent"}}

\* The web client makes a new key for every call: a second click is a second command.
\* Notes and deletions of the console have fields the server refuses.
Click(i, p, n) ==
    \E k \in Keys \ UsedKeys : p.action \in {"review", "decision"} /\ Handle(i, k, p, n)

\* Other clients of the interface send a note or a deletion, or send a key again.
SendDirectly(i, k, p, n) ==
    /\ k \in UsedKeys \/ p.action \notin {"review", "decision"}
    /\ Handle(i, k, p, n)

MutantWake(i) ==  \* only a commit wakes the statement that waits
    /\ requests[i].phase = "waiting"
    /\ Existing(requests[i].key) # {}
    /\ requests' = [requests EXCEPT ![i].phase = "ended", ![i].result = "failed"]
    /\ UNCHANGED <<reviews, deletions, audits>>

\* When the other has ended: its row breaks the constraint, or the insert goes through.
Wake(i) ==
    /\ requests[i].phase = "waiting"
    /\ Holders(requests[i].key) = {}
    /\ \/ /\ Existing(requests[i].key) # {}
          /\ requests' = [requests EXCEPT ![i].phase = "ended", ![i].result = "failed"]
          /\ UNCHANGED audits
       \/ /\ Existing(requests[i].key) = {}
          /\ Reply(i, requests[i].key, requests[i].payload, requests[i].process, i)
    /\ UNCHANGED <<reviews, deletions>>

-----------------------------------------------------------------------------
(* The end of a transaction *)

End(i) == requests' = [requests EXCEPT ![i].phase = "ended"]

Commit(i) ==
    /\ requests[i].phase = "replied"
    /\ ~Blocked(requests[i].process)
    /\ LET r == requests[i]
           wrote == r.names = i
           review == [key |-> r.key, payload |-> r.payload, by |-> i]
       IN  /\ reviews' = IF wrote /\ ~IsDeletion(r.payload) THEN reviews \cup {review}
                                                             ELSE reviews
           /\ deletions' = IF wrote /\ IsDeletion(r.payload) THEN deletions \cup {i}
                                                              ELSE deletions
    /\ End(i)
    /\ UNCHANGED audits

\* The reply is out all the same.
CommitFails(i) ==
    /\ requests[i].phase = "replied"
    /\ ~Blocked(requests[i].process)
    /\ End(i)
    /\ UNCHANGED <<reviews, deletions, audits>>

ProcessRestarts(n) ==
    /\ requests' = [i \in Requests |->
            IF requests[i].phase # "unsent" /\ requests[i].process = n
            THEN [requests[i] EXCEPT !.phase = "ended", !.alive = FALSE]
            ELSE requests[i]]
    /\ audits' = [audits EXCEPT ![n] = {}]
    /\ UNCHANGED <<reviews, deletions>>

-----------------------------------------------------------------------------
ReviewInit ==
    /\ reviews = {}
    /\ deletions = {}
    /\ requests = [i \in Requests |-> Unsent]
    /\ audits = [n \in Processes |-> {}]

ReviewNext ==
    \/ \E i \in Requests, p \in Payloads, n \in Processes :
          Click(i, p, n) \/ \E k \in Keys : SendDirectly(i, k, p, n)
    \/ \E i \in Requests : Wake(i) \/ Commit(i) \/ CommitFails(i)
    \/ \E n \in Processes : ProcessRestarts(n)

ReviewSpec == ReviewInit /\ [][ReviewNext]_reviewVars

\* A reply that is out is followed by the end of its transaction; the database wakes
\* a statement when what it waits for has ended.
Fairness ==
    \A i \in Requests : WF_reviewVars(Wake(i)) /\ WF_reviewVars(Commit(i) \/ CommitFails(i))

FairSpec == ReviewSpec /\ Fairness

-----------------------------------------------------------------------------
\* All that was told under one key names one review, unless a review that was told
\* was lost by a commit that failed after the reply (HumanReviewRow's unique key).
NamesOneReview ==
    LET told(i) == /\ requests[i].result = "told"
                   /\ \E v \in reviews : v.by = requests[i].names
    IN  \A i, j \in Requests :
            /\ told(i) /\ told(j)
            /\ requests[i].key = requests[j].key
            => requests[i].names = requests[j].names

\* What one process told under one key about one resource, in one life, agrees in what
\* was decided (InMemoryAuditAppender.append): a repeat with another decision is
\* refused, though the review itself is replayed without being compared.
ToldAlike ==
    \A i, j \in Requests :
        /\ requests[i].alive /\ requests[j].alive
        /\ requests[i].process = requests[j].process
        /\ requests[i].key = requests[j].key
        /\ requests[i].payload.action = requests[j].payload.action
        /\ requests[i].payload.resource = requests[j].payload.resource
        /\ ~IsDeletion(requests[i].payload)
        => requests[i].payload.meta = requests[j].payload.meta

\* Processes whose statements wait for each other's open transactions.  The smallest
\* circle is one process that waits for a transaction of its own.
Circle ==
    \E ring \in SUBSET Processes \ {{}} :
        \A n \in ring : \E i \in Waiting(n), m \in ring :
            \E j \in Holders(requests[i].key) : requests[j].process = m

\* Every request ends, unless processes wait in a circle, which takes a key that is
\* sent again while its first request is open (DatabaseTransactionMiddleware).
RequestsEnd ==
    \A i \in Requests :
        requests[i].phase \in {"waiting", "replied"} ~> (requests[i].phase = "ended" \/ Circle)
=============================================================================
