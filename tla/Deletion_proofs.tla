---------------------------- MODULE Deletion_proofs ----------------------------
(***************************************************************************)
(* Theorems about what is deleted and what is kept under a key: about       *)
(* Deletion, for any consents, submissions, uploads, sessions, chunks and   *)
(* bounds, and about HumanReviews, whose requests for deletion start it, for*)
(* any processes, requests, keys and payloads.                              *)
(***************************************************************************)
EXTENDS Deletion, HumanReviews, TLAPS

-----------------------------------------------------------------------------
(* The inductive invariant *)

Reference(s) == Row("source_reference", SourceOf(s))

IsOriginal(x) == x.type = "submission_original"

IsReference(x) == x.type = "source_reference"

\* What is gone stays gone: its id is used up.  An original also needs that nobody
\* can list it again, and that its URL was not used since.
Dead(x) ==
    /\ x \in made
    /\ IsOriginal(x) => x.id \notin intents /\ (intact => x \notin held)
    /\ ~IsOriginal(x) => x \notin held

IsVerified(x) == manifest.of[x] = "verified_absent"

ItemsKept ==
    /\ made \subseteq Items /\ held \subseteq made
    /\ \A u \in intents : u \in Uploads /\ Original(u) \in made

\* A source's row goes with its submission, and its document is not left behind it
\* unless a manifest lists it.
SourcesKept ==
    \A s \in Submissions :
        /\ Reference(s) \in made => Document(s) \in made
        /\ Reference(s) \in held => Row("submission", s) \in held
        /\ Document(s) \in held /\ manifest = None => Reference(s) \in held

TargetsKept == Targets \subseteq made /\ \A x \in Targets : ~IsReference(x)

ReceiptsTrue ==
    \A r \in receipts : r.gone =>
        \A x \in Items : x.id = r.id /\ x.id \notin Sessions /\ ~IsReference(x) => Dead(x)

VerifiedDead == \A x \in Targets : IsVerified(x) /\ x.id \notin Sessions => Dead(x)

\* A view that is listed with its session is never marked.
ViewsUnmarked ==
    \A i \in Sessions :
        Row("interview_session", i) \in Targets /\ HotView(i) \in Targets => ~IsVerified(HotView(i))

Alone(x) == x \in Targets /\ \A y \in Targets : y.id = x.id => y = x

\* A session, or its view, that is listed without the other.
AloneGone ==
    intact => \A x \in Targets :
        /\ Alone(x) /\ x.id \in Sessions
        /\ IsVerified(x) \/ \E r \in receipts : r.gone /\ r.id = x.id
        => x \notin held

AllListed == intact => \A x \in held : x \in Targets \/ IsReference(x)

CompletedVerified == manifest.status = "completed" => \A x \in Targets : IsVerified(x)

IInv ==
    /\ ItemsKept /\ SourcesKept /\ TargetsKept /\ ReceiptsTrue /\ VerifiedDead
    /\ ViewsUnmarked /\ AloneGone /\ AllListed /\ CompletedVerified

-----------------------------------------------------------------------------
(* Items *)

Types == {"invitation", "consent_record", "submission", "source_reference",
          "interview_session", "submission_original", "source", "recording_object",
          "recent_context"}

\* What an item's type says of it.
LEMMA Kinds ==
    ASSUME NEW x \in Items
    PROVE  /\ x.type \in Types
           /\ IsOriginal(x) => x.id \in Uploads /\ x = Original(x.id)
           /\ x.type = "submission" => x.id \in Submissions /\ x = Row("submission", x.id)
           /\ IsReference(x) => \E s \in Submissions : x = Reference(s)
           /\ x.type = "source" => \E s \in Submissions : x = Document(s)
           /\ x.type = "interview_session" =>
                 x.id \in Sessions /\ x = Row("interview_session", x.id)
           /\ x.type = "recent_context" => x.id \in Sessions /\ x = HotView(x.id)
           /\ x.store = "aurora" =>
                 x.type \in {"invitation", "consent_record", "submission", "source_reference",
                             "interview_session"}
  <1> USE DEF Item, IsOriginal, IsReference, Types
  <1>1. CASE x = Row("invitation", Invitation)
    BY <1>1 DEF Row
  <1>2. CASE \E k \in Consents : x = Row("consent_record", k)
    BY <1>2 DEF Row
  <1>3. CASE \E s \in Submissions : x = Row("submission", s)
    BY <1>3 DEF Row
  <1>4. CASE \E s \in Submissions : x = Reference(s)
    BY <1>4 DEF Row, Reference
  <1>5. CASE \E i \in Sessions : x = Row("interview_session", i)
    BY <1>5 DEF Row
  <1>6. CASE \E u \in Uploads : x = Original(u)
    BY <1>6 DEF Original
  <1>7. CASE \E s \in Submissions : x = Document(s)
    BY <1>7 DEF Document
  <1>8. CASE \E c \in Chunks : x = Media(c)
    BY <1>8 DEF Media
  <1>9. CASE \E i \in Sessions : x = HotView(i)
    BY <1>9 DEF HotView
  <1> QED
    BY <1>1, <1>2, <1>3, <1>4, <1>5, <1>6, <1>7, <1>8, <1>9 DEF Items, Reference

LEMMA MadeOf ==
    /\ Row("invitation", Invitation) \in Items
    /\ \A k \in Consents : Row("consent_record", k) \in Items
    /\ \A s \in Submissions : /\ Row("submission", s) \in Items
                              /\ Reference(s) \in Items /\ Document(s) \in Items
    /\ \A u \in Uploads : Original(u) \in Items
    /\ \A i \in Sessions : Row("interview_session", i) \in Items /\ HotView(i) \in Items
    /\ \A c \in Chunks : Media(c) \in Items
  BY DEF Items, Reference

LEMMA TypesOf ==
    ASSUME NEW t, NEW a
    PROVE  /\ Row(t, a).type = t /\ Row(t, a).id = a /\ Row(t, a).store = "aurora"
           /\ Original(a).type = "submission_original" /\ Original(a).id = a
           /\ Document(a).type = "source" /\ Document(a).id = SourceOf(a)
           /\ Media(a).type = "recording_object" /\ Media(a).id = a
           /\ HotView(a).type = "recent_context" /\ HotView(a).id = a
           /\ HotView(a).store = "dynamodb"
           /\ Reference(a).type = "source_reference" /\ Reference(a).id = SourceOf(a)
  BY DEF Row, Original, Document, Media, HotView, Reference, Item

\* Only a session and its view share an id, and a source's row and its document.
LEMMA Ids ==
    ASSUME NEW x \in Items, NEW y \in Items, x.id = y.id, ~IsReference(x), ~IsReference(y)
    PROVE  /\ x = y \/ (x.id \in Sessions /\ x.type \in {"interview_session", "recent_context"}
                                          /\ y.type \in {"interview_session", "recent_context"})
           /\ x.type = y.type => x = y
  <1>1. CASE x = y
    BY <1>1
  <1>2. CASE x # y
    <2>1. \/ {x.type, y.type} = {"interview_session", "recent_context"}
          \/ {x.type, y.type} = {"source_reference", "source"}
      BY <1>2, IdsAssumption
    <2>2. {x.type, y.type} # {"source_reference", "source"}
      BY DEF IsReference
    <2>3. /\ x.type \in {"interview_session", "recent_context"}
          /\ y.type \in {"interview_session", "recent_context"} /\ x.type # y.type
      BY <2>1, <2>2
    <2>4. x.id \in Sessions
      BY <2>3, Kinds
    <2> QED
      BY <2>3, <2>4
  <1> QED
    BY <1>1, <1>2

\* An id of a session is of one, or of its view.
LEMMA SessionIds ==
    ASSUME NEW x \in Items, x.id \in Sessions
    PROVE  x = Row("interview_session", x.id) \/ x = HotView(x.id)
  <1> DEFINE y == Row("interview_session", x.id)
  <1>1. y \in Items /\ y.id = x.id /\ y.type = "interview_session"
    BY MadeOf, TypesOf
  <1> HIDE DEF y
  <1>2. CASE x = y
    BY <1>2 DEF y
  <1>3. CASE x # y
    <2>1. \/ {x.type, y.type} = {"interview_session", "recent_context"}
          \/ {x.type, y.type} = {"source_reference", "source"}
      BY <1>1, <1>3, IdsAssumption
    <2>2. x.type \in {"interview_session", "recent_context"}
      BY <1>1, <2>1
    <2> QED
      BY <2>2, Kinds
  <1> QED
    BY <1>2, <1>3

-----------------------------------------------------------------------------
(* Steps that change only what is held and made *)

\* Nothing that is dead is made again.
LEMMA MakeKeeps ==
    ASSUME IInv, NEW items \in SUBSET Items, Make(items),
           \A x \in items : ~IsReference(x) /\ x.type # "source"
    PROVE  IInv'
  <1>1. /\ items \cap made = {} /\ held' = held \cup items /\ made' = made \cup items
        /\ intact' = FALSE /\ UNCHANGED <<intents, manifest, receipts>>
    BY DEF Make
  <1>2. ItemsKept'
    BY <1>1 DEF IInv, ItemsKept
  <1>3. SourcesKept'
    <2>1. ASSUME NEW s \in Submissions
          PROVE  Reference(s) \notin items /\ Document(s) \notin items
      BY TypesOf DEF IsReference
    <2> QED
      BY <1>1, <2>1 DEF IInv, SourcesKept
  <1>4. TargetsKept'
    BY <1>1 DEF IInv, TargetsKept, Targets
  <1>5. ASSUME NEW x, Dead(x) PROVE Dead(x)'
    BY <1>1, <1>5 DEF Dead
  <1>6. ReceiptsTrue'
    BY <1>1, <1>5 DEF IInv, ReceiptsTrue
  <1>7. VerifiedDead'
    BY <1>1, <1>5 DEF IInv, VerifiedDead, Targets, IsVerified
  <1>8. ViewsUnmarked' /\ CompletedVerified'
    BY <1>1 DEF IInv, ViewsUnmarked, CompletedVerified, Targets, IsVerified
  <1>9. AloneGone' /\ AllListed'
    BY <1>1 DEF AloneGone, AllListed
  <1> QED
    BY <1>2, <1>3, <1>4, <1>6, <1>7, <1>8, <1>9 DEF IInv

LEMMA SubmitKeeps ==
    ASSUME IInv, NEW s \in Submissions, Submit(s)
    PROVE  IInv'
  <1> DEFINE items == {Row("submission", s), Reference(s), Document(s)}
  <1>1. /\ items \cap made = {} /\ held' = held \cup items /\ made' = made \cup items
        /\ intact' = FALSE /\ UNCHANGED <<intents, manifest, receipts>>
    BY DEF Submit, Make, Reference
  <1>2. items \subseteq Items
    BY MadeOf
  <1>3. ItemsKept'
    BY <1>1, <1>2 DEF IInv, ItemsKept
  <1>4. SourcesKept'
    <2>1. ASSUME NEW t \in Submissions, Reference(t) \in items
          PROVE  Row("submission", t) \in items /\ Document(t) \in items
      <3>1. Reference(t) = Reference(s)
        <4>1. /\ Reference(t).type = "source_reference"
              /\ Row("submission", s).type = "submission" /\ Document(s).type = "source"
          BY TypesOf
        <4> QED
          BY <2>1, <4>1
      <3>2. t = s
        <4>1. SourceOf(t) = SourceOf(s)
          BY <3>1, TypesOf
        <4> QED
          BY <4>1 DEF SourceOf
      <3> QED
        BY <3>2
    <2>2. ASSUME NEW t \in Submissions, Document(t) \in items
          PROVE  Reference(t) \in items
      <3>1. Document(t) = Document(s)
        <4>1. /\ Document(t).type = "source"
              /\ Row("submission", s).type = "submission"
              /\ Reference(s).type = "source_reference"
          BY TypesOf
        <4> QED
          BY <2>2, <4>1
      <3>2. t = s
        <4>1. SourceOf(t) = SourceOf(s)
          BY <3>1, TypesOf
        <4> QED
          BY <4>1 DEF SourceOf
      <3> QED
        BY <3>2
    <2> HIDE DEF items
    <2> QED
      BY <1>1, <2>1, <2>2 DEF IInv, SourcesKept
  <1> HIDE DEF items
  <1>5. TargetsKept'
    BY <1>1 DEF IInv, TargetsKept, Targets
  <1>6. ASSUME NEW x, Dead(x) PROVE Dead(x)'
    BY <1>1, <1>6 DEF Dead
  <1>7. ReceiptsTrue'
    BY <1>1, <1>6 DEF IInv, ReceiptsTrue
  <1>8. VerifiedDead'
    BY <1>1, <1>6 DEF IInv, VerifiedDead, Targets, IsVerified
  <1>9. ViewsUnmarked' /\ CompletedVerified'
    BY <1>1 DEF IInv, ViewsUnmarked, CompletedVerified, Targets, IsVerified
  <1>10. AloneGone' /\ AllListed'
    BY <1>1 DEF AloneGone, AllListed
  <1> QED
    BY <1>3, <1>4, <1>5, <1>7, <1>8, <1>9, <1>10 DEF IInv

\* An intent is made for an original that never was.
LEMMA CreateIntentKeeps ==
    ASSUME IInv, NEW u \in Uploads, CreateIntent(u)
    PROVE  IInv'
  <1>1. /\ Original(u) \notin made /\ intents' = intents \cup {u}
        /\ made' = made \cup {Original(u)} /\ UNCHANGED <<held, manifest, receipts, intact>>
    BY DEF CreateIntent
  <1>2. Original(u) \in Items /\ ~IsReference(Original(u)) /\ Original(u).type # "source"
    BY MadeOf, TypesOf DEF IsReference
  <1>3. ItemsKept'
    BY <1>1, <1>2 DEF IInv, ItemsKept
  <1>4. SourcesKept'
    <2>1. ASSUME NEW s \in Submissions PROVE Reference(s) # Original(u)
      BY <1>2, TypesOf DEF IsReference
    <2> QED
      BY <1>1, <2>1 DEF IInv, SourcesKept
  <1>5. TargetsKept'
    BY <1>1 DEF IInv, TargetsKept, Targets
  <1>6. ASSUME NEW x \in Items, Dead(x) PROVE Dead(x)'
    <2>1. IsOriginal(x) => x.id # u
      BY <1>1, <1>6, Kinds DEF Dead
    <2> QED
      BY <1>1, <1>6, <2>1 DEF Dead
  <1>7. ReceiptsTrue'
    BY <1>1, <1>6 DEF IInv, ReceiptsTrue
  <1>8. VerifiedDead'
    <2>1. Targets \subseteq Items
      BY DEF IInv, ItemsKept, TargetsKept
    <2> QED
      BY <1>1, <1>6, <2>1 DEF IInv, VerifiedDead, Targets, IsVerified
  <1>9. ViewsUnmarked' /\ CompletedVerified'
    BY <1>1 DEF IInv, ViewsUnmarked, CompletedVerified, Targets, IsVerified
  <1>10. AloneGone' /\ AllListed'
    BY <1>1 DEF IInv, AloneGone, AllListed, Alone, Targets, IsVerified
  <1> QED
    BY <1>3, <1>4, <1>5, <1>7, <1>8, <1>9, <1>10 DEF IInv

\* An original is put, or a view is made again: the manifest is no longer intact.
LEMMA AgainKeeps ==
    ASSUME IInv,
           \/ \E u \in Uploads : Upload(u)
           \/ \E i \in Sessions : Reconcile(i)
    PROVE  IInv'
  <1>1. PICK y \in Items :
            /\ held' = held \cup {y} /\ made' = made \cup {y} /\ intact' = FALSE
            /\ UNCHANGED <<intents, manifest, receipts>>
            /\ IsOriginal(y) \/ (y.id \in Sessions /\ y.type = "recent_context")
    <2>1. CASE \E u \in Uploads : Upload(u)
      <3>1. PICK u \in Uploads : Upload(u)
        BY <2>1
      <3>2. /\ Original(u) \in made /\ held' = held \cup {Original(u)} /\ intact' = FALSE
            /\ UNCHANGED <<intents, made, manifest, receipts>>
        BY <3>1 DEF Upload
      <3>3. made' = made \cup {Original(u)}
        BY <3>2
      <3>4. Original(u) \in Items /\ IsOriginal(Original(u))
        BY MadeOf, TypesOf DEF IsOriginal
      <3> QED
        BY <3>2, <3>3, <3>4
    <2>2. CASE \E i \in Sessions : Reconcile(i)
      <3>1. PICK i \in Sessions : Reconcile(i)
        BY <2>2
      <3>2. HotView(i) \in Items /\ HotView(i).id \in Sessions /\ HotView(i).type = "recent_context"
        BY MadeOf, TypesOf
      <3> QED
        BY <3>1, <3>2 DEF Reconcile
    <2> QED
      BY <2>1, <2>2
  <1>2. ~IsReference(y) /\ y.type # "source"
    BY <1>1 DEF IsReference, IsOriginal
  <1>3. ItemsKept'
    BY <1>1 DEF IInv, ItemsKept
  <1>4. SourcesKept'
    <2>1. ASSUME NEW s \in Submissions PROVE Reference(s) # y /\ Document(s) # y
      BY <1>2, TypesOf DEF IsReference
    <2> QED
      BY <1>1, <2>1 DEF IInv, SourcesKept
  <1>5. TargetsKept'
    BY <1>1 DEF IInv, TargetsKept, Targets
  <1>6. ASSUME NEW x, x.id \notin Sessions, Dead(x) PROVE Dead(x)'
    BY <1>1, <1>6 DEF Dead
  <1>7. ReceiptsTrue'
    BY <1>1, <1>6 DEF IInv, ReceiptsTrue
  <1>8. VerifiedDead'
    BY <1>1, <1>6 DEF IInv, VerifiedDead, Targets, IsVerified
  <1>9. ViewsUnmarked' /\ CompletedVerified'
    BY <1>1 DEF IInv, ViewsUnmarked, CompletedVerified, Targets, IsVerified
  <1>10. AloneGone' /\ AllListed'
    BY <1>1 DEF AloneGone, AllListed
  <1> QED
    BY <1>3, <1>4, <1>5, <1>7, <1>8, <1>9, <1>10 DEF IInv

-----------------------------------------------------------------------------
(* The manifest *)

\* What is listed was made, and everything that is held is listed when no original
\* is held without its intent.
LEMMA Listed ==
    ASSUME IInv, manifest = None
    PROVE  LET listed == InvitationTargets \cup SubmissionTargets \cup InterviewTargets
           IN  /\ listed \subseteq made /\ \A x \in listed : ~IsReference(x)
               /\ \A x \in listed : IsOriginal(x) => x.id \in intents
               /\ (\A u \in Uploads : Original(u) \in held => u \in intents)
                     => \A x \in held : x \in listed \/ IsReference(x)
  <1> DEFINE listed == InvitationTargets \cup SubmissionTargets \cup InterviewTargets
  <1>1. ASSUME NEW x \in listed
        PROVE  x \in made /\ ~IsReference(x) /\ (IsOriginal(x) => x.id \in intents)
    <2>1. CASE \E u \in intents : x = Original(u)
      <3>1. PICK u \in intents : x = Original(u)
        BY <2>1
      <3>2. x.type = "submission_original" /\ x.id = u
        BY <3>1, TypesOf
      <3> QED
        BY <3>1, <3>2 DEF IInv, ItemsKept, IsReference
    <2>2. CASE \E s \in Submissions : x = Document(s) /\ Reference(s) \in held
      <3>1. PICK s \in Submissions : x = Document(s) /\ Reference(s) \in held
        BY <2>2
      <3>2. x \in made
        BY <3>1 DEF IInv, ItemsKept, SourcesKept
      <3>3. x.type = "source"
        BY <3>1, TypesOf
      <3> QED
        BY <3>2, <3>3 DEF IsReference, IsOriginal
    <2>3. CASE /\ x \in held
               /\ x.type \in {"invitation", "consent_record", "submission", "interview_session",
                              "recording_object", "recent_context"}
      BY <2>3 DEF IInv, ItemsKept, IsReference, IsOriginal
    <2> QED
      BY <2>1, <2>2, <2>3
         DEF InvitationTargets, SubmissionTargets, InterviewTargets, InterviewRows, Reference
  <1>2. ASSUME \A u \in Uploads : Original(u) \in held => u \in intents, NEW x \in held
        PROVE  x \in listed \/ IsReference(x)
    <2>1. x \in Items
      BY DEF IInv, ItemsKept
    <2>2. CASE IsOriginal(x)
      <3>1. x.id \in intents /\ x = Original(x.id)
        BY <1>2, <2>1, <2>2, Kinds
      <3> QED
        BY <3>1 DEF SubmissionTargets
    <2>3. CASE x.type = "source"
      <3>1. PICK s \in Submissions : x = Document(s)
        BY <2>1, <2>3, Kinds
      <3>2. Reference(s) \in held
        BY <3>1 DEF IInv, SourcesKept
      <3> QED
        BY <3>1, <3>2 DEF SubmissionTargets, Reference
    <2>4. CASE x.type \in {"invitation", "consent_record", "submission", "interview_session",
                           "recording_object", "recent_context"}
      BY <2>4 DEF InvitationTargets, SubmissionTargets, InterviewTargets, InterviewRows
    <2> QED
      BY <2>1, <2>2, <2>3, <2>4, Kinds DEF Types, IsOriginal, IsReference
  <1> QED
    BY <1>1, <1>2

LEMMA EnumerateKeeps ==
    ASSUME IInv, Enumerate
    PROVE  IInv'
  <1> DEFINE listed == InvitationTargets \cup SubmissionTargets \cup InterviewTargets
             clean == \A u \in Uploads : Original(u) \in held => u \in intents
  <1>1. /\ manifest = None
        /\ manifest' = [status |-> "pending", of |-> [x \in listed |-> "pending"]]
        /\ intact' => clean /\ \A r \in receipts : r.id \notin Sessions
        /\ UNCHANGED <<held, intents, made, receipts>>
    BY DEF Enumerate
  <1>2. /\ listed \subseteq made /\ \A x \in listed : ~IsReference(x)
        /\ clean => \A x \in held : x \in listed \/ IsReference(x)
    BY <1>1, Listed
  <1> HIDE DEF listed
  <1>3. /\ Targets' = listed /\ \A x \in listed : ~IsVerified(x)'
        /\ manifest'.status = "pending" /\ manifest' # None
    BY <1>1 DEF Targets, IsVerified, None
  <1>4. ItemsKept' /\ SourcesKept' /\ TargetsKept'
    BY <1>1, <1>2, <1>3 DEF IInv, ItemsKept, SourcesKept, TargetsKept
  <1>5. ASSUME NEW x \in Items, Dead(x) PROVE Dead(x)'
    <2>1. IsOriginal(x) /\ intact' => x \notin held
      BY <1>1, <1>5, Kinds DEF Dead
    <2> QED
      BY <1>1, <1>5, <2>1 DEF Dead
  <1>6. ReceiptsTrue'
    BY <1>1, <1>5 DEF IInv, ReceiptsTrue
  <1>7. VerifiedDead' /\ CompletedVerified'
    BY <1>3 DEF VerifiedDead, CompletedVerified
  <1>8. ViewsUnmarked'
    BY <1>3 DEF ViewsUnmarked
  <1>9. AloneGone'
    BY <1>1, <1>3 DEF AloneGone
  <1>10. AllListed'
    BY <1>1, <1>2, <1>3 DEF AllListed
  <1> QED
    BY <1>4, <1>6, <1>7, <1>8, <1>9, <1>10 DEF IInv

\* What an owner's answer for a target says.
LEMMA DeleteDoes ==
    ASSUME IInv, NEW x \in Targets, DeleteTarget(x)
    PROVE  /\ held' \subseteq held /\ intents' \subseteq intents
           /\ UNCHANGED <<made, manifest, intact>>
           /\ \A r \in receipts' : \/ r \in receipts
                                   \/ /\ r.id = x.id
                                      /\ r.gone => /\ x \notin held'
                                                   /\ IsOriginal(x) => x.id \notin intents'
           /\ \A y \in held : y \notin held' =>
                 y = x \/ (x.type = "submission" /\ y = Reference(x.id))
           /\ x.type = "submission" => Reference(x.id) \notin held'
  <1>1. ASSUME NEW gone \in BOOLEAN, Send(x, gone)
        PROVE  \A r \in receipts' : r \in receipts \/ (r.id = x.id /\ r.gone = gone)
    BY <1>1 DEF Send, Receipt
  <1>2. ASSUME x.type \notin {"submission", "submission_original"}, Absent(x)
        PROVE  /\ held' = held \ {x} /\ UNCHANGED <<intents, made, manifest, intact>>
               /\ \A r \in receipts' : r \in receipts \/ (r.id = x.id /\ r.gone = TRUE)
    BY <1>1, <1>2 DEF Absent
  <1>3. CASE DeleteSubmission(x)
    <2>1. /\ x.type = "submission" /\ held' = held \ {x, Reference(x.id)}
          /\ UNCHANGED <<intents, made, manifest, intact>> /\ Send(x, TRUE)
      BY <1>3 DEF DeleteSubmission, Reference
    <2> QED
      BY <1>1, <2>1 DEF IsOriginal
  <1>4. CASE DeleteUpload(x)
    <2>1. CASE held' = held \ {x} /\ intents' = intents \ {x.id} /\ Send(x, TRUE)
      <3>1. x.type = "submission_original" /\ UNCHANGED <<made, manifest, intact>>
        BY <1>4 DEF DeleteUpload
      <3> QED
        BY <1>1, <2>1, <3>1
    <2>2. CASE Send(x, FALSE) /\ UNCHANGED <<held, intents>>
      <3>1. x.type = "submission_original" /\ UNCHANGED <<made, manifest, intact>>
        BY <1>4 DEF DeleteUpload
      <3> QED
        BY <1>1, <2>2, <3>1
    <2> QED
      BY <1>4, <2>1, <2>2 DEF DeleteUpload
  <1>5. CASE x.type \notin {"submission", "submission_original"} /\ Absent(x)
    BY <1>2, <1>5 DEF IsOriginal
  <1> QED
    BY <1>3, <1>4, <1>5 DEF DeleteTarget, DeleteCompanyRow, DeleteInterviewRow, DeleteDocument,
                            DeleteMedia, DeleteView

LEMMA DeleteKeeps ==
    ASSUME IInv, NEW x \in Targets, DeleteTarget(x)
    PROVE  IInv'
  <1>1. /\ held' \subseteq held /\ intents' \subseteq intents
        /\ UNCHANGED <<made, manifest, intact>>
        /\ \A r \in receipts' : \/ r \in receipts
                                \/ /\ r.id = x.id
                                   /\ r.gone => /\ x \notin held'
                                                /\ IsOriginal(x) => x.id \notin intents'
        /\ \A y \in held : y \notin held' =>
              y = x \/ (x.type = "submission" /\ y = Reference(x.id))
        /\ x.type = "submission" => Reference(x.id) \notin held'
    BY DeleteDoes
  <1>2. Targets' = Targets /\ \A y : IsVerified(y)' <=> IsVerified(y)
    BY <1>1 DEF Targets, IsVerified
  <1>3. x \in Items /\ x \in made /\ ~IsReference(x)
    BY DEF IInv, TargetsKept, ItemsKept
  <1>4. ItemsKept' /\ TargetsKept'
    BY <1>1, <1>2 DEF IInv, ItemsKept, TargetsKept
  <1>5. SourcesKept'
    <2>1. ASSUME NEW s \in Submissions, Reference(s) \in held' PROVE Row("submission", s) \in held'
      <3>1. Row("submission", s) \in held
        BY <1>1, <2>1 DEF IInv, SourcesKept
      <3>2. CASE Row("submission", s) = x
        <4>1. x.type = "submission" /\ x.id = s
          BY <3>2, TypesOf
        <4> QED
          BY <1>1, <2>1, <4>1
      <3>3. Row("submission", s).type = "submission" /\ Reference(x.id).type = "source_reference"
        BY TypesOf
      <3>4. Row("submission", s) # Reference(x.id)
        BY <3>3
      <3> QED
        BY <1>1, <3>1, <3>2, <3>4
    <2>2. manifest # None
      BY DEF Targets, None
    <2> QED
      BY <1>1, <2>1, <2>2 DEF IInv, SourcesKept
  <1>6. ASSUME NEW y, Dead(y) PROVE Dead(y)'
    BY <1>1, <1>6 DEF Dead
  <1>7. ReceiptsTrue'
    <2>1. ASSUME NEW r \in receipts', r.gone, NEW y \in Items, y.id = r.id, y.id \notin Sessions,
                 ~IsReference(y)
          PROVE  Dead(y)'
      <3>1. CASE r \in receipts
        BY <1>6, <2>1, <3>1 DEF IInv, ReceiptsTrue
      <3>2. CASE r \notin receipts
        <4>1. r.id = x.id /\ x \notin held' /\ (IsOriginal(x) => x.id \notin intents')
          BY <1>1, <2>1, <3>2
        <4>2. y = x
          BY <1>3, <2>1, <4>1, Ids
        <4> QED
          BY <1>1, <1>3, <4>1, <4>2 DEF Dead
      <3> QED
        BY <3>1, <3>2
    <2> QED
      BY <2>1 DEF ReceiptsTrue
  <1>8. VerifiedDead' /\ ViewsUnmarked' /\ CompletedVerified'
    BY <1>1, <1>2, <1>6 DEF IInv, VerifiedDead, ViewsUnmarked, CompletedVerified
  <1>9. AloneGone'
    <2>1. ASSUME intact', NEW y \in Targets', Alone(y)', y.id \in Sessions,
                 IsVerified(y)' \/ \E r \in receipts' : r.gone /\ r.id = y.id
          PROVE  y \notin held'
      <3>1. Alone(y)
        BY <1>2, <2>1 DEF Alone
      <3>2. CASE IsVerified(y) \/ \E r \in receipts : r.gone /\ r.id = y.id
        BY <1>1, <1>2, <2>1, <3>1, <3>2 DEF IInv, AloneGone
      <3>3. CASE \E r \in receipts' \ receipts : r.gone /\ r.id = y.id
        <4>1. x.id = y.id /\ x \notin held'
          BY <1>1, <3>3
        <4> QED
          BY <3>1, <4>1 DEF Alone
      <3> QED
        BY <1>2, <2>1, <3>2, <3>3
    <2> QED
      BY <2>1 DEF AloneGone
  <1>10. AllListed'
    BY <1>1, <1>2 DEF IInv, AllListed
  <1> QED
    BY <1>4, <1>5, <1>7, <1>8, <1>9, <1>10 DEF IInv

\* A receipt marks the target it is about, and a session before its view.
LEMMA RecordKeeps ==
    ASSUME IInv, NEW r \in receipts, RecordResult(r)
    PROVE  IInv'
  <1>1. PICK x \in Targets :
            /\ Found(r.id, x)
            /\ LET of == [manifest.of EXCEPT ![x] = IF r.gone THEN "verified_absent"
                                                            ELSE "failed"]
               IN  manifest' = [status |-> Refreshed(manifest.status, of), of |-> of]
    BY DEF RecordResult
  <1>2. receipts' \subseteq receipts /\ UNCHANGED <<held, intents, made, intact>>
    BY DEF RecordResult
  <1> DEFINE of == [manifest.of EXCEPT ![x] = IF r.gone THEN "verified_absent" ELSE "failed"]
  <1>3. /\ manifest'.status = Refreshed(manifest.status, of) /\ manifest'.of = of
        /\ manifest' # None
    <2>1. DOMAIN of = Targets
      BY DEF Targets
    <2> HIDE DEF of
    <2>2. manifest' = [status |-> Refreshed(manifest.status, of), of |-> of]
      BY <1>1 DEF of
    <2>3. manifest'.status = Refreshed(manifest.status, of) /\ manifest'.of = of
      BY <2>2
    <2>4. DOMAIN None.of = {}
      BY DEF None
    <2> QED
      BY <2>1, <2>3, <2>4
  <1>4. /\ DOMAIN of = Targets /\ \A y \in Targets : y # x => of[y] = manifest.of[y]
        /\ of[x] = IF r.gone THEN "verified_absent" ELSE "failed"
    BY DEF Targets
  <1> HIDE DEF of
  <1>5. /\ Targets' = Targets
        /\ \A y \in Targets : IsVerified(y)' => IsVerified(y) \/ (y = x /\ r.gone)
    BY <1>3, <1>4 DEF Targets, IsVerified
  <1>6. x.id = r.id /\ \A y \in Targets : y.id = r.id /\ y.store = "aurora" => x.store = "aurora"
    BY <1>1 DEF Found
  <1>7. x \in Items /\ ~IsReference(x)
    BY DEF IInv, TargetsKept, ItemsKept
  <1>8. ItemsKept' /\ SourcesKept' /\ TargetsKept'
    BY <1>2, <1>3, <1>5 DEF IInv, ItemsKept, SourcesKept, TargetsKept
  <1>9. \A y : Dead(y) => Dead(y)'
    BY <1>2 DEF Dead
  <1>10. ReceiptsTrue'
    BY <1>2, <1>9 DEF IInv, ReceiptsTrue
  <1>11. VerifiedDead'
    <2>1. r.gone /\ x.id \notin Sessions => Dead(x)
      BY <1>6, <1>7 DEF IInv, ReceiptsTrue
    <2> QED
      BY <1>5, <1>9, <2>1 DEF IInv, VerifiedDead
  <1>12. ViewsUnmarked'
    <2>1. ASSUME NEW i \in Sessions, Row("interview_session", i) \in Targets, HotView(i) \in Targets,
                 x = HotView(i)
          PROVE  FALSE
      <3>1. /\ x.id = i /\ x.store = "dynamodb"
            /\ Row("interview_session", i).id = i /\ Row("interview_session", i).store = "aurora"
        BY <2>1, TypesOf
      <3> QED
        BY <1>6, <2>1, <3>1
    <2> QED
      BY <1>5, <2>1 DEF IInv, ViewsUnmarked
  <1>13. AloneGone'
    <2>1. ASSUME intact', NEW y \in Targets', Alone(y)', y.id \in Sessions,
                 IsVerified(y)' \/ \E q \in receipts' : q.gone /\ q.id = y.id
          PROVE  y \notin held'
      <3>1. Alone(y)
        BY <1>5, <2>1 DEF Alone
      <3>2. IsVerified(y) \/ \E q \in receipts : q.gone /\ q.id = y.id
        BY <1>2, <1>5, <1>6, <2>1
      <3> QED
        BY <1>2, <1>5, <2>1, <3>1, <3>2 DEF IInv, AloneGone
    <2> QED
      BY <2>1 DEF AloneGone
  <1>14. AllListed'
    BY <1>2, <1>5 DEF IInv, AllListed
  <1>15. CompletedVerified'
    <2> DEFINE verified == {y \in DOMAIN of : of[y] = "verified_absent"}
    <2>1. ASSUME verified # DOMAIN of PROVE Refreshed(manifest.status, of) # "completed"
      <3>1. CASE verified \notin {{}, DOMAIN of}
        BY <2>1, <3>1 DEF Refreshed
      <3>2. CASE verified = {}
        <4>1. of[x] = "failed"
          BY <1>4, <3>2
        <4>2. \E y \in DOMAIN of : of[y] = "failed"
          BY <1>4, <4>1
        <4> QED
          BY <2>1, <3>2, <4>2 DEF Refreshed
      <3> QED
        BY <2>1, <3>1, <3>2
    <2> QED
      BY <1>3, <1>4, <1>5, <2>1 DEF CompletedVerified, IsVerified, Targets
  <1> QED
    BY <1>8, <1>10, <1>11, <1>12, <1>13, <1>14, <1>15 DEF IInv

\* A restart forgets the manifest, the intents and what the process kept itself.
LEMMA RestartKeeps ==
    ASSUME IInv, Restart
    PROVE  IInv'
  <1>1. /\ held' = {x \in held : x.type \notin InMemory} /\ manifest' = None
        /\ intents' = {} /\ intact' = FALSE /\ UNCHANGED <<made, receipts>>
    BY DEF Restart
  <1>2. Targets' = {} /\ None.status = "none"
    <2>1. DOMAIN None.of = {} /\ None.status = "none"
      BY DEF None
    <2> QED
      BY <1>1, <2>1 DEF Targets
  <1>3. ItemsKept'
    BY <1>1 DEF IInv, ItemsKept
  <1>4. SourcesKept'
    <2>1. ASSUME NEW s \in Submissions, Reference(s) \in held' PROVE Row("submission", s) \in held'
      <3>1. Row("submission", s) \in held
        BY <1>1, <2>1 DEF IInv, SourcesKept
      <3>2. Row("submission", s).type = "submission"
        BY TypesOf
      <3> QED
        BY <1>1, <3>1, <3>2 DEF InMemory
    <2>2. ASSUME NEW s \in Submissions PROVE Document(s) \notin held'
      <3>1. Document(s).type = "source"
        BY TypesOf
      <3> QED
        BY <1>1, <3>1 DEF InMemory
    <2> QED
      BY <1>1, <2>1, <2>2 DEF IInv, SourcesKept
  <1>5. \A y : Dead(y) => Dead(y)'
    BY <1>1 DEF Dead
  <1>6. ReceiptsTrue'
    BY <1>1, <1>5 DEF IInv, ReceiptsTrue
  <1>7. TargetsKept' /\ VerifiedDead' /\ ViewsUnmarked' /\ AloneGone' /\ AllListed'
    BY <1>1, <1>2 DEF TargetsKept, VerifiedDead, ViewsUnmarked, AloneGone, AllListed
  <1>8. CompletedVerified'
    BY <1>2 DEF CompletedVerified
  <1> QED
    BY <1>3, <1>4, <1>6, <1>7, <1>8 DEF IInv

-----------------------------------------------------------------------------
(* The invariant and the theorems *)

LEMMA InitHolds == Init => IInv
  <1> SUFFICES ASSUME Init PROVE IInv
    OBVIOUS
  <1> DEFINE invitation == Row("invitation", Invitation)
  <1>1. /\ held = {invitation} /\ made = held /\ intents = {} /\ manifest = None
        /\ receipts = {} /\ intact = FALSE
    BY DEF Init
  <1>2. invitation \in Items /\ invitation.type = "invitation"
    BY MadeOf, TypesOf
  <1> HIDE DEF invitation
  <1>3. Targets = {} /\ None.status = "none"
    <2>1. DOMAIN None.of = {} /\ None.status = "none"
      BY DEF None
    <2> QED
      BY <1>1, <2>1 DEF Targets
  <1>4. ItemsKept
    BY <1>1, <1>2 DEF ItemsKept
  <1>5. SourcesKept
    <2>1. \A s \in Submissions : Reference(s) # invitation /\ Document(s) # invitation
      BY <1>2, TypesOf
    <2> QED
      BY <1>1, <2>1 DEF SourcesKept
  <1>6. TargetsKept /\ ReceiptsTrue /\ VerifiedDead /\ ViewsUnmarked /\ AloneGone /\ AllListed
    BY <1>1, <1>3 DEF TargetsKept, ReceiptsTrue, VerifiedDead, ViewsUnmarked, AloneGone, AllListed
  <1>7. CompletedVerified
    BY <1>1, <1>3 DEF CompletedVerified
  <1> QED
    BY <1>4, <1>5, <1>6, <1>7 DEF IInv

LEMMA StutteringKeeps == IInv /\ UNCHANGED vars => IInv'
  <1> SUFFICES ASSUME IInv, UNCHANGED vars PROVE IInv'
    OBVIOUS
  <1>1. UNCHANGED <<held, intents, made, manifest, receipts, intact>>
    BY DEF vars
  <1> QED
    BY <1>1 DEF IInv, ItemsKept, SourcesKept, TargetsKept, ReceiptsTrue, VerifiedDead, ViewsUnmarked,
                AloneGone, AllListed, CompletedVerified, Dead, IsVerified, Alone, Targets

LEMMA NextKeeps == IInv /\ [Next]_vars => IInv'
  <1> SUFFICES ASSUME IInv, [Next]_vars PROVE IInv'
    OBVIOUS
  <1>1. CASE UNCHANGED vars
    BY <1>1, StutteringKeeps
  <1>2. ASSUME NEW k \in Consents, Consent(k) PROVE IInv'
    <2> DEFINE x == Row("consent_record", k)
    <2>1. Make({x}) /\ x \in Items /\ x.type = "consent_record"
      BY <1>2, MadeOf, TypesOf DEF Consent
    <2> HIDE DEF x
    <2> QED
      BY <2>1, MakeKeeps DEF IsReference
  <1>3. ASSUME NEW i \in Sessions, Begin(i) PROVE IInv'
    <2> DEFINE x == Row("interview_session", i)
    <2>1. Make({x}) /\ x \in Items /\ x.type = "interview_session"
      BY <1>3, MadeOf, TypesOf DEF Begin
    <2> HIDE DEF x
    <2> QED
      BY <2>1, MakeKeeps DEF IsReference
  <1>4. ASSUME NEW i \in Sessions, NEW c \in Chunks, Accept(i, c) PROVE IInv'
    <2>1. Make({Media(c)}) /\ Media(c) \in Items /\ Media(c).type = "recording_object"
      BY <1>4, MadeOf, TypesOf DEF Accept
    <2> QED
      BY <2>1, MakeKeeps DEF IsReference
  <1>5. ASSUME NEW s \in Submissions, Submit(s) PROVE IInv'
    BY <1>5, SubmitKeeps
  <1>6. ASSUME NEW u \in Uploads, CreateIntent(u) PROVE IInv'
    BY <1>6, CreateIntentKeeps
  <1>7. CASE (\E u \in Uploads : Upload(u)) \/ (\E i \in Sessions : Reconcile(i))
    BY <1>7, AgainKeeps
  <1>8. CASE Enumerate
    BY <1>8, EnumerateKeeps
  <1>9. ASSUME NEW x \in Targets, DeleteTarget(x) PROVE IInv'
    BY <1>9, DeleteKeeps
  <1>10. ASSUME NEW r \in receipts, RecordResult(r) PROVE IInv'
    BY <1>10, RecordKeeps
  <1>11. CASE Restart
    BY <1>11, RestartKeeps
  <1> QED
    BY <1>1, <1>2, <1>3, <1>4, <1>5, <1>6, <1>7, <1>8, <1>9, <1>10, <1>11 DEF Next

\* What is gone is used up, receipts and marks speak only of what is gone, and an
\* intact manifest lists everything that is held.
THEOREM Inductive == Spec => []IInv
  BY InitHolds, NextKeeps, PTL DEF Spec

\* A verified target is gone, whatever receipts were lost, late or repeated, and over
\* restarts of the orchestrator (deletion_service.record_result).
THEOREM VerifiedGone == Spec => []VerifiedIsGone
  <1>1. IInv => VerifiedIsGone
    BY DEF IInv, VerifiedDead, VerifiedIsGone, Dead, IsVerified, IsOriginal
  <1> QED
    BY <1>1, Inductive, PTL

\* A completed manifest that is intact has left nothing (deletion.refresh).
THEOREM NothingLeft == Spec => []CompletedLeavesNothing
  <1>1. IInv => CompletedLeavesNothing
    <2> SUFFICES ASSUME IInv, manifest.status = "completed", intact, NEW x \in held
                 PROVE  FALSE
      BY DEF CompletedLeavesNothing
    <2>1. \A y \in Targets : IsVerified(y)
      BY DEF IInv, CompletedVerified
    <2>2. x \in Items
      BY DEF IInv, ItemsKept
    <2>3. ASSUME NEW y \in Targets, y \in held PROVE FALSE
      <3>1. y \in Items /\ ~IsReference(y)
        BY DEF IInv, TargetsKept, ItemsKept
      <3>2. CASE y.id \notin Sessions
        BY <2>1, <2>3, <3>2 DEF IInv, VerifiedDead, Dead
      <3>3. CASE y.id \in Sessions
        <4>1. ASSUME NEW z \in Targets, z.id = y.id, z # y PROVE FALSE
          <5>1. z \in Items
            BY DEF IInv, TargetsKept, ItemsKept
          <5>2. /\ y = Row("interview_session", y.id) \/ y = HotView(y.id)
                /\ z = Row("interview_session", y.id) \/ z = HotView(y.id)
            BY <3>1, <3>3, <4>1, <5>1, SessionIds
          <5>3. Row("interview_session", y.id) \in Targets /\ HotView(y.id) \in Targets
            BY <4>1, <5>2
          <5> QED
            BY <2>1, <3>3, <5>3 DEF IInv, ViewsUnmarked
        <4>2. Alone(y)
          BY <4>1 DEF Alone
        <4> QED
          BY <2>1, <2>3, <3>3, <4>2 DEF IInv, AloneGone
      <3> QED
        BY <3>2, <3>3
    <2>4. IsReference(x)
      BY <2>3 DEF IInv, AllListed
    <2>5. PICK s \in Submissions : x = Reference(s)
      BY <2>2, <2>4, Kinds
    <2>6. Row("submission", s) \in held
      BY <2>5 DEF IInv, SourcesKept
    <2>7. Row("submission", s) \in Targets
      <3>1. Row("submission", s).type = "submission"
        BY TypesOf
      <3> QED
        BY <2>6, <3>1 DEF IInv, AllListed, IsReference
    <2> QED
      BY <2>3, <2>6, <2>7
  <1> QED
    BY <1>1, Inductive, PTL

-----------------------------------------------------------------------------
(* HumanReviews *)

Sent == [phase : {"waiting", "replied", "ended"}, key : Keys, payload : Payloads,
         process : Processes, result : {"none", "told", "conflict", "failed"},
         names : Requests \cup {NoRequest}, alive : BOOLEAN]

Review == [key : Keys, payload : Payloads, by : Requests]

\* What each variable may hold.
ReviewsTypeOK ==
    /\ reviews \subseteq Review
    /\ deletions \subseteq Requests
    /\ requests \in [Requests -> {Unsent} \cup Sent]
    /\ \A i \in Requests : requests[i].phase = "waiting" => ~requests[i].alive
    /\ audits = [n \in Processes |-> audits[n]]

\* A committed review has its key for itself, and is the one its request wrote.
StoredOnce ==
    /\ \A v \in reviews : requests[v.by].phase = "ended" /\ requests[v.by].key = v.key
    /\ \A v, w \in reviews : v.key = w.key => v = w

\* At most one open transaction holds a key, and none one that is committed.
HeldOnce ==
    \A k \in Keys : /\ \A i, j \in Holders(k) : i = j
                    /\ Holders(k) # {} => Existing(k) = {}

\* What a reply names was sent under the key of the reply.
NamesItsKey ==
    \A i \in Requests : requests[i].result = "told" =>
        /\ requests[i].names \in Requests
        /\ requests[requests[i].names].phase # "unsent"
        /\ requests[requests[i].names].key = requests[i].key

\* A process remembers one decision under a key, and every one that it told.
AuditsAgree ==
    \A n \in Processes : \A a, b \in audits[n] : a.key = b.key => a.meta = b.meta

ToldIsAudited ==
    \A i \in Requests : requests[i].alive =>
        \E a \in audits[requests[i].process] :
            /\ a.key = AuditKey(i, requests[i].key, requests[i].payload)
            /\ a.meta = requests[i].payload.meta

\* The inductive invariant.
ReviewsIInv == ReviewsTypeOK /\ StoredOnce /\ HeldOnce /\ NamesItsKey /\ AuditsAgree /\ ToldIsAudited

-----------------------------------------------------------------------------
(* Requests that have not replied *)

\* Who is still in reach was handled.
LEMMA AliveIsSent ==
    ASSUME ReviewsTypeOK, NEW i \in Requests, requests[i].alive
    PROVE  requests[i] \in Sent /\ requests[i].process \in Processes
  <1>1. requests[i] \in Sent
    BY DEF ReviewsTypeOK, Unsent
  <1> QED
    BY <1>1 DEF Sent

\* A request that was not answered waits, fails or is refused: nobody is told anything.
LEMMA UntoldKeeps ==
    ASSUME ReviewsIInv, NEW i \in Requests, NEW c \in Sent,
           requests[i].phase \in {"unsent", "waiting"},
           requests[i].phase = "waiting" => requests[i].key = c.key,
           c.phase \in {"waiting", "ended"}, c.result # "told", c.alive = FALSE,
           requests' = [requests EXCEPT ![i] = c],
           UNCHANGED <<reviews, deletions, audits>>
    PROVE  ReviewsIInv'
  <1> USE DEF ReviewsIInv
  <1>1. ReviewsTypeOK'
    BY DEF ReviewsTypeOK
  <1>2. requests'[i] = c /\ \A j \in Requests \ {i} : requests'[j] = requests[j]
    BY DEF ReviewsTypeOK
  <1>3. StoredOnce'
    BY <1>2 DEF StoredOnce, ReviewsTypeOK, Review
  <1>4. HeldOnce'
    BY <1>2 DEF HeldOnce, Holders, Existing
  <1>5. NamesItsKey'
    BY <1>2 DEF NamesItsKey
  <1>6. AuditsAgree'
    BY DEF AuditsAgree
  <1>7. ToldIsAudited'
    <2> SUFFICES ASSUME NEW j \in Requests, requests'[j].alive
                 PROVE  \E a \in audits'[requests'[j].process] :
                           /\ a.key = AuditKey(j, requests'[j].key, requests'[j].payload)
                           /\ a.meta = requests'[j].payload.meta
      BY DEF ToldIsAudited, AuditKey
    <2>1. j # i
      BY <1>2
    <2>2. requests'[j] = requests[j] /\ requests[j].alive
      BY <1>2, <2>1
    <2>3. \E a \in audits[requests[j].process] :
              /\ a.key = AuditKey(j, requests[j].key, requests[j].payload)
              /\ a.meta = requests[j].payload.meta
      BY <2>2 DEF ToldIsAudited
    <2> QED
      BY <2>2, <2>3
  <1> QED
    BY <1>1, <1>3, <1>4, <1>5, <1>6, <1>7

\* A reply names a request that was sent under the key: itself, when nobody else holds
\* the key, or one whose review is stored.
LEMMA ReplyKeeps ==
    ASSUME ReviewsIInv, NEW i \in Requests, NEW k \in Keys, NEW p \in Payloads, NEW n \in Processes,
           NEW names \in Requests,
           requests[i].phase \in {"unsent", "waiting"},
           requests[i].phase = "waiting" => requests[i].key = k,
           \/ names # i /\ requests[names].phase # "unsent" /\ requests[names].key = k
           \/ names = i /\ IsDeletion(p)
           \/ names = i /\ Existing(k) = {} /\ Holders(k) = {},
           Reply(i, k, p, n, names),
           UNCHANGED <<reviews, deletions>>
    PROVE  ReviewsIInv'
  <1>1. CASE Conflicts(i, n, k, p)
    <2> DEFINE c == [phase |-> "ended", key |-> k, payload |-> p, process |-> n,
                     result |-> "conflict", names |-> NoRequest, alive |-> FALSE]
    <2>1. c \in Sent /\ c.phase = "ended" /\ c.key = k /\ c.result # "told" /\ c.alive = FALSE
      BY DEF Sent
    <2>2. requests' = [requests EXCEPT ![i] = c] /\ UNCHANGED audits
      BY <1>1 DEF Reply
    <2> HIDE DEF c
    <2> QED
      BY <2>1, <2>2, UntoldKeeps
  <1>2. CASE ~Conflicts(i, n, k, p)
    <2> DEFINE c == [phase |-> "replied", key |-> k, payload |-> p, process |-> n,
                     result |-> "told", names |-> names, alive |-> TRUE]
               event == [key |-> AuditKey(i, k, p), meta |-> p.meta]
    <2>1. /\ c \in Sent /\ c.phase = "replied" /\ c.key = k /\ c.payload = p /\ c.process = n
          /\ c.result = "told" /\ c.names = names
      BY DEF Sent
    <2>2. requests' = [requests EXCEPT ![i] = c] /\ audits' = [audits EXCEPT ![n] = @ \cup {event}]
      BY <1>2 DEF Reply
    <2>3. event.key = AuditKey(i, k, p) /\ event.meta = p.meta
      OBVIOUS
    <2> HIDE DEF c, event
    <2>4. /\ requests'[i] = c /\ \A j \in Requests \ {i} : requests'[j] = requests[j]
          /\ audits'[n] = audits[n] \cup {event}
          /\ \A m \in Processes \ {n} : audits'[m] = audits[m]
      BY <2>2 DEF ReviewsIInv, ReviewsTypeOK
    <2>5. ReviewsTypeOK'
      BY <2>1, <2>2 DEF ReviewsIInv, ReviewsTypeOK
    <2>6. StoredOnce'
      BY <2>4 DEF ReviewsIInv, StoredOnce, ReviewsTypeOK, Review
    <2>7. HeldOnce'
      BY <2>1, <2>4 DEF ReviewsIInv, HeldOnce, Holders, Existing
    <2>8. NamesItsKey'
      BY <2>1, <2>4 DEF ReviewsIInv, NamesItsKey
    <2>9. AuditsAgree'
      <3>1. \A a \in audits[n] : a.key = event.key => a.meta = event.meta
        BY <1>2, <2>3 DEF Conflicts
      <3> QED
        BY <2>4, <3>1 DEF ReviewsIInv, AuditsAgree
    <2>10. ToldIsAudited'
      <3>1. ASSUME NEW j \in Requests \ {i}, requests[j].alive
            PROVE  \E a \in audits'[requests'[j].process] :
                      /\ a.key = AuditKey(j, requests'[j].key, requests'[j].payload)
                      /\ a.meta = requests'[j].payload.meta
        <4>2. requests[j].process \in Processes
          BY <3>1, AliveIsSent DEF ReviewsIInv
        <4>3. audits[requests[j].process] \subseteq audits'[requests[j].process]
          BY <2>4, <4>2
        <4> QED
          BY <2>4, <3>1, <4>3 DEF ReviewsIInv, ToldIsAudited
      <3> QED
        BY <2>1, <2>3, <2>4, <3>1 DEF ToldIsAudited, AuditKey
    <2> QED
      BY <2>5, <2>6, <2>7, <2>8, <2>9, <2>10 DEF ReviewsIInv
  <1> QED
    BY <1>1, <1>2

\* A request is handled: it is the first under its key, a repeat, or has to wait.
LEMMA HandleKeeps ==
    ASSUME ReviewsIInv, NEW i \in Requests, NEW k \in Keys, NEW p \in Payloads, NEW n \in Processes,
           Handle(i, k, p, n)
    PROVE  ReviewsIInv'
  <1>1. requests[i].phase = "unsent" /\ UNCHANGED <<reviews, deletions>>
    BY DEF Handle
  <1>2. CASE RequestDeletion(i, k, p, n)
    BY <1>1, <1>2, ReplyKeeps DEF RequestDeletion
  <1>3. CASE Replay(i, k, p, n)
    <2>1. PICK v \in Existing(k) : Reply(i, k, p, n, v.by)
      BY <1>3 DEF Replay
    <2>2. /\ v.by \in Requests /\ requests[v.by].phase = "ended" /\ requests[v.by].key = k
      BY DEF Existing, ReviewsIInv, StoredOnce, ReviewsTypeOK, Review
    <2> QED
      BY <1>1, <2>1, <2>2, ReplyKeeps
  <1>4. CASE Insert(i, k, p, n)
    BY <1>1, <1>4, ReplyKeeps DEF Insert
  <1>5. CASE Wait(i, k, p, n)
    <2> DEFINE c == [phase |-> "waiting", key |-> k, payload |-> p, process |-> n,
                     result |-> "none", names |-> NoRequest, alive |-> FALSE]
    <2>1. c \in Sent /\ c.phase = "waiting" /\ c.key = k /\ c.result # "told" /\ c.alive = FALSE
      BY DEF Sent
    <2>2. requests' = [requests EXCEPT ![i] = c] /\ UNCHANGED audits
      BY <1>5 DEF Wait
    <2> HIDE DEF c
    <2> QED
      BY <1>1, <2>1, <2>2, UntoldKeeps
  <1> QED
    BY <1>2, <1>3, <1>4, <1>5 DEF Handle

\* A statement that waited meets a stored review, or goes through.
LEMMA WakeKeeps ==
    ASSUME ReviewsIInv, NEW i \in Requests, Wake(i)
    PROVE  ReviewsIInv'
  <1>1. requests[i].phase = "waiting" /\ UNCHANGED <<reviews, deletions>>
    BY DEF Wake
  <1>2. requests[i] \in Sent
    BY <1>1 DEF ReviewsIInv, ReviewsTypeOK, Unsent
  <1>3. /\ requests[i].key \in Keys /\ requests[i].payload \in Payloads
        /\ requests[i].process \in Processes
    BY <1>2 DEF Sent
  <1>4. CASE Existing(requests[i].key) # {}
    <2> DEFINE c == [requests[i] EXCEPT !.phase = "ended", !.result = "failed"]
    <2>1. requests' = [requests EXCEPT ![i] = c] /\ UNCHANGED audits
      BY <1>4 DEF Wake, ReviewsIInv, ReviewsTypeOK
    <2>2. requests[i].alive = FALSE
      BY <1>1, <1>2 DEF Sent, ReviewsIInv, ReviewsTypeOK
    <2>3. /\ c \in Sent /\ c.phase = "ended" /\ c.key = requests[i].key
          /\ c.result # "told" /\ c.alive = FALSE
      BY <1>2, <2>2 DEF Sent
    <2> HIDE DEF c
    <2> QED
      BY <1>1, <2>1, <2>3, UntoldKeeps
  <1>5. CASE Existing(requests[i].key) = {}
    <2>1. /\ Holders(requests[i].key) = {}
          /\ Reply(i, requests[i].key, requests[i].payload, requests[i].process, i)
      BY <1>5 DEF Wake
    <2> QED
      BY <1>1, <1>3, <1>5, <2>1, ReplyKeeps
  <1> QED
    BY <1>4, <1>5

-----------------------------------------------------------------------------
(* Requests that have *)

\* What replies name stays what it was.
LEMMA NamesKept ==
    ASSUME NamesItsKey,
           \A i \in Requests : /\ requests'[i].result = requests[i].result
                              /\ requests'[i].names = requests[i].names
                              /\ (requests[i].phase # "unsent" => requests'[i].phase # "unsent")
                              /\ requests'[i].key = requests[i].key
    PROVE  NamesItsKey'
  BY DEF NamesItsKey

\* Some requests end; those whose process dies are no more in reach.
Ending(over, dying) ==
    /\ over \subseteq Requests
    /\ \A i \in over : requests[i].phase # "unsent"
    /\ requests' = [i \in Requests |->
          IF i \notin over THEN requests[i]
          ELSE IF i \in dying THEN [requests[i] EXCEPT !.phase = "ended", !.alive = FALSE]
          ELSE [requests[i] EXCEPT !.phase = "ended"]]

\* What that leaves of each of them.
Ended(over, dying) ==
    /\ over \subseteq Requests
    /\ \A i \in Requests \ over : requests'[i] = requests[i]
    /\ \A i \in over :
          /\ requests'[i] \in Sent
          /\ requests'[i].phase = "ended"
          /\ requests[i].phase # "unsent"
          /\ requests'[i].alive = IF i \in dying THEN FALSE ELSE requests[i].alive
    /\ \A i \in Requests :
          /\ requests'[i].key = requests[i].key
          /\ requests'[i].payload = requests[i].payload
          /\ requests'[i].process = requests[i].process
          /\ requests'[i].result = requests[i].result
          /\ requests'[i].names = requests[i].names

LEMMA EndingEnds ==
    ASSUME ReviewsTypeOK, NEW over, NEW dying, Ending(over, dying)
    PROVE  Ended(over, dying)
  <1>1. \A i \in over : i \in Requests /\ requests[i] \in Sent
    <2>1. ASSUME NEW i \in over PROVE i \in Requests /\ requests[i].phase # "unsent"
      BY <2>1 DEF Ending
    <2> QED
      BY <2>1 DEF ReviewsTypeOK, Unsent
  <1>2. \A i \in Requests \ over : requests'[i] = requests[i]
    BY DEF Ending
  <1>3. \A i \in over :
            requests'[i] = IF i \in dying THEN [requests[i] EXCEPT !.phase = "ended", !.alive = FALSE]
                           ELSE [requests[i] EXCEPT !.phase = "ended"]
    BY <1>1 DEF Ending
  <1>4. \A i \in over :
            /\ requests'[i] \in Sent
            /\ requests'[i].phase = "ended"
            /\ requests'[i].alive = IF i \in dying THEN FALSE ELSE requests[i].alive
            /\ requests'[i].key = requests[i].key
            /\ requests'[i].payload = requests[i].payload
            /\ requests'[i].process = requests[i].process
            /\ requests'[i].result = requests[i].result
            /\ requests'[i].names = requests[i].names
    <2> SUFFICES ASSUME NEW i \in over
                 PROVE  /\ requests'[i] \in Sent
                        /\ requests'[i].phase = "ended"
                        /\ requests'[i].alive = IF i \in dying THEN FALSE ELSE requests[i].alive
                        /\ requests'[i].key = requests[i].key
                        /\ requests'[i].payload = requests[i].payload
                        /\ requests'[i].process = requests[i].process
                        /\ requests'[i].result = requests[i].result
                        /\ requests'[i].names = requests[i].names
      OBVIOUS
    <2>1. requests[i] \in Sent
      BY <1>1
    <2>2. CASE i \in dying
      <3>1. requests'[i] = [requests[i] EXCEPT !.phase = "ended", !.alive = FALSE]
        BY <1>3, <2>2
      <3> QED
        BY <2>1, <2>2, <3>1 DEF Sent
    <2>3. CASE i \notin dying
      <3>1. requests'[i] = [requests[i] EXCEPT !.phase = "ended"]
        BY <1>3, <2>3
      <3> QED
        BY <2>1, <2>3, <3>1 DEF Sent
    <2> QED
      BY <2>2, <2>3
  <1> QED
    BY <1>2, <1>4 DEF Ended, Ending

\* The types of what has ended.
LEMMA EndedTypes ==
    ASSUME ReviewsTypeOK, NEW over, NEW dying, Ending(over, dying),
           reviews' \subseteq Review, deletions' \subseteq Requests,
           audits' = [n \in Processes |-> audits'[n]]
    PROVE  ReviewsTypeOK'
  <1>1. Ended(over, dying)
    BY EndingEnds
  <1>2. requests' \in [Requests -> {Unsent} \cup Sent]
    <2>1. requests' = [i \in Requests |-> requests'[i]]
      BY DEF Ending
    <2>2. \A i \in Requests : requests'[i] \in {Unsent} \cup Sent
      BY <1>1 DEF Ended, ReviewsTypeOK
    <2> QED
      BY <2>1, <2>2
  <1>3. \A i \in Requests : requests'[i].phase = "waiting" => ~requests'[i].alive
    BY <1>1 DEF Ended, ReviewsTypeOK
  <1> QED
    BY <1>2, <1>3 DEF ReviewsTypeOK

\* No review is added: what is stored, held and named stays so.
LEMMA EndedKeeps ==
    ASSUME ReviewsIInv, NEW over, NEW dying, Ended(over, dying), UNCHANGED reviews
    PROVE  StoredOnce' /\ HeldOnce' /\ NamesItsKey'
  <1>1. \A v \in reviews : v.by \in Requests
    BY DEF ReviewsIInv, ReviewsTypeOK, Review
  <1>2. StoredOnce'
    BY ZenonT(40), <1>1 DEF ReviewsIInv, StoredOnce, Ended
  <1>3. \A k \in Keys : Holders(k)' \subseteq Holders(k) /\ Existing(k)' = Existing(k)
    BY DEF Holders, Existing, Ended
  <1>4. HeldOnce'
    BY <1>3 DEF ReviewsIInv, HeldOnce
  <1>5. NamesItsKey'
    BY NamesKept DEF ReviewsIInv, Ended
  <1> QED
    BY <1>2, <1>4, <1>5

\* The review of a request that holds its key is added.
LEMMA AddedKeeps ==
    ASSUME ReviewsIInv, NEW i \in Requests, NEW dying, Ended({i}, dying),
           NEW v \in Review, v.by = i, v.key = requests[i].key,
           i \in Holders(v.key), reviews' = reviews \cup {v}
    PROVE  StoredOnce' /\ HeldOnce' /\ NamesItsKey'
  <1>1. v.key \in Keys /\ \A w \in reviews : w.key # v.key /\ w.by \in Requests
    BY DEF ReviewsIInv, HeldOnce, Existing, Review, ReviewsTypeOK
  <1>2. StoredOnce'
    BY <1>1 DEF ReviewsIInv, StoredOnce, Ended
  <1>3. HeldOnce'
    <2> SUFFICES ASSUME NEW k \in Keys
                 PROVE  /\ \A j, l \in Holders(k)' : j = l
                        /\ Holders(k)' # {} => Existing(k)' = {}
      BY DEF HeldOnce
    <2>1. Holders(k)' \subseteq Holders(k) \ {i}
      BY DEF Holders, Ended
    <2>2. \A j, l \in Holders(k) : j = l
      BY DEF ReviewsIInv, HeldOnce
    <2>3. ASSUME Holders(k)' # {} PROVE Existing(k)' = {}
      <3>1. k # v.key
        BY <2>1, <2>2, <2>3
      <3>2. Existing(k) = {}
        BY <2>1, <2>3 DEF ReviewsIInv, HeldOnce
      <3> QED
        BY <3>1, <3>2 DEF Existing
    <2> QED
      BY <2>1, <2>2, <2>3
  <1>4. NamesItsKey'
    BY NamesKept DEF ReviewsIInv, Ended
  <1> QED
    BY <1>2, <1>3, <1>4

\* A process forgets what it told only with everybody whom it told.
LEMMA AuditsKept ==
    ASSUME ReviewsIInv, NEW over, NEW dying, Ended(over, dying),
           \A n \in Processes : audits'[n] \in {audits[n], {}},
           \A j \in Requests : requests[j] \in Sent /\ audits'[requests[j].process] # audits[requests[j].process]
                              => j \in over \cap dying
    PROVE  AuditsAgree' /\ ToldIsAudited'
  <1>1. AuditsAgree'
    BY DEF ReviewsIInv, AuditsAgree
  <1>2. ToldIsAudited'
    <2> SUFFICES ASSUME NEW j \in Requests, requests'[j].alive
                 PROVE  \E a \in audits'[requests'[j].process] :
                           /\ a.key = AuditKey(j, requests'[j].key, requests'[j].payload)
                           /\ a.meta = requests'[j].payload.meta
      BY DEF ToldIsAudited, AuditKey
    <2>1. requests[j].alive /\ j \notin over \cap dying
      BY DEF Ended
    <2>2. requests[j] \in Sent
      BY <2>1, AliveIsSent DEF ReviewsIInv
    <2>3. audits'[requests[j].process] = audits[requests[j].process]
      BY <2>1, <2>2
    <2>4. \E a \in audits[requests[j].process] :
              /\ a.key = AuditKey(j, requests[j].key, requests[j].payload)
              /\ a.meta = requests[j].payload.meta
      BY <2>1 DEF ReviewsIInv, ToldIsAudited
    <2> QED
      BY <2>3, <2>4 DEF Ended
  <1> QED
    BY <1>1, <1>2

LEMMA CommitKeeps ==
    ASSUME ReviewsIInv, NEW i \in Requests, Commit(i) \/ CommitFails(i)
    PROVE  ReviewsIInv'
  <1>1. requests[i].phase = "replied" /\ UNCHANGED audits
    BY DEF Commit, CommitFails
  <1>2. Ending({i}, {})
    BY <1>1 DEF Commit, CommitFails, End, Ending, ReviewsIInv, ReviewsTypeOK
  <1>3. Ended({i}, {})
    BY <1>2, EndingEnds DEF ReviewsIInv
  <1>4. requests[i] \in Sent
    BY <1>1 DEF ReviewsIInv, ReviewsTypeOK, Unsent
  <1>5. AuditsAgree' /\ ToldIsAudited'
    BY <1>1, <1>3, AuditsKept
  <1>6. audits' = [n \in Processes |-> audits'[n]]
    BY <1>1 DEF ReviewsIInv, ReviewsTypeOK
  <1>7. deletions' \subseteq Requests
    BY DEF Commit, CommitFails, ReviewsIInv, ReviewsTypeOK
  <1> DEFINE v == [key |-> requests[i].key, payload |-> requests[i].payload, by |-> i]
  <1>8. v \in Review /\ v.by = i /\ v.key = requests[i].key
    BY <1>4 DEF Sent, Review
  <1>9. \/ UNCHANGED reviews
        \/ /\ reviews' = reviews \cup {v}
           /\ i \in Holders(v.key)
    BY <1>1 DEF Commit, CommitFails, Holders
  <1> HIDE DEF v
  <1>10. ReviewsTypeOK'
    <2>1. reviews' \subseteq Review
      BY <1>8, <1>9 DEF ReviewsIInv, ReviewsTypeOK
    <2> QED
      BY <1>2, <1>6, <1>7, <2>1, EndedTypes DEF ReviewsIInv
  <1>11. StoredOnce' /\ HeldOnce' /\ NamesItsKey'
    BY <1>3, <1>8, <1>9, EndedKeeps, AddedKeeps
  <1> QED
    BY <1>5, <1>10, <1>11 DEF ReviewsIInv

LEMMA ReviewsRestartKeeps ==
    ASSUME ReviewsIInv, NEW n \in Processes, ProcessRestarts(n)
    PROVE  ReviewsIInv'
  <1> DEFINE over == {i \in Requests : requests[i].phase # "unsent" /\ requests[i].process = n}
  <1>1. Ending(over, over)
    BY DEF ProcessRestarts, Ending
  <1>2. /\ audits' = [audits EXCEPT ![n] = {}]
        /\ audits' = [m \in Processes |-> audits'[m]]
        /\ UNCHANGED <<reviews, deletions>>
    BY DEF ProcessRestarts, ReviewsIInv, ReviewsTypeOK
  <1>3. \A m \in Processes : audits'[m] = IF m = n THEN {} ELSE audits[m]
    BY <1>2 DEF ReviewsIInv, ReviewsTypeOK
  <1>4. \A j \in Requests :
            requests[j] \in Sent /\ requests[j].process = n => j \in over
    BY DEF Sent
  <1> HIDE DEF over
  <1>5. Ended(over, over)
    BY <1>1, EndingEnds DEF ReviewsIInv
  <1>6. ReviewsTypeOK'
    BY <1>1, <1>2, EndedTypes DEF ReviewsIInv, ReviewsTypeOK
  <1>7. StoredOnce' /\ HeldOnce' /\ NamesItsKey'
    BY <1>2, <1>5, EndedKeeps
  <1>8. AuditsAgree' /\ ToldIsAudited'
    <2>1. \A j \in Requests :
              /\ requests[j] \in Sent
              /\ audits'[requests[j].process] # audits[requests[j].process]
              => j \in over \cap over
      BY <1>3, <1>4 DEF Sent
    <2> QED
      BY <1>3, <1>5, <2>1, AuditsKept
  <1> QED
    BY <1>6, <1>7, <1>8 DEF ReviewsIInv

-----------------------------------------------------------------------------
(* The invariant and the theorems *)

LEMMA ReviewsInitHolds == ReviewInit => ReviewsIInv
  <1> SUFFICES ASSUME ReviewInit PROVE ReviewsIInv
    OBVIOUS
  <1>1. reviews = {} /\ deletions = {} /\ \A i \in Requests : requests[i] = Unsent
    BY DEF ReviewInit
  <1>2. \A i \in Requests : /\ requests[i].phase = "unsent" /\ requests[i].result = "none"
                            /\ requests[i].alive = FALSE
    BY <1>1 DEF Unsent
  <1>3. ReviewsTypeOK
    BY <1>1, <1>2 DEF ReviewInit, ReviewsTypeOK
  <1>4. StoredOnce /\ HeldOnce /\ NamesItsKey
    BY <1>1, <1>2 DEF StoredOnce, HeldOnce, Holders, Existing, NamesItsKey
  <1>5. AuditsAgree /\ ToldIsAudited
    BY <1>2 DEF ReviewInit, AuditsAgree, ToldIsAudited
  <1> QED
    BY <1>3, <1>4, <1>5 DEF ReviewsIInv

LEMMA ReviewsStutteringKeeps == ReviewsIInv /\ UNCHANGED reviewVars => ReviewsIInv'
  <1> SUFFICES ASSUME ReviewsIInv, UNCHANGED reviewVars PROVE ReviewsIInv'
    OBVIOUS
  <1> USE DEF reviewVars, ReviewsIInv
  <1>1. ReviewsTypeOK'
    BY DEF ReviewsTypeOK
  <1>2. StoredOnce'
    BY DEF StoredOnce
  <1>3. HeldOnce'
    <2>1. \A k \in Keys : Holders(k)' = Holders(k) /\ Existing(k)' = Existing(k)
      BY DEF Holders, Existing
    <2> QED
      BY <2>1 DEF HeldOnce
  <1>4. NamesItsKey'
    BY DEF NamesItsKey
  <1>5. AuditsAgree'
    BY DEF AuditsAgree
  <1>6. ToldIsAudited'
    BY DEF ToldIsAudited
  <1> QED
    BY <1>1, <1>2, <1>3, <1>4, <1>5, <1>6

LEMMA ReviewsNextKeeps == ReviewsIInv /\ [ReviewNext]_reviewVars => ReviewsIInv'
  <1> SUFFICES ASSUME ReviewsIInv, [ReviewNext]_reviewVars PROVE ReviewsIInv'
    OBVIOUS
  <1>1. CASE UNCHANGED reviewVars
    BY <1>1, ReviewsStutteringKeeps
  <1>2. ASSUME NEW i \in Requests, NEW p \in Payloads, NEW n \in Processes,
               Click(i, p, n) \/ \E k \in Keys : SendDirectly(i, k, p, n)
        PROVE  ReviewsIInv'
    <2>1. PICK k \in Keys : Handle(i, k, p, n)
      BY <1>2 DEF Click, SendDirectly
    <2> QED
      BY <2>1, HandleKeeps
  <1>3. ASSUME NEW i \in Requests, Wake(i) PROVE ReviewsIInv'
    BY <1>3, WakeKeeps
  <1>4. ASSUME NEW i \in Requests, Commit(i) \/ CommitFails(i) PROVE ReviewsIInv'
    BY <1>4, CommitKeeps
  <1>5. ASSUME NEW n \in Processes, ProcessRestarts(n) PROVE ReviewsIInv'
    BY <1>5, ReviewsRestartKeeps
  <1> QED
    BY <1>1, <1>2, <1>3, <1>4, <1>5 DEF ReviewNext

\* The inductive invariant holds whatever is sent, repeated, committed or lost.
THEOREM ReviewsInductive == ReviewSpec => []ReviewsIInv
  BY ReviewsInitHolds, ReviewsNextKeeps, PTL DEF ReviewSpec

\* All that is told under one idempotency key names one stored review
\* (reporting/api/runtime.py, _append_review).
THEOREM ToldNamesOne == ReviewSpec => []NamesOneReview
  <1>1. ReviewsIInv => NamesOneReview
    <2> SUFFICES ASSUME ReviewsIInv,
                        NEW i \in Requests, NEW j \in Requests,
                        requests[i].result = "told", requests[j].result = "told",
                        NEW v \in reviews, v.by = requests[i].names,
                        NEW w \in reviews, w.by = requests[j].names,
                        requests[i].key = requests[j].key
                 PROVE  requests[i].names = requests[j].names
      BY DEF NamesOneReview
    <2>1. v.key = requests[i].key /\ w.key = requests[j].key
      BY DEF ReviewsIInv, StoredOnce, NamesItsKey
    <2> QED
      BY <2>1 DEF ReviewsIInv, StoredOnce
  <1> QED
    BY <1>1, ReviewsInductive, PTL

\* A process that lives tells one decision under a key: a repeat that says something
\* else is refused by the audit (shared/audit.py, append).
THEOREM OneDecisionIsTold == ReviewSpec => []ToldAlike
  <1>1. ReviewsIInv => ToldAlike
    <2> SUFFICES ASSUME ReviewsIInv,
                        NEW i \in Requests, NEW j \in Requests,
                        requests[i].alive, requests[j].alive,
                        requests[i].process = requests[j].process,
                        requests[i].key = requests[j].key,
                        requests[i].payload.action = requests[j].payload.action,
                        requests[i].payload.resource = requests[j].payload.resource,
                        ~IsDeletion(requests[i].payload)
                 PROVE  requests[i].payload.meta = requests[j].payload.meta
      BY DEF ToldAlike
    <2>1. requests[i].process \in Processes
      BY AliveIsSent DEF ReviewsIInv
    <2>2. AuditKey(i, requests[i].key, requests[i].payload)
            = AuditKey(j, requests[j].key, requests[j].payload)
      BY DEF AuditKey, IsDeletion
    <2>3. PICK a \in audits[requests[i].process] :
              /\ a.key = AuditKey(i, requests[i].key, requests[i].payload)
              /\ a.meta = requests[i].payload.meta
      BY DEF ReviewsIInv, ToldIsAudited
    <2>4. PICK b \in audits[requests[i].process] :
              /\ b.key = AuditKey(j, requests[j].key, requests[j].payload)
              /\ b.meta = requests[j].payload.meta
      BY DEF ReviewsIInv, ToldIsAudited
    <2> QED
      BY <2>1, <2>2, <2>3, <2>4 DEF ReviewsIInv, AuditsAgree
  <1> QED
    BY <1>1, ReviewsInductive, PTL

=============================================================================
