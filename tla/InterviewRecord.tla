--------------------------- MODULE InterviewRecord ---------------------------
(***************************************************************************)
(* What an interview session promises about its committed record, with no  *)
(* connection, checkpoint, sequence or failure in sight: final answers are  *)
(* only ever added, never changed, and the interview is over, and announced *)
(* to the rest of the platform, in the very commit that brings the last of  *)
(* the asked answers.  InterviewStream is shown to implement this.          *)
(***************************************************************************)
EXTENDS Naturals, FiniteSets

CONSTANT AnswersWanted

VARIABLES
    answers,    \* the final answers, each at its place in the transcript
    phase,      \* "open" or "completed"
    announced   \* interview.completed is in the outbox

record == <<answers, phase, announced>>

Keeps(old, new) ==
    \A place \in DOMAIN old : place \in DOMAIN new /\ new[place] = old[place]

Begin ==
    /\ DOMAIN answers = {}
    /\ phase = "open"
    /\ announced = FALSE

\* One commit may bring several answers: a connection commits when it ends.
Commit ==
    /\ phase = "open"
    /\ Keeps(answers, answers')
    /\ Cardinality(DOMAIN answers') <= AnswersWanted
    /\ phase' = IF Cardinality(DOMAIN answers') = AnswersWanted THEN "completed" ELSE "open"
    /\ announced' = (phase' = "completed")

Promise == Begin /\ [][Commit]_record
=============================================================================
