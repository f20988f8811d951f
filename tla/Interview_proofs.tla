--------------------------- MODULE Interview_proofs ---------------------------
(***************************************************************************)
(* Theorems about InterviewStream, for every value of its constants; then   *)
(* about InterviewRoom, whose applicant's page is a client of the stream.   *)
(***************************************************************************)
EXTENDS InterviewRoom, WellFoundedInduction, FiniteSetTheorems, SequenceTheorems, TLAPS

-----------------------------------------------------------------------------
(* Maxima *)

\* A bounded set of naturals that is not empty has a maximum: what LastQuestion,
\* LastVerified and Latest rest on.
LEMMA MaxOfBounded ==
    ASSUME NEW S \in SUBSET Nat, S # {}, NEW n \in Nat, \A x \in S : x <= n
    PROVE  Max(S) \in S /\ \A y \in S : y <= Max(S)
  <1> DEFINE T == {k \in Nat : n - k \in S}
  <1>1. T # {}
    <2>1. PICK x \in S : TRUE
      OBVIOUS
    <2>2. x \in Nat /\ x <= n
      BY <2>1
    <2>3. n - x \in Nat /\ n - (n - x) = x
      BY <2>2
    <2> QED
      BY <2>1, <2>3
  <1>2. PICK m \in T : \A t \in T : ~(<<t, m>> \in OpToRel(<, Nat))
    <2>1. T \subseteq Nat
      OBVIOUS
    <2> HIDE DEF T
    <2> QED
      BY <1>1, <2>1, NatLessThanWellFounded, WFMin
  <1>3. ASSUME NEW y \in S
        PROVE  y <= n - m
    <2>1. y \in Nat /\ y <= n
      BY <1>3
    <2>2. n - y \in Nat /\ n - (n - y) = y
      BY <2>1
    <2>3. n - y \in T
      BY <1>3, <2>2
    <2>4. ~(n - y < m)
      BY <1>2, <2>2, <2>3 DEF OpToRel
    <2> QED
      BY <2>1, <2>4
  <1>4. n - m \in S
    OBVIOUS
  <1> QED
    BY <1>3, <1>4 DEF Max

\* The greater of two sequences: what Respond keeps in told.
LEMMA MaxOfTwo ==
    ASSUME NEW a \in Nat, NEW b \in Nat
    PROVE  Max({a, b}) \in {a, b}
  <1>1. \E x \in {a, b} : \A y \in {a, b} : x >= y
    <2>1. CASE a >= b
      BY <2>1
    <2>2. CASE b >= a
      BY <2>2
    <2> QED
      BY <2>1, <2>2
  <1> QED
    BY <1>1 DEF Max

-----------------------------------------------------------------------------
(* What every row operation keeps, whatever handler it is part of *)

OneTurnPerAnswer(d) == \A a \in AnswerIds : \A i, j \in Places(d, a) : i = j

NoGap(d, chunks) == \A n \in d.verified : 1..n \subseteq d.verified \cap chunks

\* Everything but the exactness of completion, which holds only once a handler
\* is through with its row operations.
Base(d, chunks) ==
    /\ d \in Rows
    /\ NoGap(d, chunks)
    /\ CheckpointsSoundIn(d)
    /\ OneTurnPerAnswer(d)

\* e has all of d's questions, final answers, checkpoints and verified chunks.
Extends(d, e) ==
    /\ d.sequence <= e.sequence
    /\ \A i \in Questions(d) \cup Finals(d) : i \in DOMAIN e.turns /\ e.turns[i] = d.turns[i]
    /\ d.checkpoints \subseteq e.checkpoints
    /\ d.verified \subseteq e.verified

\* What the session row and the final answers have in common with those of d.
SameStanding(d, e) ==
    /\ e.state = d.state
    /\ e.event = d.event
    /\ Finals(e) = Finals(d)

\* Where no checkpoint of the current sequence is written yet.
Unmarked(d) == d.sequence > 0 /\ \A c \in d.checkpoints : c.at < d.sequence

\* Adding to rows and then adding again is adding.
LEMMA ExtendsTransitive ==
    ASSUME NEW d, NEW e, NEW f,
           d \in Rows, e \in Rows, f \in Rows, Extends(d, e), Extends(e, f)
    PROVE  Extends(d, f)
  BY DEF Extends, Questions, Finals, Rows

\* Rows that stay as they are extend themselves.
LEMMA ExtendsReflexive ==
    ASSUME NEW d, d \in Rows
    PROVE  Extends(d, d)
  BY DEF Extends, Questions, Finals, Rows

\* Questions and final answers stay what they are in rows that extend others.
LEMMA ExtendsKeepsPlaces ==
    ASSUME NEW d, NEW e, Extends(d, e)
    PROVE  Questions(d) \subseteq Questions(e) /\ Finals(d) \subseteq Finals(e)
  BY DEF Extends, Questions, Finals

\* Rows that extend sound ones with no new checkpoint are sound.
LEMMA ExtendedBase ==
    ASSUME NEW d, NEW e, NEW chunks,
           Base(d, chunks), Extends(d, e), e \in Rows, NoGap(e, chunks),
           OneTurnPerAnswer(e), e.checkpoints = d.checkpoints
    PROVE  Base(e, chunks)
  <1>1. Questions(d) \subseteq Questions(e) /\ Finals(d) \subseteq Finals(e)
    BY ExtendsKeepsPlaces
  <1>2. ASSUME NEW c \in e.checkpoints
        PROVE  /\ c.at \in 1..e.sequence
               /\ c.pending \in Questions(e) \cup {0}
               /\ c.final \in Finals(e) \cup {0}
               /\ c.media \in e.verified \cup {0}
    BY <1>1, <1>2 DEF Base, CheckpointsSoundIn, Extends, Rows
  <1> QED
    BY <1>2 DEF Base, CheckpointsSoundIn

-----------------------------------------------------------------------------
(* The row operations that leave the turns alone *)

\* Marking the chunks up to one of them as verified: the verified ones stay
\* without a gap, because every chunk below it is marked too.
LEMMA VerifiedKeeps ==
    ASSUME NEW d, NEW chunks, NEW through \in 0..MaxChunks,
           Base(d, chunks), 1..through \subseteq d.verified \cup chunks
    PROVE  /\ Base(Verified(d, through), chunks)
           /\ Extends(d, Verified(d, through))
           /\ SameStanding(d, Verified(d, through))
           /\ through \in Verified(d, through).verified \cup {0}
  <1> DEFINE e == Verified(d, through)
  <1>1. d \in Rows
    BY DEF Base
  <1>2. e.verified = d.verified \cup 1..through /\ e.turns = d.turns
        /\ e.state = d.state /\ e.event = d.event /\ e.sequence = d.sequence
        /\ e.checkpoints = d.checkpoints
    BY <1>1 DEF Verified, Rows
  <1>3. e \in Rows
    BY <1>1, BoundsAssumption DEF Verified, Rows
  <1>4. Extends(d, e) /\ SameStanding(d, e)
    BY <1>1, <1>2 DEF Extends, SameStanding, Questions, Finals, Rows
  <1>5. d.verified \subseteq chunks
    <2>1. ASSUME NEW n \in d.verified PROVE n \in chunks
      <3>1. n \in 1..n
        BY <1>1, BoundsAssumption DEF Rows
      <3> QED
        BY <3>1 DEF Base, NoGap
    <2> QED
      BY <2>1
  <1>6. NoGap(e, chunks)
    <2>1. ASSUME NEW n \in e.verified PROVE 1..n \subseteq e.verified \cap chunks
      <3>1. CASE n \in d.verified
        BY <1>2, <3>1 DEF Base, NoGap
      <3>2. CASE n \in 1..through
        <4>1. 1..n \subseteq 1..through
          BY <3>2, BoundsAssumption
        <4> QED
          BY <1>2, <1>5, <4>1
      <3> QED
        BY <1>2, <2>1, <3>1, <3>2
    <2> QED
      BY <2>1 DEF NoGap
  <1>7. OneTurnPerAnswer(e)
    BY <1>2 DEF Base, OneTurnPerAnswer, Places
  <1>8. Base(e, chunks)
    BY <1>2, <1>3, <1>4, <1>6, <1>7, ExtendedBase
  <1> QED
    BY <1>2, <1>4, <1>8, BoundsAssumption

\* A transition moves past every checkpoint there is, so that the next one may be
\* written at the sequence it reaches.
LEMMA PassedKeeps ==
    ASSUME NEW d, NEW chunks, NEW steps \in {1, 2},
           NEW target \in {"awaiting_answer", "paused", "completed"},
           Base(d, chunks)
    PROVE  /\ Base(Passed(d, target, steps), chunks)
           /\ Extends(d, Passed(d, target, steps))
           /\ Unmarked(Passed(d, target, steps))
           /\ Finals(Passed(d, target, steps)) = Finals(d)
           /\ Passed(d, target, steps).state = target
           /\ Passed(d, target, steps).event = d.event
           /\ Passed(d, target, steps).sequence = d.sequence + steps
           /\ Passed(d, target, steps).turns = d.turns
           /\ Passed(d, target, steps).verified = d.verified
           /\ Passed(d, target, steps).checkpoints = d.checkpoints
  <1> DEFINE e == Passed(d, target, steps)
  <1>1. d \in Rows
    BY DEF Base
  <1>2. e.sequence = d.sequence + steps /\ e.turns = d.turns /\ e.state = target
        /\ e.event = d.event /\ e.verified = d.verified /\ e.checkpoints = d.checkpoints
    BY <1>1 DEF Passed, Rows
  <1>3. e \in Rows
    <2>1. d.sequence + steps \in Nat
      BY <1>1 DEF Rows
    <2> HIDE DEF e
    <2>2. e = [d EXCEPT !.state = target, !.sequence = d.sequence + steps]
      BY DEF e, Passed
    <2> QED
      BY <1>1, <2>1, <2>2 DEF Rows
  <1>4. Extends(d, e) /\ Finals(e) = Finals(d)
    BY <1>1, <1>2 DEF Extends, Questions, Finals, Rows
  <1>5. NoGap(e, chunks) /\ OneTurnPerAnswer(e)
    BY <1>2 DEF Base, NoGap, OneTurnPerAnswer, Places
  <1>6. Base(e, chunks)
    BY <1>2, <1>3, <1>4, <1>5, ExtendedBase
  <1>7. Unmarked(e)
    BY <1>1, <1>2 DEF Base, CheckpointsSoundIn, Unmarked, Rows
  <1> QED
    BY <1>2, <1>4, <1>6, <1>7

\* A checkpoint of a sequence that has none yet, naming turns and chunks that are
\* what it says: this is where the unique constraint is kept.
LEMMA CheckpointedKeeps ==
    ASSUME NEW d, NEW chunks,
           NEW pending \in Questions(d) \cup {0}, NEW final \in Finals(d) \cup {0},
           NEW media \in d.verified \cup {0},
           Base(d, chunks), Unmarked(d)
    PROVE  /\ Base(Checkpointed(d, pending, final, media), chunks)
           /\ Extends(d, Checkpointed(d, pending, final, media))
           /\ SameStanding(d, Checkpointed(d, pending, final, media))
  <1> DEFINE e == Checkpointed(d, pending, final, media)
             new == [at |-> d.sequence, pending |-> pending, final |-> final, media |-> media]
  <1>1. d \in Rows
    BY DEF Base
  <1>2. e.sequence = d.sequence /\ e.turns = d.turns /\ e.state = d.state
        /\ e.event = d.event /\ e.verified = d.verified
        /\ e.checkpoints = d.checkpoints \cup {new}
    BY <1>1 DEF Checkpointed, Rows
  <1>3. new \in Checkpoint
    <2>1. DOMAIN d.turns \subseteq Nat
      BY <1>1, LenProperties DEF Rows
    <2>2. pending \in Nat /\ final \in Nat
      BY <2>1 DEF Questions, Finals
    <2>3. media \in Nat
      BY <1>1, BoundsAssumption DEF Rows
    <2> QED
      BY <1>1, <2>2, <2>3 DEF Rows, Checkpoint
  <1>4. e \in Rows
    BY <1>1, <1>3 DEF Checkpointed, Rows
  <1>5. Extends(d, e) /\ SameStanding(d, e) /\ Questions(e) = Questions(d)
    BY <1>1, <1>2 DEF Extends, SameStanding, Questions, Finals, Rows
  <1>6. NoGap(e, chunks) /\ OneTurnPerAnswer(e)
    BY <1>2 DEF Base, NoGap, OneTurnPerAnswer, Places
  <1>7. CheckpointsSoundIn(e)
    <2>1. ASSUME NEW c \in e.checkpoints
          PROVE  /\ c.at \in 1..e.sequence
                 /\ c.pending \in Questions(e) \cup {0}
                 /\ c.final \in Finals(e) \cup {0}
                 /\ c.media \in e.verified \cup {0}
      <3>1. CASE c \in d.checkpoints
        BY <1>2, <1>5, <3>1 DEF Base, CheckpointsSoundIn, SameStanding
      <3>2. CASE c = new
        BY <1>1, <1>2, <1>5, <3>2 DEF Unmarked, SameStanding, Rows
      <3> QED
        BY <1>2, <3>1, <3>2
    <2>2. ASSUME NEW c \in e.checkpoints, NEW f \in e.checkpoints, c.at = f.at
          PROVE  c = f
      <3>1. new.at = d.sequence
        OBVIOUS
      <3>2. \A g \in d.checkpoints : g.at < d.sequence /\ g.at \in Nat
        BY <1>1 DEF Unmarked, Rows, Checkpoint
      <3>3. CASE c \in d.checkpoints /\ f \in d.checkpoints
        BY <2>2, <3>3 DEF Base, CheckpointsSoundIn
      <3> HIDE DEF new
      <3> QED
        BY <1>1, <1>2, <2>2, <3>1, <3>2, <3>3 DEF Rows
    <2> QED
      BY <2>1, <2>2 DEF CheckpointsSoundIn
  <1> QED
    BY <1>4, <1>5, <1>6, <1>7 DEF Base

-----------------------------------------------------------------------------
(* The row operations on turns *)

\* An update of every turn in place is a transcript of the same length.
LEMMA RemappedTurns ==
    ASSUME NEW t \in Seq(Turn), NEW u, u = [i \in DOMAIN t |-> u[i]],
           \A i \in DOMAIN t : u[i] \in Turn
    PROVE  u \in Seq(Turn) /\ DOMAIN u = DOMAIN t
  <1>1. Len(t) \in Nat /\ DOMAIN t = 1..Len(t)
    BY LenProperties
  <1>2. u \in [1..Len(t) -> Turn]
    BY <1>1
  <1> QED
    BY <1>1, <1>2, SeqDef

\* A turn of the applicant with another text or status is a turn.
LEMMA AnswerUpdate ==
    ASSUME NEW turn \in Turn, turn.speaker = "applicant"
    PROVE  /\ \A text \in Seq(Fragments) :
                 /\ [turn EXCEPT !.text = text] \in Turn
                 /\ [turn EXCEPT !.text = text].speaker = "applicant"
                 /\ [turn EXCEPT !.text = text].answer = turn.answer
                 /\ [turn EXCEPT !.text = text].status = turn.status
           /\ [turn EXCEPT !.status = "final"] \in Turn
           /\ [turn EXCEPT !.status = "final"].speaker = "applicant"
           /\ [turn EXCEPT !.status = "final"].answer = turn.answer
           /\ [turn EXCEPT !.status = "final"].status = "final"
  BY DEF Turn

\* What appending a turn does to a transcript.
LEMMA AppendedTurn ==
    ASSUME NEW d, NEW turn \in Turn, d \in Rows
    PROVE  LET e == [d EXCEPT !.turns = Append(@, turn)]
           IN  /\ e \in Rows
               /\ DOMAIN e.turns = DOMAIN d.turns \cup {Len(d.turns) + 1}
               /\ Len(d.turns) + 1 \notin DOMAIN d.turns
               /\ Len(d.turns) + 1 \in Nat
               /\ \A i \in DOMAIN d.turns : e.turns[i] = d.turns[i]
               /\ e.turns[Len(d.turns) + 1] = turn
               /\ e.state = d.state /\ e.event = d.event /\ e.sequence = d.sequence
               /\ e.checkpoints = d.checkpoints /\ e.verified = d.verified
  <1> DEFINE e == [d EXCEPT !.turns = Append(@, turn)]
  <1>1. d.turns \in Seq(Turn)
    BY DEF Rows
  <1>2. e.turns = Append(d.turns, turn) /\ e.state = d.state /\ e.event = d.event
        /\ e.sequence = d.sequence /\ e.checkpoints = d.checkpoints /\ e.verified = d.verified
    BY DEF Rows
  <1>3. Append(d.turns, turn) \in Seq(Turn) /\ Len(d.turns) \in Nat
        /\ DOMAIN d.turns = 1..Len(d.turns)
        /\ DOMAIN Append(d.turns, turn) = 1..(Len(d.turns) + 1)
        /\ (\A i \in 1..Len(d.turns) : Append(d.turns, turn)[i] = d.turns[i])
        /\ Append(d.turns, turn)[Len(d.turns) + 1] = turn
    BY <1>1, AppendProperties, LenProperties
  <1>4. e \in Rows
    BY <1>3 DEF Rows
  <1> QED
    BY <1>2, <1>3, <1>4

\* Finalizing an answer changes no question, no other answer and no final one.
LEMMA FinalizedKeeps ==
    ASSUME NEW d, NEW chunks, NEW a \in AnswerIds, Base(d, chunks)
    PROVE  /\ Base(Finalized(d, a), chunks)
           /\ Extends(d, Finalized(d, a))
           /\ Finals(Finalized(d, a)) = Finals(d) \cup Recording(d, a)
           /\ Finalized(d, a).state = d.state
           /\ Finalized(d, a).event = d.event
           /\ Finalized(d, a).sequence = d.sequence
           /\ Finalized(d, a).verified = d.verified
  <1> DEFINE e == Finalized(d, a)
             u == [i \in DOMAIN d.turns |->
                      IF i \in Recording(d, a) THEN [d.turns[i] EXCEPT !.status = "final"]
                                               ELSE d.turns[i]]
  <1>1. d \in Rows /\ d.turns \in Seq(Turn)
    BY DEF Base, Rows
  <1>2. e.turns = u /\ e.state = d.state /\ e.event = d.event /\ e.sequence = d.sequence
        /\ e.checkpoints = d.checkpoints /\ e.verified = d.verified
    BY <1>1 DEF Finalized, Rows
  <1>3. \A i \in DOMAIN d.turns : d.turns[i] \in Turn
    BY <1>1, LenProperties, ElementOfSeq
  <1>4. ASSUME NEW i \in DOMAIN d.turns
        PROVE  /\ u[i] \in Turn
               /\ u[i].speaker = d.turns[i].speaker
               /\ d.turns[i].speaker = "applicant" => u[i].answer = d.turns[i].answer
               /\ i \in Recording(d, a) => u[i].status = "final"
               /\ i \notin Recording(d, a) => u[i] = d.turns[i]
    <2>1. CASE i \in Recording(d, a)
      BY <1>3, <2>1, AnswerUpdate DEF Recording, Places
    <2>2. CASE i \notin Recording(d, a)
      BY <1>3, <2>2
    <2> QED
      BY <2>1, <2>2
  <1> HIDE DEF u
  <1>5. u \in Seq(Turn) /\ DOMAIN u = DOMAIN d.turns
    <2>1. u = [i \in DOMAIN d.turns |-> u[i]]
      BY DEF u
    <2> QED
      BY <1>1, <1>4, <2>1, RemappedTurns
  <1>6. e \in Rows
    BY <1>1, <1>5 DEF Finalized, Rows, u
  <1>7. Questions(e) = Questions(d)
    BY <1>2, <1>4, <1>5 DEF Questions
  <1>8. Finals(e) = Finals(d) \cup Recording(d, a)
    BY <1>2, <1>4, <1>5 DEF Finals, Recording, Places
  <1>9. Extends(d, e)
    <2>1. \A i \in Questions(d) \cup Finals(d) : i \in DOMAIN d.turns /\ i \notin Recording(d, a)
      BY DEF Questions, Finals, Recording, Places
    <2> QED
      BY <1>1, <1>2, <1>4, <1>5, <2>1 DEF Extends, Rows
  <1>10. OneTurnPerAnswer(e)
    <2>1. \A b \in AnswerIds : Places(e, b) = Places(d, b)
      BY <1>2, <1>4, <1>5 DEF Places
    <2> QED
      BY <2>1 DEF Base, OneTurnPerAnswer
  <1>11. NoGap(e, chunks)
    BY <1>2 DEF Base, NoGap
  <1>12. Base(e, chunks)
    BY <1>2, <1>6, <1>9, <1>10, <1>11, ExtendedBase
  <1> QED
    BY <1>2, <1>8, <1>9, <1>12

\* Saving the text of an answer leaves every final answer alone, also when the
\* client sends text for an answer that is final.
LEMMA WrittenKeeps ==
    ASSUME NEW d, NEW chunks, NEW a \in AnswerIds, NEW text \in Seq(Fragments), Base(d, chunks)
    PROVE  /\ Base(Written(d, a, text), chunks)
           /\ Extends(d, Written(d, a, text))
           /\ SameStanding(d, Written(d, a, text))
  <1>1. d \in Rows /\ d.turns \in Seq(Turn)
    BY DEF Base, Rows
  <1>2. CASE Places(d, a) = {}
    <2> DEFINE e == [d EXCEPT !.turns = Append(@, Answer(a, text))]
               new == Len(d.turns) + 1
    <2>1. Written(d, a, text) = e
      BY <1>2 DEF Written
    <2>2. Answer(a, text) \in Turn
      BY DEF Answer, Turn
    <2>3. /\ e \in Rows
          /\ DOMAIN e.turns = DOMAIN d.turns \cup {new}
          /\ new \notin DOMAIN d.turns
          /\ \A i \in DOMAIN d.turns : e.turns[i] = d.turns[i]
          /\ e.turns[new] = Answer(a, text)
          /\ e.state = d.state /\ e.event = d.event /\ e.sequence = d.sequence
          /\ e.checkpoints = d.checkpoints /\ e.verified = d.verified
      BY <1>1, <2>2, AppendedTurn
    <2> HIDE DEF e, new
    <2>4. Questions(e) = Questions(d) /\ Finals(e) = Finals(d)
      BY <2>3 DEF Questions, Finals, Answer
    <2>5. Extends(d, e) /\ SameStanding(d, e)
      BY <1>1, <2>3, <2>4 DEF Extends, SameStanding, Questions, Finals, Rows
    <2>6. OneTurnPerAnswer(e)
      <3>1. Places(e, a) = {new}
        BY <1>2, <2>3 DEF Places, Answer
      <3>2. ASSUME NEW b \in AnswerIds, b # a PROVE Places(e, b) = Places(d, b)
        BY <2>3, <3>2 DEF Places, Answer
      <3> QED
        BY <3>1, <3>2 DEF Base, OneTurnPerAnswer
    <2>7. NoGap(e, chunks)
      BY <2>3 DEF Base, NoGap
    <2>8. Base(e, chunks)
      BY <2>3, <2>5, <2>6, <2>7, ExtendedBase
    <2> QED
      BY <2>1, <2>5, <2>8
  <1>3. CASE Places(d, a) # {}
    <2> DEFINE e == Written(d, a, text)
               u == [i \in DOMAIN d.turns |->
                        IF i \in Recording(d, a) THEN [d.turns[i] EXCEPT !.text = text]
                                                 ELSE d.turns[i]]
    <2>1. e = [d EXCEPT !.turns = u]
      BY <1>1, <1>3 DEF Written, Rows
    <2>2. e.turns = u /\ e.state = d.state /\ e.event = d.event /\ e.sequence = d.sequence
          /\ e.checkpoints = d.checkpoints /\ e.verified = d.verified
      BY <1>1, <2>1 DEF Rows
    <2>3. \A i \in DOMAIN d.turns : d.turns[i] \in Turn
      BY <1>1, LenProperties, ElementOfSeq
    <2>4. ASSUME NEW i \in DOMAIN d.turns
          PROVE  /\ u[i] \in Turn
                 /\ u[i].speaker = d.turns[i].speaker
                 /\ d.turns[i].speaker = "applicant" =>
                       u[i].answer = d.turns[i].answer /\ u[i].status = d.turns[i].status
                 /\ i \notin Recording(d, a) => u[i] = d.turns[i]
      <3>1. CASE i \in Recording(d, a)
        BY <2>3, <3>1, AnswerUpdate DEF Recording, Places
      <3>2. CASE i \notin Recording(d, a)
        BY <2>3, <3>2
      <3> QED
        BY <3>1, <3>2
    <2> HIDE DEF e
    <2>5. u \in Seq(Turn) /\ DOMAIN u = DOMAIN d.turns
      <3>1. u = [i \in DOMAIN d.turns |-> u[i]]
        OBVIOUS
      <3> HIDE DEF u
      <3> QED
        BY <1>1, <2>4, <3>1, RemappedTurns
    <2> HIDE DEF u
    <2>6. e \in Rows
      BY <1>1, <2>1, <2>5 DEF Rows
    <2>7. Questions(e) = Questions(d) /\ Finals(e) = Finals(d)
      BY <2>2, <2>4, <2>5 DEF Questions, Finals
    <2>8. Extends(d, e) /\ SameStanding(d, e)
      <3>1. \A i \in Questions(d) \cup Finals(d) : i \in DOMAIN d.turns /\ i \notin Recording(d, a)
        BY DEF Questions, Finals, Recording, Places
      <3> QED
        BY <1>1, <2>2, <2>4, <2>5, <2>7, <3>1 DEF Extends, SameStanding, Rows
    <2>9. OneTurnPerAnswer(e)
      <3>1. \A b \in AnswerIds : Places(e, b) = Places(d, b)
        BY <2>2, <2>4, <2>5 DEF Places
      <3> QED
        BY <3>1 DEF Base, OneTurnPerAnswer
    <2>10. NoGap(e, chunks)
      BY <2>2 DEF Base, NoGap
    <2>11. Base(e, chunks)
      BY <2>2, <2>6, <2>8, <2>9, <2>10, ExtendedBase
    <2> QED
      BY <2>8, <2>11 DEF e
  <1> QED
    BY <1>2, <1>3

\* A new question, and the checkpoint that points to it.
LEMMA AskedKeeps ==
    ASSUME NEW d, NEW chunks, NEW number \in Nat \ {0},
           NEW final \in Finals(d) \cup {0}, NEW media \in d.verified \cup {0},
           Base(d, chunks), Unmarked(d)
    PROVE  /\ Base(Asked(d, number, final, media), chunks)
           /\ Extends(d, Asked(d, number, final, media))
           /\ SameStanding(d, Asked(d, number, final, media))
  <1> DEFINE e == [d EXCEPT !.turns = Append(@, Question(number))]
             new == Len(d.turns) + 1
  <1>1. d \in Rows
    BY DEF Base
  <1>2. Question(number) \in Turn
    BY DEF Question, Turn
  <1>3. /\ e \in Rows
        /\ DOMAIN e.turns = DOMAIN d.turns \cup {new}
        /\ new \notin DOMAIN d.turns
        /\ \A i \in DOMAIN d.turns : e.turns[i] = d.turns[i]
        /\ e.turns[new] = Question(number)
        /\ e.state = d.state /\ e.event = d.event /\ e.sequence = d.sequence
        /\ e.checkpoints = d.checkpoints /\ e.verified = d.verified
    BY <1>1, <1>2, AppendedTurn
  <1>4. Asked(d, number, final, media) = Checkpointed(e, new, final, media)
    BY DEF Asked
  <1> HIDE DEF e, new
  <1>5. new \in Questions(e) /\ Finals(e) = Finals(d)
    BY <1>3 DEF Questions, Finals, Question
  <1>6. Extends(d, e) /\ SameStanding(d, e)
    BY <1>1, <1>3, <1>5 DEF Extends, SameStanding, Questions, Finals, Rows
  <1>7. OneTurnPerAnswer(e)
    <2>1. \A b \in AnswerIds : Places(e, b) = Places(d, b)
      BY <1>3 DEF Places, Question
    <2> QED
      BY <2>1 DEF Base, OneTurnPerAnswer
  <1>8. NoGap(e, chunks)
    BY <1>3 DEF Base, NoGap
  <1>9. Base(e, chunks)
    BY <1>3, <1>6, <1>7, <1>8, ExtendedBase
  <1>10. Unmarked(e)
    BY <1>3 DEF Unmarked
  <1>11. /\ Base(Checkpointed(e, new, final, media), chunks)
         /\ Extends(e, Checkpointed(e, new, final, media))
         /\ SameStanding(e, Checkpointed(e, new, final, media))
    BY <1>3, <1>5, <1>9, <1>10, CheckpointedKeeps
  <1>12. Extends(d, Checkpointed(e, new, final, media))
    BY <1>1, <1>3, <1>6, <1>11, ExtendsTransitive DEF Base
  <1> QED
    BY <1>4, <1>6, <1>11, <1>12 DEF SameStanding

-----------------------------------------------------------------------------
(* Pausing and resuming *)

\* The pending question of a pause is a question, or None.
LEMMA LastQuestionIsOne ==
    ASSUME NEW d, d \in Rows
    PROVE  LastQuestion(d) \in Questions(d) \cup {0}
  <1>1. d.turns \in Seq(Turn) /\ Len(d.turns) \in Nat /\ DOMAIN d.turns = 1..Len(d.turns)
    BY LenProperties DEF Rows
  <1> DEFINE S == Questions(d) \cup {0}
  <1>2. S \subseteq Nat /\ S # {} /\ \A x \in S : x <= Len(d.turns)
    BY <1>1 DEF Questions
  <1> HIDE DEF S
  <1>3. Max(S) \in S
    BY <1>1, <1>2, MaxOfBounded
  <1> QED
    BY <1>3 DEF LastQuestion, S

\* The media point of a pause is a verified chunk, or None.
LEMMA LastVerifiedIsOne ==
    ASSUME NEW d, d \in Rows
    PROVE  LastVerified(d) \in d.verified \cup {0}
  <1> DEFINE S == d.verified \cup {0}
  <1>1. S \subseteq Nat /\ S # {} /\ \A x \in S : x <= MaxChunks
    BY BoundsAssumption DEF Rows
  <1> HIDE DEF S
  <1>2. Max(S) \in S
    BY <1>1, BoundsAssumption, MaxOfBounded
  <1> QED
    BY <1>2 DEF LastVerified, S

\* The latest checkpoint is one of the session's, or NoCheckpoint.
LEMMA LatestIsOne ==
    ASSUME NEW d, NEW chunks, Base(d, chunks)
    PROVE  Latest(d) \in d.checkpoints \cup {NoCheckpoint}
  <1> DEFINE all == d.checkpoints \cup {NoCheckpoint}
             S == {c.at : c \in all}
  <1>1. d.sequence \in Nat /\ \A c \in all : c.at \in Nat /\ c.at <= d.sequence
    BY DEF Base, CheckpointsSoundIn, Rows, NoCheckpoint
  <1>2. S # {}
    <2>1. NoCheckpoint.at \in S
      OBVIOUS
    <2> QED
      BY <2>1
  <1>3. S \subseteq Nat /\ \A x \in S : x <= d.sequence
    BY <1>1
  <1>4. Max(S) \in S /\ \A y \in S : y <= Max(S)
    <2> HIDE DEF S
    <2> QED
      BY <1>1, <1>2, <1>3, MaxOfBounded
  <1>5. \E c \in all : \A e \in all : e.at <= c.at
    <2>1. PICK c \in all : c.at = Max(S)
      BY <1>4
    <2>2. \A e \in all : e.at \in S
      OBVIOUS
    <2> QED
      BY <1>4, <2>1, <2>2
  <1> QED
    BY <1>5 DEF Latest

\* What the latest checkpoint names is there to be named again.
LEMMA LatestNames ==
    ASSUME NEW d, NEW chunks, Base(d, chunks)
    PROVE  Latest(d).pending \in Questions(d) \cup {0} /\ Latest(d).final \in Finals(d) \cup {0}
  BY LatestIsOne DEF Base, CheckpointsSoundIn, NoCheckpoint

\* What a pause leaves is sound and extends what it found.
LEMMA PausedKeeps ==
    ASSUME NEW d, NEW chunks, Base(d, chunks)
    PROVE  /\ Base(Paused(d), chunks)
           /\ Extends(d, Paused(d))
           /\ Finals(Paused(d)) = Finals(d)
           /\ Paused(d).state = "paused"
           /\ Paused(d).event = d.event
  <1> DEFINE p == Passed(d, "paused", 1)
             e == Checkpointed(p, LastQuestion(p), Latest(p).final, LastVerified(p))
  <1>1. /\ Base(p, chunks) /\ Extends(d, p) /\ Unmarked(p) /\ Finals(p) = Finals(d)
        /\ p.state = "paused" /\ p.event = d.event
    BY PassedKeeps
  <1> HIDE DEF p
  <1>2. /\ LastQuestion(p) \in Questions(p) \cup {0}
        /\ Latest(p).final \in Finals(p) \cup {0}
        /\ LastVerified(p) \in p.verified \cup {0}
    BY <1>1, LastQuestionIsOne, LatestNames, LastVerifiedIsOne DEF Base
  <1>3. Base(e, chunks) /\ Extends(p, e) /\ SameStanding(p, e)
    BY <1>1, <1>2, CheckpointedKeeps
  <1>4. Paused(d) = e
    BY DEF Paused, p
  <1> HIDE DEF e
  <1>5. Extends(d, e)
    BY <1>1, <1>3, ExtendsTransitive DEF Base
  <1> QED
    BY <1>1, <1>3, <1>4, <1>5 DEF SameStanding

\* What a resume leaves is sound and extends what it found: the turns it copies
\* from the latest checkpoint are still a question and a final answer.
LEMMA ResumedKeeps ==
    ASSUME NEW d, NEW chunks, Base(d, chunks)
    PROVE  /\ Base(Resumed(d), chunks)
           /\ Extends(d, Resumed(d))
           /\ Finals(Resumed(d)) = Finals(d)
           /\ Resumed(d).event = d.event
           /\ d.state = "paused" => Resumed(d).state = "awaiting_answer"
           /\ d.state # "paused" => Resumed(d) = d
  <1>1. CASE d.state # "paused"
    BY <1>1, ExtendsReflexive DEF Resumed, Base
  <1>2. CASE d.state = "paused"
    <2> DEFINE p == Passed(d, "awaiting_answer", 1)
               e == Checkpointed(p, Latest(d).pending, Latest(d).final, LastVerified(d))
    <2>1. /\ Base(p, chunks) /\ Extends(d, p) /\ Unmarked(p) /\ Finals(p) = Finals(d)
          /\ p.state = "awaiting_answer" /\ p.event = d.event /\ p.verified = d.verified
      BY PassedKeeps
    <2> HIDE DEF p
    <2>2. /\ Latest(d).pending \in Questions(p) \cup {0}
          /\ Latest(d).final \in Finals(p) \cup {0}
          /\ LastVerified(d) \in p.verified \cup {0}
      BY <2>1, ExtendsKeepsPlaces, LatestNames, LastVerifiedIsOne DEF Base
    <2>3. Base(e, chunks) /\ Extends(p, e) /\ SameStanding(p, e)
      BY <2>1, <2>2, CheckpointedKeeps
    <2>4. Resumed(d) = e
      BY <1>2 DEF Resumed, p
    <2> HIDE DEF e
    <2>5. Extends(d, e)
      BY <2>1, <2>3, ExtendsTransitive DEF Base
    <2> QED
      BY <1>2, <2>1, <2>3, <2>4, <2>5 DEF SameStanding
  <1> QED
    BY <1>1, <1>2

-----------------------------------------------------------------------------
(* Starting, answering and completing *)

\* Rows at the end of a handler.
Sound(d, chunks) == Base(d, chunks) /\ CompletionIn(d)

\* A transcript has finitely many final answers, so that they can be counted.
LEMMA FinalsAreFinite ==
    ASSUME NEW d, d \in Rows
    PROVE  IsFiniteSet(Finals(d)) /\ Cardinality(Finals(d)) \in Nat
  <1>1. Len(d.turns) \in Nat /\ DOMAIN d.turns = 1..Len(d.turns)
    BY LenProperties DEF Rows
  <1>2. IsFiniteSet(1..Len(d.turns))
    BY <1>1, FS_Interval
  <1>3. Finals(d) \in SUBSET (1..Len(d.turns))
    BY <1>1 DEF Finals
  <1>4. IsFiniteSet(Finals(d))
    BY <1>2, <1>3, FS_Subset
  <1> QED
    BY <1>4, FS_CardinalityType

\* An operation that neither completes nor finalizes keeps rows sound.
LEMMA SoundWithSameFinals ==
    ASSUME NEW d, NEW e, NEW chunks,
           Sound(d, chunks), Base(e, chunks),
           Finals(e) = Finals(d), e.event = d.event,
           d.state # "completed", e.state # "completed"
    PROVE  Sound(e, chunks)
  BY DEF Sound, CompletionIn

\* Rows that extend those of a session not yet completed continue it.
LEMMA AdvancedWhileOpen ==
    ASSUME NEW d, NEW e, Extends(d, e), d.state # "completed"
    PROVE  Continues(d, e)
  BY DEF Extends, Continues

\* answer.complete finalizes at most one turn: the one it names.
LEMMA OneAnswerMore ==
    ASSUME NEW d, NEW chunks, NEW a \in AnswerIds, NEW place \in Recording(d, a), Base(d, chunks)
    PROVE  /\ Finals(Finalized(d, a)) = Finals(d) \cup {place}
           /\ Cardinality(Finals(Finalized(d, a))) \in Nat
           /\ Cardinality(Finals(Finalized(d, a))) = Cardinality(Finals(d)) + 1
  <1>1. Recording(d, a) = {place}
    BY DEF Base, OneTurnPerAnswer, Recording
  <1>2. Finals(Finalized(d, a)) = Finals(d) \cup {place}
    BY <1>1, FinalizedKeeps
  <1>3. place \notin Finals(d)
    BY DEF Recording, Finals
  <1>4. IsFiniteSet(Finals(d)) /\ Cardinality(Finals(d)) \in Nat
    BY FinalsAreFinite DEF Base
  <1>5. Cardinality(Finals(d) \cup {place}) = Cardinality(Finals(d)) + 1
    BY <1>3, <1>4, FS_AddElement
  <1> QED
    BY <1>2, <1>4, <1>5

\* The rows after an answer is final, the recording verified and the session
\* moved on: with d verified first, then finalized, then passed.
LEMMA AnsweredKeeps ==
    ASSUME NEW d, NEW chunks, NEW a \in AnswerIds, NEW place \in Recording(d, a),
           NEW through \in 0..MaxChunks, NEW target \in {"awaiting_answer", "completed"},
           Base(d, chunks), 1..through \subseteq d.verified \cup chunks
    PROVE  LET e == Passed(Finalized(Verified(d, through), a), target, 2)
           IN  /\ Base(e, chunks)
               /\ Extends(d, e)
               /\ Unmarked(e)
               /\ e.state = target
               /\ e.event = d.event
               /\ through \in e.verified \cup {0}
               /\ place \in Finals(e)
               /\ Finals(e) = Finals(Finalized(d, a))
  <1> DEFINE v == Verified(d, through)
             f == Finalized(v, a)
             e == Passed(f, target, 2)
  <1>1. /\ Base(v, chunks) /\ Extends(d, v) /\ SameStanding(d, v)
        /\ through \in v.verified \cup {0}
    BY VerifiedKeeps
  <1>2. Recording(v, a) = Recording(d, a)
    <2>1. v.turns = d.turns
      BY DEF Base, Verified, Rows
    <2> QED
      BY <2>1 DEF Recording, Places
  <1> HIDE DEF v
  <1>3. /\ Base(f, chunks) /\ Extends(v, f)
        /\ Finals(f) = Finals(v) \cup Recording(v, a)
        /\ f.state = v.state /\ f.event = v.event /\ f.verified = v.verified
    BY <1>1, FinalizedKeeps
  <1> HIDE DEF f
  <1>4. /\ Base(e, chunks) /\ Extends(f, e) /\ Unmarked(e) /\ Finals(e) = Finals(f)
        /\ e.state = target /\ e.event = f.event /\ e.verified = f.verified
    BY <1>3, PassedKeeps
  <1> HIDE DEF e
  <1>5. Extends(d, e)
    <2>1. Extends(d, f)
      BY <1>1, <1>3, ExtendsTransitive DEF Base
    <2> QED
      BY <1>3, <1>4, <2>1, ExtendsTransitive DEF Base
  <1>6. Finals(e) = Finals(Finalized(d, a))
    BY <1>1, <1>2, <1>3, <1>4, FinalizedKeeps DEF SameStanding
  <1>7. place \in Finals(e)
    BY <1>2, <1>3, <1>4
  <1> QED
    BY <1>1, <1>3, <1>4, <1>5, <1>6, <1>7 DEF e, f, v, SameStanding

-----------------------------------------------------------------------------
(* The inductive invariant *)

\* The two copies of the rows are sound each, and the open connection has only
\* added to what is committed: without the last conjunct nothing would be known
\* of what a commit changes.
IInv ==
    /\ TypeOK
    /\ Sound(db, stored)
    /\ Sound(saved, stored)
    /\ Continues(saved, db)

\* A commit of rows that continue what continues the committed ones continues them.
LEMMA ContinuesTransitive ==
    ASSUME NEW d, NEW e, NEW f,
           d \in Rows, e \in Rows, f \in Rows, Continues(d, e), Continues(e, f)
    PROVE  Continues(d, f)
  <1>1. Extends(d, f)
    BY ExtendsTransitive DEF Extends, Continues
  <1>2. d.state = "completed" => f = d
    BY DEF Continues
  <1> QED
    BY <1>1, <1>2 DEF Extends, Continues

\* Rows that stay as they are continue themselves.
LEMMA ContinuesReflexive ==
    ASSUME NEW d, d \in Rows
    PROVE  Continues(d, d)
  BY ExtendsReflexive DEF Extends, Continues

\* A handler that replies with sound rows that continue the connection's.
LEMMA RespondKeeps ==
    ASSUME IInv, NEW e, NEW sequence \in Nat,
           Sound(e, stored), Continues(db, e), Respond(e, sequence)
    PROVE  IInv' /\ Continues(saved, saved')
  <1>1. db' = e /\ saved' = saved /\ issued' = issued /\ stored' = stored /\ conn' = conn
        /\ heard' = sequence /\ told' = Max({told, sequence})
    BY DEF Respond
  <1>2. db \in Rows /\ saved \in Rows /\ e \in Rows
    BY DEF IInv, TypeOK, Sound, Base
  <1>3. told' \in Nat
    BY <1>1, MaxOfTwo DEF IInv, TypeOK
  <1>4. TypeOK'
    BY <1>1, <1>2, <1>3 DEF IInv, TypeOK
  <1>5. Continues(saved, e) /\ Continues(saved, saved)
    BY <1>2, ContinuesTransitive, ContinuesReflexive DEF IInv
  <1> QED
    BY <1>1, <1>4, <1>5 DEF IInv

\* A connection that ends and commits such rows.
LEMMA CloseKeeps ==
    ASSUME IInv, NEW e, Sound(e, stored), Continues(db, e), Close(e)
    PROVE  IInv' /\ Continues(saved, saved')
  <1>1. db' = e /\ saved' = e /\ issued' = issued /\ stored' = stored /\ conn' = "closed"
        /\ heard' = 0 /\ told' = told
    BY DEF Close
  <1>2. db \in Rows /\ saved \in Rows /\ e \in Rows
    BY DEF IInv, TypeOK, Sound, Base
  <1>3. TypeOK'
    BY <1>1, <1>2 DEF IInv, TypeOK
  <1>4. Continues(saved, e) /\ Continues(e, e)
    BY <1>2, ContinuesTransitive, ContinuesReflexive DEF IInv
  <1> QED
    BY <1>1, <1>3, <1>4 DEF IInv

\* A new session has no turn, checkpoint or chunk that could be wrong.
LEMMA InitEstablishes == Init => IInv
  <1> SUFFICES ASSUME Init PROVE IInv
    OBVIOUS
  <1>1. NewSession \in Rows
    BY DEF NewSession, Rows
  <1>2. Finals(NewSession) = {} /\ Questions(NewSession) = {}
        /\ \A a \in AnswerIds : Places(NewSession, a) = {}
    BY DEF NewSession, Finals, Questions, Places
  <1>3. Cardinality({}) = 0
    BY FS_EmptySet
  <1>4. Sound(NewSession, {})
    <2>1. NewSession.checkpoints = {} /\ NewSession.verified = {}
          /\ NewSession.state = "preparing" /\ NewSession.event = "none"
      BY DEF NewSession
    <2>2. NoGap(NewSession, {}) /\ CheckpointsSoundIn(NewSession)
      BY <2>1 DEF NoGap, CheckpointsSoundIn
    <2>3. OneTurnPerAnswer(NewSession)
      BY <1>2 DEF OneTurnPerAnswer
    <2>4. CompletionIn(NewSession)
      BY <1>2, <1>3, <2>1, MaxQuestionsAssumption DEF CompletionIn
    <2> QED
      BY <1>1, <2>2, <2>3, <2>4 DEF Sound, Base
  <1>5. TypeOK
    BY <1>1, BoundsAssumption DEF Init, TypeOK
  <1> QED
    BY <1>1, <1>4, <1>5, ContinuesReflexive DEF Init, IInv

\* An answer.complete that passes its guards finalizes one answer that was still
\* missing, so that the count never steps over max_questions.
LEMMA CompletingCounts ==
    ASSUME IInv, NEW a \in AnswerIds, NEW place \in DOMAIN db.turns,
           NEW through \in 0..MaxChunks, Completing(a, place, through)
    PROVE  /\ place \in Recording(db, a)
           /\ db.state = "awaiting_answer"
           /\ 1..through \subseteq db.verified \cup stored
           /\ AnswersAfter(a) \in Nat
           /\ AnswersAfter(a) <= MaxQuestions
           /\ Cardinality(Finals(Finalized(db, a))) = AnswersAfter(a)
  <1>1. Base(db, stored) /\ CompletionIn(db)
    BY DEF IInv, Sound
  <1>2. place \in Recording(db, a) /\ db.state = "awaiting_answer"
        /\ 1..through \subseteq db.verified \cup stored
    BY BoundsAssumption DEF Completing, Awaiting, Verifiable
  <1>3. /\ AnswersAfter(a) = Cardinality(Finals(Finalized(db, a)))
        /\ AnswersAfter(a) \in Nat
        /\ AnswersAfter(a) = Cardinality(Finals(db)) + 1
    BY <1>1, <1>2, OneAnswerMore DEF AnswersAfter
  <1>4. Cardinality(Finals(db)) \in Nat
    BY <1>1, FinalsAreFinite DEF Base
  <1>5. Cardinality(Finals(db)) < MaxQuestions
    BY <1>1, <1>2, <1>4, MaxQuestionsAssumption DEF CompletionIn
  <1> QED
    BY <1>2, <1>3, <1>4, <1>5, MaxQuestionsAssumption

\* What has been said of an answer so far is text.
LEMMA TextIsText ==
    ASSUME NEW d, d \in Rows, NEW a \in AnswerIds, NEW f \in Fragments
    PROVE  Heard(TextOf(d, a), f) \in Seq(Fragments)
  <1>1. TextOf(d, a) \in Seq(Fragments)
    <2>1. CASE Places(d, a) = {}
      BY <2>1 DEF TextOf
    <2>2. CASE Places(d, a) # {}
      <3>1. PICK i \in Places(d, a) : TextOf(d, a) = d.turns[i].text
        BY <2>2 DEF TextOf
      <3>2. d.turns[i] \in Turn /\ d.turns[i].speaker = "applicant"
        BY <3>1, LenProperties, ElementOfSeq DEF Places, Rows
      <3> QED
        BY <3>1, <3>2 DEF Turn
    <2> QED
      BY <2>1, <2>2
  <1> QED
    BY <1>1, AppendProperties DEF Heard

\* No step falls out of the invariant, and none takes back what is committed.
LEMMA NextKeeps ==
    IInv /\ [Next]_vars => IInv' /\ Continues(saved, saved')
  <1> SUFFICES ASSUME IInv, [Next]_vars
               PROVE  IInv' /\ Continues(saved, saved')
    OBVIOUS
  <1>1. db \in Rows /\ saved \in Rows /\ Base(db, stored) /\ Base(saved, stored)
        /\ Sound(db, stored) /\ CompletionIn(db) /\ heard \in Nat
        /\ db.sequence \in Nat
    BY DEF IInv, TypeOK, Sound, Base, Rows
  <1>2. Continues(db, db) /\ Continues(saved, saved)
    BY <1>1, ContinuesReflexive
  <1>3. CASE UNCHANGED vars
    BY <1>2, <1>3 DEF vars, IInv, TypeOK
  <1>4. CASE Connect
    BY <1>2, <1>4 DEF Connect, IInv, TypeOK
  <1>5. CASE Disconnect
    BY <1>1, <1>2, <1>5, CloseKeeps DEF Disconnect
  <1>6. CASE Crash
    BY <1>2, <1>6 DEF Crash, IInv, TypeOK
  <1>7. CASE CreateRecordingUploadIntent
    <2>1. issued' \in 0..MaxChunks /\ issued' = issued + 1
      BY <1>7, BoundsAssumption DEF CreateRecordingUploadIntent, IInv, TypeOK
    <2>2. stored \subseteq 1..issued'
      BY <2>1, BoundsAssumption DEF IInv, TypeOK
    <2> QED
      BY <1>2, <1>7, <2>1, <2>2 DEF CreateRecordingUploadIntent, IInv, TypeOK
  <1>8. CASE StoreChunk
    <2>1. PICK n \in 1..issued \ stored : stored' = stored \cup {n}
      BY <1>8 DEF StoreChunk
    <2>2. \A d : Sound(d, stored) => Sound(d, stored')
      BY <2>1 DEF Sound, Base, NoGap
    <2>3. db' = db /\ saved' = saved /\ issued' = issued /\ conn' = conn /\ heard' = heard
          /\ told' = told
      BY <1>8 DEF StoreChunk
    <2>4. Sound(db', stored') /\ Sound(saved', stored')
      BY <2>2, <2>3 DEF IInv
    <2>5. TypeOK'
      BY <2>1, <2>3 DEF IInv, TypeOK
    <2> QED
      BY <1>2, <2>3, <2>4, <2>5 DEF IInv
  <1>9. CASE Start \/ StartFails
    <2>1. Startable
      BY <1>9 DEF Start, StartFails
    <2>2. db.state # "completed"
      BY <2>1 DEF Startable, MayPass, Allowed
    <2>3. /\ Base(Started, stored) /\ Extends(db, Started) /\ Unmarked(Started)
          /\ Finals(Started) = Finals(db) /\ Started.state = "awaiting_answer"
          /\ Started.event = db.event /\ Started.sequence = db.sequence + 2
      BY <1>1, PassedKeeps DEF Started
    <2>4. Sound(Started, stored) /\ Continues(db, Started)
      BY <1>1, <2>2, <2>3, SoundWithSameFinals, AdvancedWhileOpen
    <2>5. CASE StartFails
      BY <2>4, <2>5, CloseKeeps DEF StartFails
    <2>6. CASE Start
      <3> DEFINE e == Asked(Started, 1, 0, 0)
      <3>1. Base(e, stored) /\ Extends(Started, e) /\ SameStanding(Started, e)
        BY <2>3, AskedKeeps
      <3>2. Extends(db, e)
        BY <1>1, <2>3, <3>1, ExtendsTransitive DEF Base
      <3>3. Sound(e, stored) /\ Continues(db, e)
        <4> HIDE DEF e
        <4> QED
          BY <1>1, <2>2, <2>3, <3>1, <3>2, SoundWithSameFinals, AdvancedWhileOpen
          DEF SameStanding
      <3>4. Respond(e, Started.sequence)
        BY <2>6 DEF Start
      <3> HIDE DEF e
      <3> QED
        BY <1>1, <2>3, <3>3, <3>4, RespondKeeps
    <2> QED
      BY <1>9, <2>5, <2>6
  <1>10. CASE Restate
    BY <1>1, <1>2, <1>10, RespondKeeps DEF Restate
  <1>11. CASE Resume
    <2> DEFINE e == Resumed(db)
    <2>1. /\ Base(e, stored) /\ Extends(db, e) /\ Finals(e) = Finals(db) /\ e.event = db.event
          /\ db.state = "paused" => e.state = "awaiting_answer"
          /\ db.state # "paused" => e = db
      BY <1>1, ResumedKeeps
    <2>2. Respond(e, e.sequence)
      BY <1>11 DEF Resume
    <2> HIDE DEF e
    <2>3. Sound(e, stored) /\ Continues(db, e)
      <3>1. CASE db.state = "paused"
        BY <1>1, <2>1, <3>1, SoundWithSameFinals, AdvancedWhileOpen
      <3>2. CASE db.state # "paused"
        BY <1>1, <1>2, <2>1, <3>2
      <3> QED
        BY <3>1, <3>2
    <2>4. e.sequence \in Nat
      BY <2>1 DEF Base, Rows
    <2> QED
      BY <2>2, <2>3, <2>4, RespondKeeps
  <1>12. ASSUME NEW a \in AnswerIds, NEW text \in Seq(Fragments), db.state = "awaiting_answer",
                Respond(Written(db, a, text), heard)
         PROVE  IInv' /\ Continues(saved, saved')
    <2> DEFINE e == Written(db, a, text)
    <2>1. Base(e, stored) /\ Extends(db, e) /\ SameStanding(db, e)
      BY <1>1, WrittenKeeps
    <2> HIDE DEF e
    <2>2. Sound(e, stored) /\ Continues(db, e)
      BY <1>1, <1>12, <2>1, SoundWithSameFinals, AdvancedWhileOpen DEF SameStanding
    <2> QED
      BY <1>1, <1>12, <2>2, RespondKeeps DEF e
  <1>13. CASE SubmitText
    <2>1. PICK a \in AnswerIds, f \in Fragments :
                  Respond(Written(db, a, <<f>>), heard)
      BY <1>13 DEF SubmitText
    <2>2. <<f>> \in Seq(Fragments)
      OBVIOUS
    <2> QED
      BY <1>12, <1>13, <2>1, <2>2 DEF SubmitText, Awaiting
  <1>14. CASE AudioChunk
    <2>1. PICK a \in AnswerIds, f \in Fragments :
                  Respond(Written(db, a, Heard(TextOf(db, a), f)), heard)
      BY <1>14 DEF AudioChunk
    <2>2. Heard(TextOf(db, a), f) \in Seq(Fragments)
      BY <1>1, TextIsText
    <2> QED
      BY <1>12, <1>14, <2>1, <2>2 DEF AudioChunk, Awaiting
  <1>15. ASSUME NEW through \in 0..MaxChunks, 1..through \subseteq db.verified \cup stored,
                db.state = "awaiting_answer"
         PROVE  Sound(Verified(db, through), stored) /\ Continues(db, Verified(db, through))
    BY <1>1, <1>15, VerifiedKeeps, SoundWithSameFinals, AdvancedWhileOpen DEF SameStanding
  <1>16. ASSUME NEW d, Sound(d, stored), Continues(db, d), d.state = "awaiting_answer"
         PROVE  Sound(Paused(d), stored) /\ Continues(db, Paused(d)) /\ Paused(d).sequence \in Nat
    <2>1. Base(d, stored) /\ d \in Rows
      BY <1>16 DEF Sound, Base
    <2> DEFINE e == Paused(d)
    <2>2. /\ Base(e, stored) /\ Extends(d, e) /\ Finals(e) = Finals(d)
          /\ e.state = "paused" /\ e.event = d.event
      BY <2>1, PausedKeeps
    <2> HIDE DEF e
    <2>3. Sound(e, stored) /\ Continues(d, e) /\ e \in Rows
      BY <1>16, <2>2, SoundWithSameFinals, AdvancedWhileOpen DEF Base
    <2>4. Continues(db, e)
      BY <1>1, <1>16, <2>1, <2>3, ContinuesTransitive
    <2> QED
      BY <2>3, <2>4 DEF e, Rows
  <1>17. CASE AudioUnavailable
    BY <1>1, <1>2, <1>16, <1>17, RespondKeeps DEF AudioUnavailable, Awaiting
  <1>18. \A through \in Nat : Verifiable(through) =>
            through \in 0..MaxChunks /\ 1..through \subseteq db.verified \cup stored
    BY BoundsAssumption DEF Verifiable, IInv, TypeOK
  <1>19. CASE CompleteMissingTranscript
    <2>1. PICK through \in 0..MaxChunks :
                  /\ Verifiable(through)
                  /\ Respond(Paused(Verified(db, through)),
                             Paused(Verified(db, through)).sequence)
      BY <1>19 DEF CompleteMissingTranscript
    <2>2. db.state = "awaiting_answer"
      BY <1>19 DEF CompleteMissingTranscript, Awaiting
    <2> DEFINE d == Verified(db, through)
    <2>3. Sound(d, stored) /\ Continues(db, d)
      BY <1>15, <1>18, <2>1, <2>2, BoundsAssumption
    <2>4. d.state = "awaiting_answer"
      BY <1>1, <2>2 DEF Verified, Rows
    <2> HIDE DEF d
    <2>5. Sound(Paused(d), stored) /\ Continues(db, Paused(d)) /\ Paused(d).sequence \in Nat
      BY <1>16, <2>3, <2>4
    <2> QED
      BY <2>1, <2>5, RespondKeeps DEF d
  <1>20. CASE CompleteVerifyFails
    <2>1. PICK upto \in 0..MaxChunks : Verifiable(upto) /\ Close(Verified(db, upto))
      BY <1>20 DEF CompleteVerifyFails
    <2>2. db.state = "awaiting_answer"
      BY <1>20 DEF CompleteVerifyFails, Awaiting
    <2> QED
      BY <1>15, <1>18, <2>1, <2>2, CloseKeeps, BoundsAssumption
  <1>21. ASSUME NEW a \in AnswerIds, NEW place \in DOMAIN db.turns, NEW through \in 0..MaxChunks,
                Completing(a, place, through)
         PROVE  /\ place \in Recording(db, a)
                /\ db.state = "awaiting_answer"
                /\ 1..through \subseteq db.verified \cup stored
                /\ AnswersAfter(a) \in Nat
                /\ AnswersAfter(a) <= MaxQuestions
                /\ Cardinality(Finals(Finalized(db, a))) = AnswersAfter(a)
    BY <1>21, CompletingCounts
  <1>22. ASSUME NEW a \in AnswerIds, NEW place \in DOMAIN db.turns, NEW through \in 0..MaxChunks,
                Completing(a, place, through), AnswersAfter(a) < MaxQuestions
         PROVE  LET e == Answered(a, through)
                IN  /\ Sound(e, stored) /\ Extends(db, e) /\ Unmarked(e)
                    /\ e.state = "awaiting_answer"
                    /\ through \in e.verified \cup {0}
                    /\ place \in Finals(e)
    <2> DEFINE e == Answered(a, through)
    <2>1. /\ Base(e, stored) /\ Extends(db, e) /\ Unmarked(e)
          /\ e.state = "awaiting_answer" /\ e.event = db.event
          /\ through \in e.verified \cup {0}
          /\ place \in Finals(e)
          /\ Finals(e) = Finals(Finalized(db, a))
      BY <1>1, <1>21, <1>22, AnsweredKeeps DEF Answered
    <2> HIDE DEF e
    <2>2. CompletionIn(e)
      <3>1. db.event = "none"
        BY <1>1, <1>21, <1>22 DEF CompletionIn
      <3> QED
        BY <1>21, <1>22, <2>1, <3>1, MaxQuestionsAssumption DEF CompletionIn
    <2> QED
      BY <2>1, <2>2 DEF Sound, e
  <1>23. CASE CompleteNextQuestion
    <2>1. PICK a \in AnswerIds, place \in DOMAIN db.turns, through \in 0..MaxChunks :
              /\ Completing(a, place, through)
              /\ AnswersAfter(a) < MaxQuestions
              /\ Respond(Asked(Answered(a, through), AnswersAfter(a) + 1, place, through),
                         db.sequence + 2)
      BY <1>23 DEF CompleteNextQuestion
    <2> DEFINE d == Answered(a, through)
               e == Asked(d, AnswersAfter(a) + 1, place, through)
    <2>2. /\ Sound(d, stored) /\ Extends(db, d) /\ Unmarked(d)
          /\ d.state = "awaiting_answer"
          /\ through \in d.verified \cup {0}
          /\ place \in Finals(d)
      BY <1>22, <2>1
    <2>3. AnswersAfter(a) + 1 \in Nat \ {0} /\ db.state = "awaiting_answer"
      BY <1>21, <2>1
    <2> HIDE DEF d
    <2>4. Base(e, stored) /\ Extends(d, e) /\ SameStanding(d, e)
      BY <2>2, <2>3, AskedKeeps DEF Sound
    <2> HIDE DEF e
    <2>5. Extends(db, e)
      BY <1>1, <2>2, <2>4, ExtendsTransitive DEF Sound, Base
    <2>6. Sound(e, stored) /\ Continues(db, e)
      BY <2>2, <2>3, <2>4, <2>5, SoundWithSameFinals, AdvancedWhileOpen DEF SameStanding
    <2>7. db.sequence + 2 \in Nat
      BY <1>1
    <2> QED
      BY <2>1, <2>6, <2>7, RespondKeeps DEF d, e
  <1>24. CASE CompleteQuestionFails
    <2>1. PICK a \in AnswerIds, place \in DOMAIN db.turns, through \in 0..MaxChunks :
              /\ Completing(a, place, through)
              /\ AnswersAfter(a) < MaxQuestions
              /\ Close(Answered(a, through))
      BY <1>24 DEF CompleteQuestionFails
    <2>2. Sound(Answered(a, through), stored) /\ Extends(db, Answered(a, through))
      BY <1>22, <2>1
    <2>3. db.state # "completed"
      BY <1>21, <2>1
    <2> QED
      BY <2>1, <2>2, <2>3, AdvancedWhileOpen, CloseKeeps
  <1>25. ASSUME NEW a \in AnswerIds, NEW place \in DOMAIN db.turns, NEW through \in 0..MaxChunks,
                NEW event \in {"pending", "published"},
                Completing(a, place, through), AnswersAfter(a) >= MaxQuestions
         PROVE  /\ Sound(Completed(a, place, through, event), stored)
                /\ Continues(db, Completed(a, place, through, event))
    <2> DEFINE d == Passed(Finalized(Verified(db, through), a), "completed", 2)
               c == Checkpointed(d, 0, place, through)
               e == [c EXCEPT !.event = event]
    <2>1. /\ Base(d, stored) /\ Extends(db, d) /\ Unmarked(d)
          /\ d.state = "completed" /\ through \in d.verified \cup {0} /\ place \in Finals(d)
          /\ Finals(d) = Finals(Finalized(db, a))
      BY <1>1, <1>21, <1>25, AnsweredKeeps
    <2>2. Completed(a, place, through, event) = e
      BY DEF Completed
    <2> HIDE DEF d
    <2>3. Base(c, stored) /\ Extends(d, c) /\ SameStanding(d, c)
      BY <2>1, CheckpointedKeeps
    <2> HIDE DEF c
    <2>4. Extends(db, c)
      BY <1>1, <2>1, <2>3, ExtendsTransitive DEF Base
    <2>5. /\ e.event = event /\ e.state = c.state /\ e.turns = c.turns /\ e.sequence = c.sequence
          /\ e.checkpoints = c.checkpoints /\ e.verified = c.verified /\ e \in Rows
      BY <2>3 DEF Base, Rows
    <2> HIDE DEF e
    <2>6. Finals(e) = Finals(c) /\ Questions(e) = Questions(c)
          /\ \A b \in AnswerIds : Places(e, b) = Places(c, b)
      BY <2>5 DEF Finals, Questions, Places
    <2>7. Base(e, stored)
      BY <2>3, <2>5, <2>6 DEF Base, NoGap, CheckpointsSoundIn, OneTurnPerAnswer
    <2>8. Extends(db, e)
      BY <2>4, <2>5 DEF Extends
    <2>9. CompletionIn(e)
      <3>1. Cardinality(Finals(e)) = AnswersAfter(a)
        BY <1>21, <1>25, <2>1, <2>3, <2>6 DEF SameStanding
      <3>2. AnswersAfter(a) = MaxQuestions
        BY <1>21, <1>25, MaxQuestionsAssumption
      <3> QED
        BY <2>1, <2>3, <2>5, <3>1, <3>2, MaxQuestionsAssumption DEF CompletionIn, SameStanding
    <2>10. db.state # "completed"
      BY <1>21, <1>25
    <2> QED
      BY <2>2, <2>7, <2>8, <2>9, <2>10, AdvancedWhileOpen DEF Sound
  <1>26. CASE CompleteInterview
    <2>1. PICK a \in AnswerIds, place \in DOMAIN db.turns, through \in 0..MaxChunks :
              /\ Completing(a, place, through)
              /\ AnswersAfter(a) >= MaxQuestions
              /\ Respond(Completed(a, place, through, "published"), db.sequence + 2)
      BY <1>26 DEF CompleteInterview
    <2>2. db.sequence + 2 \in Nat
      BY <1>1
    <2> QED
      BY <1>25, <2>1, <2>2, RespondKeeps
  <1>27. CASE CompletionHandlerFails
    <2>1. PICK a \in AnswerIds, place \in DOMAIN db.turns, through \in 0..MaxChunks :
              /\ Completing(a, place, through)
              /\ AnswersAfter(a) >= MaxQuestions
              /\ Close(Completed(a, place, through, "pending"))
      BY <1>27 DEF CompletionHandlerFails
    <2> QED
      BY <1>25, <2>1, CloseKeeps
  <1> QED
    BY <1>3, <1>4, <1>5, <1>6, <1>7, <1>8, <1>9, <1>10, <1>11, <1>13, <1>14, <1>17, <1>19, <1>20,
       <1>23, <1>24, <1>26, <1>27
    DEF Next

-----------------------------------------------------------------------------
(* The theorems *)

\* Every reachable state satisfies the inductive invariant, and every step, of a
\* handler, the network, the store or a crash, continues what is committed.
THEOREM Inductive == Spec => []IInv /\ [][Continues(saved, saved')]_vars
  <1>1. Init => IInv
    BY InitEstablishes
  <1>2. IInv /\ [Next]_vars => IInv'
    BY NextKeeps
  <1>3. IInv /\ [Next]_vars => Continues(saved, saved')
    BY NextKeeps
  <1> QED
    BY <1>1, <1>2, <1>3, PTL DEF Spec

\* Rows keep their types, and no handler, however it ends, leaves a session in
\* one of the states that _start and _complete only pass through.
THEOREM TypeCorrect == Spec => []TypeOK
  <1>1. IInv => TypeOK
    BY DEF IInv
  <1> QED
    BY <1>1, Inductive, PTL

\* No handler runs into the unique constraint on a checkpoint's sequence, and a
\* checkpoint never names a turn or a chunk that is not what it says it is.
THEOREM CheckpointsAreSound == Spec => []CheckpointsSound
  <1>1. IInv => CheckpointsSound
    BY DEF IInv, Sound, Base, CheckpointsSound
  <1> QED
    BY <1>1, Inductive, PTL

\* The highest verified chunk that a snapshot reports stands for all before it,
\* although a verification that fails half way is committed.
THEOREM RecordingHasNoGap == Spec => []VerifiedRecordingHasNoGap
  <1>1. IInv => VerifiedRecordingHasNoGap
    BY DEF IInv, Sound, Base, NoGap, VerifiedRecordingHasNoGap, VerifiedIn
  <1> QED
    BY <1>1, Inductive, PTL

\* A session is completed, with its event in the outbox, exactly when it has
\* max_questions final answers, wherever a handler is cut off.
THEOREM CompletionIsExact == Spec => []CompletionExact
  <1>1. IInv => CompletionExact
    BY DEF IInv, Sound, CompletionExact
  <1> QED
    BY <1>1, Inductive, PTL

\* No commit takes back a question, a final answer, a checkpoint, a verified
\* chunk or a sequence, and none changes a completed interview.
THEOREM CommittedAdvances == Spec => CommittedOnlyAdvances
  <1>1. Continues(saved, saved') => [Continues(saved, saved')]_saved
    OBVIOUS
  <1>2. UNCHANGED vars => UNCHANGED saved
    BY DEF vars
  <1> QED
    BY <1>1, <1>2, Inductive, PTL DEF CommittedOnlyAdvances

\* A committed row that continues a sound one is a step of the abstract record.
LEMMA CommitRefines ==
    ASSUME IInv, IInv', Continues(saved, saved')
    PROVE  [Record!Commit]_(Record!record)
  <1> DEFINE old == [i \in Finals(saved) |-> saved.turns[i]]
             new == [i \in Finals(saved') |-> saved'.turns[i]]
  <1>1. CompletionIn(saved) /\ CompletionIn(saved')
    BY DEF IInv, Sound
  <1>2. CASE saved.state = "completed"
    <2>1. saved' = saved
      BY <1>2 DEF Continues
    <2> QED
      BY <2>1 DEF Record!record, Finals
  <1>3. CASE saved.state # "completed"
    <2>1. Finals(saved) \subseteq Finals(saved')
          /\ \A i \in Finals(saved) : saved'.turns[i] = saved.turns[i]
      BY <1>3 DEF Continues, Finals
    <2>2. Record!Keeps(old, new)
      BY <2>1 DEF Record!Keeps
    <2>3. DOMAIN new = Finals(saved')
      OBVIOUS
    <2>4. Record!Cardinality(Finals(saved')) = Cardinality(Finals(saved'))
      BY DEF Record!Cardinality, Cardinality
    <2> HIDE DEF old, new
    <2> QED
      BY <1>1, <1>3, <2>2, <2>3, <2>4 DEF Record!Commit, CompletionIn, old, new
  <1> QED
    BY <1>2, <1>3

\* The committed rows implement InterviewRecord: final answers are only added,
\* and the commit that brings the last one completes and announces the interview.
THEOREM StreamImplementsRecord == Spec => ImplementsRecord
  <1>1. Init => Record!Begin
    <2>1. Init => saved = NewSession
      BY DEF Init
    <2> QED
      BY <2>1 DEF NewSession, Finals, Record!Begin
  <1>2. IInv /\ IInv' /\ Continues(saved, saved') => [Record!Commit]_(Record!record)
    BY CommitRefines
  <1>3. UNCHANGED vars => UNCHANGED (Record!record)
    BY DEF vars, Record!record, Finals
  <1> QED
    BY <1>1, <1>2, <1>3, Inductive, PTL DEF Spec, ImplementsRecord, Record!Promise

-----------------------------------------------------------------------------
(* The pace of questions and answers, and the point to resume at *)

\* What a handler leaves as long as every question can be read.
Steady(d) == PaceIn(d) /\ ResumePointIn(d)

\* e asks what d asks.
SameQuestions(d, e) ==
    /\ Questions(e) = Questions(d)
    /\ \A i \in Questions(d) : e.turns[i] = d.turns[i]
    /\ e.turns = <<>> <=> d.turns = <<>>

\* A session in one of these states waits for the answer to its last question.
InHand(d) == d.state \in {"awaiting_answer", "paused"}

\* Questions are finitely many places of the transcript.
LEMMA QuestionsAreFinite ==
    ASSUME NEW d, d \in Rows
    PROVE  /\ IsFiniteSet(Questions(d)) /\ Cardinality(Questions(d)) \in Nat
           /\ Questions(d) \subseteq 1..Len(d.turns) /\ Len(d.turns) \in Nat
  <1>1. Len(d.turns) \in Nat /\ DOMAIN d.turns = 1..Len(d.turns)
    BY LenProperties DEF Rows
  <1>2. IsFiniteSet(1..Len(d.turns))
    BY <1>1, FS_Interval
  <1>3. Questions(d) \in SUBSET (1..Len(d.turns))
    BY <1>1 DEF Questions
  <1>4. IsFiniteSet(Questions(d))
    BY <1>2, <1>3, FS_Subset
  <1> QED
    BY <1>1, <1>3, <1>4, FS_CardinalityType

\* Transcripts that are empty together have the same questions when their
\* questions are the same places.
LEMMA EmptyTogether ==
    ASSUME NEW d, NEW e, d \in Rows, e \in Rows,
           DOMAIN d.turns \subseteq DOMAIN e.turns, d.turns # <<>>
    PROVE  e.turns # <<>>
  <1>1. d.turns \in Seq(Turn) /\ e.turns \in Seq(Turn)
    BY DEF Rows
  <1>2. Len(d.turns) # 0
    BY <1>1, EmptySeq
  <1>3. 1 \in DOMAIN e.turns
    BY <1>1, <1>2, LenProperties
  <1> QED
    BY <1>3

\* Pace is a matter of the questions, of how many answers are final, and of
\* whether the session waits for one.
LEMMA PaceKept ==
    ASSUME NEW d, NEW e, PaceIn(d), SameQuestions(d, e), InHand(d), InHand(e),
           Finals(e) = Finals(d)
    PROVE  PaceIn(e)
  <1>1. d.state \in {"awaiting_answer", "paused"} /\ e.state \in {"awaiting_answer", "paused"}
    BY DEF InHand
  <1>2. \A i \in Questions(e) :
           /\ e.turns[i].number = d.turns[i].number
           /\ {j \in Questions(e) : j <= i} = {j \in Questions(d) : j <= i}
    BY DEF SameQuestions
  <1>3. \A i \in Questions(e) : e.turns[i].number = Cardinality({j \in Questions(e) : j <= i})
    BY <1>2 DEF PaceIn, SameQuestions
  <1> QED
    BY <1>1, <1>3 DEF PaceIn, SameQuestions

\* A checkpoint where none is yet becomes the latest one.
LEMMA LatestIsNew ==
    ASSUME NEW d, NEW pending, NEW final, NEW media, d \in Rows, Unmarked(d)
    PROVE  Latest(Checkpointed(d, pending, final, media))
              = [at |-> d.sequence, pending |-> pending, final |-> final, media |-> media]
  <1> DEFINE new == [at |-> d.sequence, pending |-> pending, final |-> final, media |-> media]
             e == Checkpointed(d, pending, final, media)
             all == e.checkpoints \cup {NoCheckpoint}
  <1>1. d \in Rows /\ d.sequence \in Nat /\ d.checkpoints \subseteq Checkpoint
    BY DEF Rows
  <1>2. e = [d EXCEPT !.checkpoints = d.checkpoints \cup {new}]
    BY DEF Checkpointed
  <1>3. new.at = d.sequence
    OBVIOUS
  <1> HIDE DEF new
  <1>4. e.checkpoints = d.checkpoints \cup {new}
    BY <1>1, <1>2 DEF Rows
  <1>5. \A c \in all : c = new \/ (c.at \in Nat /\ c.at < d.sequence)
    BY <1>1, <1>4 DEF Checkpoint, NoCheckpoint, Unmarked
  <1>6. Latest(e) = CHOOSE c \in all : \A f \in all : f.at <= c.at
    BY DEF Latest
  <1>7. new \in all
    BY <1>4
  <1> HIDE DEF all, e
  <1>8. \A c \in all : c.at <= new.at
    BY <1>1, <1>3, <1>5
  <1>9. \A c \in all : (\A f \in all : f.at <= c.at) => c = new
    BY <1>1, <1>3, <1>5, <1>7
  <1>10. Latest(e) = new
    BY <1>6, <1>7, <1>8, <1>9
  <1> QED
    BY <1>10 DEF new, e

\* What a checkpoint leaves alone.
LEMMA CheckpointedIsSame ==
    ASSUME NEW d, NEW pending, NEW final, NEW media, d \in Rows
    PROVE  LET e == Checkpointed(d, pending, final, media)
           IN  /\ e.turns = d.turns /\ e.state = d.state /\ e.sequence = d.sequence
               /\ Questions(e) = Questions(d) /\ Finals(e) = Finals(d)
  <1> DEFINE e == Checkpointed(d, pending, final, media)
             new == [at |-> d.sequence, pending |-> pending, final |-> final, media |-> media]
  <1>1. e = [d EXCEPT !.checkpoints = d.checkpoints \cup {new}]
    BY DEF Checkpointed
  <1> HIDE DEF new
  <1>2. e.turns = d.turns /\ e.state = d.state /\ e.sequence = d.sequence
    BY <1>1 DEF Rows
  <1> QED
    BY <1>2 DEF Questions, Finals

\* The same checkpoints are read the same.
LEMMA SameLatest ==
    ASSUME NEW d, NEW e, e.checkpoints = d.checkpoints
    PROVE  Latest(e) = Latest(d)
  BY DEF Latest

LEMMA SameLastQuestion ==
    ASSUME NEW d, NEW e, Questions(e) = Questions(d)
    PROVE  LastQuestion(e) = LastQuestion(d)
  BY DEF LastQuestion

\* Between two handlers, nothing that pace and resume point speak of has changed.
LEMMA SteadyWhenAlike ==
    ASSUME NEW d, NEW e, Steady(d), SameQuestions(d, e), InHand(d),
           Finals(e) = Finals(d), e.state = d.state, e.sequence = d.sequence,
           e.checkpoints = d.checkpoints
    PROVE  Steady(e)
  <1>1. PaceIn(e)
    BY PaceKept DEF Steady, InHand
  <1>2. Latest(e) = Latest(d) /\ LastQuestion(e) = LastQuestion(d)
    BY SameLatest, SameLastQuestion DEF SameQuestions
  <1> QED
    BY <1>1, <1>2 DEF Steady, ResumePointIn

\* A pause and a resume write the question and the answer of the latest checkpoint
\* again, under a sequence of their own.
LEMMA SteadyWhenMoved ==
    ASSUME NEW d, NEW chunks, NEW p, NEW media, Base(d, chunks), Base(p, chunks),
           Steady(d), InHand(d), InHand(p), Unmarked(p), p.turns = d.turns
    PROVE  Steady(Checkpointed(p, LastQuestion(d), Latest(d).final, media))
  <1> DEFINE e == Checkpointed(p, LastQuestion(d), Latest(d).final, media)
  <1>1. Questions(p) = Questions(d) /\ Finals(p) = Finals(d)
    BY DEF Questions, Finals
  <1>2. /\ e.turns = p.turns /\ e.state = p.state /\ e.sequence = p.sequence
        /\ Questions(e) = Questions(p) /\ Finals(e) = Finals(p)
    BY CheckpointedIsSame DEF Base
  <1>3. Latest(e) = [at |-> p.sequence, pending |-> LastQuestion(d),
                     final |-> Latest(d).final, media |-> media]
    BY LatestIsNew DEF Base
  <1> HIDE DEF e
  <1>4. PaceIn(e)
    BY <1>1, <1>2, PaceKept DEF Steady, SameQuestions, InHand
  <1>5. LastQuestion(e) = LastQuestion(d)
    BY <1>1, <1>2, SameLastQuestion
  <1>6. ResumePointIn(e)
    BY <1>1, <1>2, <1>3, <1>5 DEF Steady, ResumePointIn, InHand
  <1> QED
    BY <1>4, <1>6 DEF Steady, e

LEMMA PausedIsSteady ==
    ASSUME NEW d, NEW chunks, Base(d, chunks), Steady(d), InHand(d)
    PROVE  Steady(Paused(d))
  <1> DEFINE p == Passed(d, "paused", 1)
  <1>1. /\ Base(p, chunks) /\ Unmarked(p) /\ p.state = "paused" /\ p.turns = d.turns
        /\ p.checkpoints = d.checkpoints
    BY PassedKeeps
  <1> HIDE DEF p
  <1>2. LastQuestion(p) = LastQuestion(d) /\ Latest(p) = Latest(d)
    <2>1. Questions(p) = Questions(d)
      BY <1>1 DEF Questions
    <2> QED
      BY <1>1, <2>1, SameLatest, SameLastQuestion
  <1>3. Steady(Checkpointed(p, LastQuestion(d), Latest(d).final, LastVerified(p)))
    BY <1>1, SteadyWhenMoved DEF InHand
  <1> QED
    BY <1>2, <1>3 DEF Paused, p

LEMMA ResumedIsSteady ==
    ASSUME NEW d, NEW chunks, Base(d, chunks), Steady(d)
    PROVE  Steady(Resumed(d))
  <1> DEFINE p == Passed(d, "awaiting_answer", 1)
  <1>1. CASE d.state = "paused"
    <2>1. /\ Base(p, chunks) /\ Unmarked(p) /\ p.state = "awaiting_answer" /\ p.turns = d.turns
      BY PassedKeeps
    <2>2. Latest(d).pending = LastQuestion(d)
      BY <1>1 DEF Steady, ResumePointIn
    <2> HIDE DEF p
    <2>3. Steady(Checkpointed(p, LastQuestion(d), Latest(d).final, LastVerified(d)))
      BY <1>1, <2>1, SteadyWhenMoved DEF InHand
    <2> QED
      BY <1>1, <2>2, <2>3 DEF Resumed, p
  <1>2. CASE d.state # "paused"
    BY <1>2 DEF Resumed
  <1> QED
    BY <1>1, <1>2

\* Text changes no question.
LEMMA WrittenAsksNothing ==
    ASSUME NEW d, NEW chunks, NEW a \in AnswerIds, NEW text \in Seq(Fragments), Base(d, chunks),
           d.turns # <<>>
    PROVE  LET e == Written(d, a, text)
           IN  /\ SameQuestions(d, e)
               /\ e.sequence = d.sequence /\ e.checkpoints = d.checkpoints
  <1> DEFINE e == Written(d, a, text)
  <1>1. d \in Rows /\ d.turns \in Seq(Turn)
    BY DEF Base, Rows
  <1>2. /\ e \in Rows /\ Extends(d, e)
    BY WrittenKeeps DEF Base
  <1>3. CASE Places(d, a) = {}
    <2> DEFINE f == [d EXCEPT !.turns = Append(@, Answer(a, text))]
               new == Len(d.turns) + 1
    <2>1. e = f
      BY <1>3 DEF Written
    <2>2. Answer(a, text) \in Turn
      BY DEF Answer, Turn
    <2>3. /\ DOMAIN f.turns = DOMAIN d.turns \cup {new}
          /\ \A i \in DOMAIN d.turns : f.turns[i] = d.turns[i]
          /\ f.turns[new] = Answer(a, text)
          /\ f.sequence = d.sequence /\ f.checkpoints = d.checkpoints
      BY <1>1, <2>2, AppendedTurn
    <2> HIDE DEF e, f, new
    <2>4. Questions(e) = Questions(d)
      BY <2>1, <2>3 DEF Questions, Answer
    <2>5. DOMAIN d.turns \subseteq DOMAIN e.turns
      BY <2>1, <2>3
    <2>6. e.turns # <<>>
      BY <1>1, <1>2, <2>5, EmptyTogether
    <2> QED
      BY <1>2, <2>1, <2>3, <2>4, <2>6 DEF SameQuestions, Extends, e
  <1>4. CASE Places(d, a) # {}
    <2> DEFINE u == [i \in DOMAIN d.turns |->
                        IF i \in Recording(d, a) THEN [d.turns[i] EXCEPT !.text = text]
                                                 ELSE d.turns[i]]
    <2>1. e = [d EXCEPT !.turns = u]
      BY <1>1, <1>4 DEF Written, Rows
    <2>2. e.turns = u /\ e.sequence = d.sequence /\ e.checkpoints = d.checkpoints
      BY <1>1, <2>1 DEF Rows
    <2>3. \A i \in DOMAIN d.turns : d.turns[i] \in Turn
      BY <1>1, LenProperties, ElementOfSeq
    <2>4. ASSUME NEW i \in DOMAIN d.turns
          PROVE  u[i].speaker = d.turns[i].speaker
      <3>1. CASE i \in Recording(d, a)
        BY <2>3, <3>1, AnswerUpdate DEF Recording, Places
      <3>2. CASE i \notin Recording(d, a)
        BY <2>3, <3>2
      <3> QED
        BY <3>1, <3>2
    <2>5. DOMAIN e.turns = DOMAIN d.turns
      BY <2>2
    <2> HIDE DEF e, u
    <2>6. Questions(e) = Questions(d)
      BY <2>2, <2>4, <2>5 DEF Questions
    <2>7. e.turns # <<>>
      BY <1>1, <1>2, <2>5, EmptyTogether
    <2> QED
      BY <1>2, <2>2, <2>6, <2>7 DEF SameQuestions, Extends, e
  <1> QED
    BY <1>3, <1>4

\* Nor does finalizing an answer.
LEMMA FinalizedAsksNothing ==
    ASSUME NEW d, NEW chunks, NEW a \in AnswerIds, Base(d, chunks), d.turns # <<>>
    PROVE  SameQuestions(d, Finalized(d, a)) /\ DOMAIN Finalized(d, a).turns = DOMAIN d.turns
  <1> DEFINE e == Finalized(d, a)
             u == [i \in DOMAIN d.turns |->
                      IF i \in Recording(d, a) THEN [d.turns[i] EXCEPT !.status = "final"]
                                               ELSE d.turns[i]]
  <1>1. d \in Rows /\ d.turns \in Seq(Turn)
    BY DEF Base, Rows
  <1>2. e \in Rows /\ Extends(d, e)
    BY FinalizedKeeps DEF Base
  <1>3. e.turns = u
    BY <1>1 DEF Finalized, Rows
  <1>4. \A i \in DOMAIN d.turns : d.turns[i] \in Turn
    BY <1>1, LenProperties, ElementOfSeq
  <1>5. ASSUME NEW i \in DOMAIN d.turns
        PROVE  u[i].speaker = d.turns[i].speaker
    <2>1. CASE i \in Recording(d, a)
      BY <1>4, <2>1, AnswerUpdate DEF Recording, Places
    <2>2. CASE i \notin Recording(d, a)
      BY <1>4, <2>2
    <2> QED
      BY <2>1, <2>2
  <1>6. DOMAIN e.turns = DOMAIN d.turns
    BY <1>3
  <1> HIDE DEF e, u
  <1>7. Questions(e) = Questions(d)
    BY <1>3, <1>5, <1>6 DEF Questions
  <1>8. e.turns # <<>>
    BY <1>1, <1>2, <1>6, EmptyTogether
  <1> QED
    BY <1>2, <1>6, <1>7, <1>8 DEF SameQuestions, Extends, e

\* The rows after an answer ask what was asked before.
LEMMA AnsweredAsksNothing ==
    ASSUME NEW d, NEW chunks, NEW a \in AnswerIds, NEW place \in Recording(d, a),
           NEW through \in 0..MaxChunks, NEW target \in {"awaiting_answer", "completed"},
           Base(d, chunks), 1..through \subseteq d.verified \cup chunks
    PROVE  LET e == Passed(Finalized(Verified(d, through), a), target, 2)
           IN  /\ SameQuestions(d, e)
               /\ e.sequence = d.sequence + 2
               /\ Cardinality(Finals(e)) = Cardinality(Finals(d)) + 1
  <1> DEFINE v == Verified(d, through)
             f == Finalized(v, a)
             e == Passed(f, target, 2)
  <1>1. d \in Rows
    BY DEF Base
  <1>2. v.turns = d.turns /\ v.sequence = d.sequence
    BY <1>1 DEF Verified, Rows
  <1>3. Base(v, chunks)
    BY VerifiedKeeps
  <1>4. place \in DOMAIN d.turns /\ d.turns # <<>>
    BY DEF Recording, Places
  <1> HIDE DEF v
  <1>5. SameQuestions(v, f) /\ Base(f, chunks) /\ f.sequence = v.sequence
    BY <1>2, <1>3, <1>4, FinalizedKeeps, FinalizedAsksNothing
  <1> HIDE DEF f
  <1>6. e.turns = f.turns /\ e.sequence = f.sequence + 2
    BY <1>5, PassedKeeps
  <1> HIDE DEF e
  <1>7. Questions(v) = Questions(d) /\ Questions(e) = Questions(f)
    BY <1>2, <1>6 DEF Questions
  <1>8. Finals(e) = Finals(Finalized(d, a))
    BY AnsweredKeeps DEF e, f, v
  <1>9. Cardinality(Finals(e)) = Cardinality(Finals(d)) + 1
    BY <1>8, OneAnswerMore
  <1> QED
    BY <1>2, <1>5, <1>6, <1>7, <1>9 DEF SameQuestions, e, f, v

\* Questions bear the numbers of their order.
Numbered(d) ==
    \A i \in Questions(d) : d.turns[i].number = Cardinality({j \in Questions(d) : j <= i})

\* A question that is asked when every one before it is answered.
LEMMA AskedIsSteady ==
    ASSUME NEW d, NEW number, NEW final, NEW media,
           d \in Rows, Unmarked(d), d.state = "awaiting_answer", Numbered(d),
           Cardinality(Questions(d)) = Cardinality(Finals(d)),
           number = Cardinality(Questions(d)) + 1,
           final = 0 <=> Finals(d) = {}
    PROVE  /\ Steady(Asked(d, number, final, media))
           /\ Asked(d, number, final, media).sequence = d.sequence
  <1> DEFINE f == [d EXCEPT !.turns = Append(@, Question(number))]
             new == Len(d.turns) + 1
             e == Checkpointed(f, new, final, media)
  <1>1. /\ IsFiniteSet(Questions(d)) /\ Cardinality(Questions(d)) \in Nat
        /\ Questions(d) \subseteq 1..Len(d.turns) /\ Len(d.turns) \in Nat
    BY QuestionsAreFinite
  <1>2. number \in Nat \ {0}
    BY <1>1
  <1>3. Question(number) \in Turn
    BY <1>2 DEF Question, Turn
  <1>4. /\ f \in Rows
        /\ DOMAIN f.turns = DOMAIN d.turns \cup {new}
        /\ new \notin DOMAIN d.turns
        /\ \A i \in DOMAIN d.turns : f.turns[i] = d.turns[i]
        /\ f.turns[new] = Question(number)
        /\ f.state = d.state /\ f.sequence = d.sequence /\ f.checkpoints = d.checkpoints
    BY <1>3, AppendedTurn
  <1>5. Asked(d, number, final, media) = e
    BY DEF Asked
  <1> HIDE DEF f
  <1>6. Questions(f) = Questions(d) \cup {new} /\ Finals(f) = Finals(d) /\ new \notin Questions(d)
    BY <1>4 DEF Questions, Finals, Question
  <1>7. Unmarked(f)
    BY <1>4 DEF Unmarked
  <1>8. /\ e.turns = f.turns /\ e.state = f.state /\ e.sequence = f.sequence
        /\ Questions(e) = Questions(f) /\ Finals(e) = Finals(f)
    BY <1>4, CheckpointedIsSame
  <1>9. Latest(e) = [at |-> f.sequence, pending |-> new, final |-> final, media |-> media]
    BY <1>4, <1>7, LatestIsNew
  <1> HIDE DEF e
  <1>10. Cardinality(Questions(e)) = Cardinality(Questions(d)) + 1
    <2>1. Questions(e) = Questions(d) \cup {new} /\ new \notin Questions(d)
      BY <1>6, <1>8
    <2> HIDE DEF new
    <2> QED
      BY <1>1, <2>1, FS_AddElement
  <1>11. Numbered(e)
    <2>1. ASSUME NEW i \in Questions(d)
          PROVE  e.turns[i].number = Cardinality({j \in Questions(e) : j <= i})
      <3>1. i \in DOMAIN d.turns /\ e.turns[i] = d.turns[i]
        BY <1>4, <1>8 DEF Questions
      <3>2. {j \in Questions(e) : j <= i} = {j \in Questions(d) : j <= i}
        BY <1>1, <1>6, <1>8
      <3> QED
        BY <3>1, <3>2 DEF Numbered
    <2>2. e.turns[new].number = Cardinality({j \in Questions(e) : j <= new})
      <3>1. {j \in Questions(e) : j <= new} = Questions(e)
        BY <1>1, <1>6, <1>8
      <3>2. e.turns[new].number = number
        BY <1>4, <1>8 DEF Question
      <3> QED
        BY <1>10, <3>1, <3>2
    <2> QED
      BY <1>6, <1>8, <2>1, <2>2 DEF Numbered
  <1>12. LastQuestion(e) = new
    <2> DEFINE S == Questions(e) \cup {0}
    <2>1. S \subseteq Nat /\ S # {} /\ new \in Nat /\ new \in S /\ \A x \in S : x <= new
      BY <1>1, <1>6, <1>8
    <2> HIDE DEF S, new
    <2>2. Max(S) \in S /\ \A y \in S : y <= Max(S)
      BY <2>1, MaxOfBounded
    <2>3. Max(S) = new
      <3>1. Max(S) \in Nat /\ Max(S) <= new /\ new <= Max(S)
        BY <2>1, <2>2
      <3> QED
        BY <2>1, <3>1
    <2> QED
      BY <2>3 DEF LastQuestion, S
  <1>13. e.turns # <<>>
    BY <1>4, <1>8
  <1>14. PaceIn(e)
    BY <1>4, <1>6, <1>8, <1>10, <1>11, <1>13 DEF PaceIn, Numbered
  <1>15. ResumePointIn(e)
    BY <1>4, <1>6, <1>8, <1>9, <1>12 DEF ResumePointIn
  <1> QED
    BY <1>4, <1>5, <1>8, <1>14, <1>15 DEF Steady

\* The last answer leaves a session with all questions asked and nothing pending.
LEMMA CompletedIsSteady ==
    ASSUME NEW d, NEW chunks, NEW a \in AnswerIds, NEW place \in Recording(d, a),
           NEW through \in 0..MaxChunks, NEW event \in {"pending", "published"},
           Base(d, chunks), 1..through \subseteq d.verified \cup chunks, Steady(d), InHand(d),
           Cardinality(Finals(Finalized(d, a))) = MaxQuestions
    PROVE  LET q == Passed(Finalized(Verified(d, through), a), "completed", 2)
           IN  Steady([Checkpointed(q, 0, place, through) EXCEPT !.event = event])
  <1> DEFINE q == Passed(Finalized(Verified(d, through), a), "completed", 2)
             c == Checkpointed(q, 0, place, through)
             e == [c EXCEPT !.event = event]
  <1>1. /\ Base(q, chunks) /\ Unmarked(q) /\ q.state = "completed"
        /\ place \in Finals(q) /\ Finals(q) = Finals(Finalized(d, a))
        /\ through \in q.verified \cup {0}
    BY AnsweredKeeps
  <1>2. SameQuestions(d, q) /\ Cardinality(Finals(q)) = Cardinality(Finals(d)) + 1
    BY AnsweredAsksNothing
  <1> HIDE DEF q
  <1>3. /\ c.turns = q.turns /\ c.state = q.state /\ c.sequence = q.sequence
        /\ Questions(c) = Questions(q) /\ Finals(c) = Finals(q)
    BY <1>1, CheckpointedIsSame DEF Base
  <1>4. Latest(c) = [at |-> q.sequence, pending |-> 0, final |-> place, media |-> through]
    BY <1>1, LatestIsNew DEF Base
  <1>5. c \in Rows
    BY <1>1, CheckpointedKeeps DEF Base
  <1> HIDE DEF c
  <1>6. e.turns = c.turns /\ e.state = c.state /\ e.sequence = c.sequence
        /\ e.checkpoints = c.checkpoints
    BY <1>5 DEF Rows
  <1> HIDE DEF e
  <1>7. Questions(e) = Questions(d) /\ Finals(e) = Finals(q) /\ Latest(e) = Latest(c)
    BY <1>2, <1>3, <1>6, SameLatest DEF Questions, Finals, SameQuestions
  <1>8. Cardinality(Questions(e)) = MaxQuestions
    BY <1>1, <1>2, <1>7 DEF Steady, PaceIn, InHand
  <1>9. e.turns # <<>>
    BY <1>2, <1>3, <1>6 DEF Steady, PaceIn, InHand, SameQuestions
  <1>10. \A i \in Questions(e) : e.turns[i].number = Cardinality({j \in Questions(e) : j <= i})
    BY <1>2, <1>3, <1>6, <1>7 DEF Steady, PaceIn, SameQuestions
  <1>11. PaceIn(e)
    BY <1>1, <1>3, <1>6, <1>8, <1>9, <1>10 DEF PaceIn
  <1>12. place # 0
    <2>1. place \in DOMAIN d.turns /\ d.turns \in Seq(Turn)
      BY DEF Recording, Places, Base, Rows
    <2> QED
      BY <2>1, LenProperties
  <1>13. ResumePointIn(e)
    BY <1>1, <1>3, <1>4, <1>6, <1>7, <1>12 DEF ResumePointIn
  <1> QED
    BY <1>11, <1>13 DEF Steady, e, c, q

-----------------------------------------------------------------------------
(* The second invariant, on top of IInv *)

\* As long as the strategy can be read, both copies of the rows are in step.
Paced == "strategy" \notin Faults => Steady(db) /\ Steady(saved)

\* Nothing the applicant heard is ahead of the rows, and a closed connection has
\* committed what it wrote.  Without the first conjunct Restate and the handlers
\* that answer with what was heard could tell a sequence no row has.
Reminded ==
    /\ heard <= db.sequence
    /\ "process" \notin Faults => told <= db.sequence
    /\ conn = "closed" => db = saved

\* A reply that tells no more than the rows it leaves.
LEMMA RespondGoesOn ==
    ASSUME IInv, Paced, Reminded, conn = "open",
           NEW e, NEW sequence \in Nat, e \in Rows, Respond(e, sequence),
           db.sequence <= e.sequence, sequence <= e.sequence,
           "strategy" \notin Faults => Steady(e)
    PROVE  Paced' /\ Reminded'
  <1>1. db' = e /\ saved' = saved /\ conn' = "open" /\ heard' = sequence
        /\ told' \in {told, sequence}
    BY MaxOfTwo DEF Respond, IInv, TypeOK
  <1>2. db.sequence \in Nat /\ e.sequence \in Nat /\ told \in Nat
    BY DEF IInv, TypeOK, Rows
  <1>3. Paced'
    BY <1>1 DEF Paced
  <1>4. Reminded'
    BY <1>1, <1>2 DEF Reminded
  <1> QED
    BY <1>3, <1>4

\* A connection that ends commits what it leaves.
LEMMA CloseGoesOn ==
    ASSUME IInv, Paced, Reminded,
           NEW e, e \in Rows, Close(e), db.sequence <= e.sequence,
           "strategy" \notin Faults => Steady(e)
    PROVE  Paced' /\ Reminded'
  <1>1. db' = e /\ saved' = e /\ conn' = "closed" /\ heard' = 0 /\ told' = told
    BY DEF Close
  <1>2. db.sequence \in Nat /\ e.sequence \in Nat /\ told \in Nat
    BY DEF IInv, TypeOK, Rows
  <1>3. Paced'
    BY <1>1 DEF Paced
  <1>4. Reminded'
    BY <1>1, <1>2 DEF Reminded
  <1> QED
    BY <1>3, <1>4

\* A session that has not started is in step, with nothing to resume.
LEMMA NewIsSteady == Steady(NewSession)
  <1>1. Questions(NewSession) = {} /\ NewSession.turns = <<>> /\ NewSession.state = "preparing"
    BY DEF NewSession, Questions
  <1> QED
    BY <1>1 DEF Steady, PaceIn, ResumePointIn

\* The first question, of a session that has no turn.
LEMMA StartedIsSteady ==
    ASSUME IInv, Startable
    PROVE  LET e == Asked(Started, 1, 0, 0)
           IN  Steady(e) /\ e.sequence = Started.sequence
  <1>1. Base(db, stored) /\ db.turns = <<>>
    BY DEF IInv, Sound, Startable
  <1>2. /\ Base(Started, stored) /\ Unmarked(Started) /\ Started.state = "awaiting_answer"
        /\ Started.turns = db.turns
    BY <1>1, PassedKeeps DEF Started
  <1>3. Questions(Started) = {} /\ Finals(Started) = {}
    BY <1>1, <1>2 DEF Questions, Finals
  <1>4. Cardinality(Questions(Started)) = 0 /\ Cardinality(Finals(Started)) = 0
    BY <1>3, FS_EmptySet
  <1>5. Started \in Rows /\ Numbered(Started)
    BY <1>2, <1>3 DEF Base, Numbered
  <1> QED
    BY <1>2, <1>3, <1>4, <1>5, AskedIsSteady

\* Text, of a session that waits for an answer.
LEMMA WrittenIsSteady ==
    ASSUME IInv, Awaiting, NEW a \in AnswerIds, NEW text \in Seq(Fragments), Steady(db)
    PROVE  Steady(Written(db, a, text))
  <1>1. Base(db, stored) /\ db.turns # <<>> /\ db.state = "awaiting_answer"
    BY DEF IInv, Sound, Awaiting, Shown, Questions
  <1> DEFINE e == Written(db, a, text)
  <1>2. SameQuestions(db, e) /\ e.sequence = db.sequence /\ e.checkpoints = db.checkpoints
    BY <1>1, WrittenAsksNothing
  <1>3. e.state = db.state /\ Finals(e) = Finals(db)
    BY <1>1, WrittenKeeps DEF SameStanding
  <1> HIDE DEF e
  <1> QED
    BY <1>1, <1>2, <1>3, SteadyWhenAlike DEF InHand, e

\* Verified chunks are no matter of the transcript.
LEMMA VerifiedIsSteady ==
    ASSUME NEW d, NEW through \in 0..MaxChunks, d \in Rows, Steady(d), InHand(d)
    PROVE  Steady(Verified(d, through))
  <1> DEFINE e == Verified(d, through)
  <1>1. e.turns = d.turns /\ e.state = d.state /\ e.sequence = d.sequence
        /\ e.checkpoints = d.checkpoints
    BY DEF Verified, Rows
  <1> HIDE DEF e
  <1>2. Finals(e) = Finals(d) /\ SameQuestions(d, e)
    BY <1>1 DEF Finals, Questions, SameQuestions
  <1> QED
    BY <1>1, <1>2, SteadyWhenAlike DEF e

\* The next question, once the answer to the one before is final.
LEMMA NextIsSteady ==
    ASSUME IInv, NEW a \in AnswerIds, NEW place \in DOMAIN db.turns,
           NEW through \in 0..MaxChunks, Completing(a, place, through), Steady(db)
    PROVE  Steady(Asked(Answered(a, through), AnswersAfter(a) + 1, place, through))
  <1> DEFINE e == Answered(a, through)
  <1>1. /\ Base(db, stored) /\ place \in Recording(db, a) /\ db.state = "awaiting_answer"
        /\ 1..through \subseteq db.verified \cup stored
        /\ Cardinality(Finals(Finalized(db, a))) = AnswersAfter(a)
    BY CompletingCounts DEF IInv, Sound
  <1>2. /\ Base(e, stored) /\ Unmarked(e) /\ e.state = "awaiting_answer"
        /\ place \in Finals(e) /\ Finals(e) = Finals(Finalized(db, a))
    BY <1>1, AnsweredKeeps DEF Answered
  <1>3. SameQuestions(db, e) /\ Cardinality(Finals(e)) = Cardinality(Finals(db)) + 1
    BY <1>1, AnsweredAsksNothing DEF Answered
  <1> HIDE DEF e
  <1>4. Cardinality(Questions(e)) = Cardinality(Finals(e))
    BY <1>1, <1>3 DEF Steady, PaceIn, SameQuestions
  <1>5. Numbered(e)
    BY <1>3 DEF Steady, PaceIn, SameQuestions, Numbered
  <1>6. place # 0
    <2>1. place \in DOMAIN db.turns /\ db.turns \in Seq(Turn)
      BY <1>1 DEF Base, Rows
    <2> QED
      BY <2>1, LenProperties
  <1>7. place = 0 <=> Finals(e) = {}
    BY <1>2, <1>6
  <1>8. AnswersAfter(a) + 1 = Cardinality(Questions(e)) + 1
    BY <1>1, <1>2, <1>4
  <1> QED
    BY <1>2, <1>4, <1>5, <1>7, <1>8, AskedIsSteady DEF Base, e

\* How far answer.complete moves the session, however it ends.
LEMMA AnsweredSequence ==
    ASSUME IInv, NEW a \in AnswerIds, NEW place \in DOMAIN db.turns,
           NEW through \in 0..MaxChunks, Completing(a, place, through),
           NEW event \in {"pending", "published"}
    PROVE  /\ Answered(a, through).sequence = db.sequence + 2
           /\ Asked(Answered(a, through), AnswersAfter(a) + 1, place, through).sequence
                 = db.sequence + 2
           /\ Completed(a, place, through, event).sequence = db.sequence + 2
  <1>1. /\ Base(db, stored) /\ place \in Recording(db, a)
        /\ 1..through \subseteq db.verified \cup stored
    BY CompletingCounts DEF IInv, Sound
  <1> DEFINE d(target) == Passed(Finalized(Verified(db, through), a), target, 2)
  <1>2. ASSUME NEW target \in {"awaiting_answer", "completed"}
        PROVE  d(target) \in Rows /\ d(target).sequence = db.sequence + 2
    BY <1>1, AnsweredKeeps, AnsweredAsksNothing DEF Base
  <1>3. Answered(a, through) = d("awaiting_answer")
    BY DEF Answered
  <1>4. Completed(a, place, through, event)
           = [Checkpointed(d("completed"), 0, place, through) EXCEPT !.event = event]
    BY DEF Completed
  <1> HIDE DEF d
  <1>5. Completed(a, place, through, event).sequence = db.sequence + 2
    BY <1>2, <1>4 DEF Checkpointed, Rows
  <1>6. Asked(Answered(a, through), AnswersAfter(a) + 1, place, through).sequence
           = db.sequence + 2
    BY <1>2, <1>3 DEF Asked, Checkpointed, Rows
  <1> QED
    BY <1>2, <1>3, <1>5, <1>6

\* No step puts the rows out of step, or takes back what the applicant was told.
LEMMA NextGoesOn ==
    IInv /\ Paced /\ Reminded /\ [Next]_vars => Paced' /\ Reminded'
  <1> SUFFICES ASSUME IInv, Paced, Reminded, [Next]_vars
               PROVE  Paced' /\ Reminded'
    OBVIOUS
  <1>1. db \in Rows /\ Base(db, stored) /\ heard \in Nat /\ db.sequence \in Nat
    BY DEF IInv, TypeOK, Sound, Rows
  <1>2. IInv'
    BY NextKeeps
  <1>3. \A a \in AnswerIds, text \in Seq(Fragments) :
            Awaiting /\ Respond(Written(db, a, text), heard) => Paced' /\ Reminded'
    <2> SUFFICES ASSUME NEW a \in AnswerIds, NEW text \in Seq(Fragments),
                        Awaiting, Respond(Written(db, a, text), heard)
                 PROVE  Paced' /\ Reminded'
      OBVIOUS
    <2> DEFINE e == Written(db, a, text)
    <2>1. e \in Rows /\ db.sequence <= e.sequence
      BY <1>1, WrittenKeeps DEF Base, Extends
    <2>2. "strategy" \notin Faults => Steady(e)
      BY WrittenIsSteady DEF Paced
    <2>3. conn = "open" /\ heard <= db.sequence /\ e.sequence \in Nat
      BY <2>1 DEF Awaiting, Fresh, Reminded, Rows
    <2>4. heard <= e.sequence
      BY <1>1, <2>1, <2>3
    <2> HIDE DEF e
    <2> QED
      BY <1>1, <2>1, <2>2, <2>3, <2>4, RespondGoesOn DEF e
  <1>4. \A through \in 0..MaxChunks : Verifiable(through) =>
            /\ Base(Verified(db, through), stored)
            /\ db.sequence <= Verified(db, through).sequence
    BY <1>1, VerifiedKeeps DEF Verifiable, Extends
  <1>5. ASSUME NEW d, Base(d, stored), db.sequence <= d.sequence, conn = "open",
               "strategy" \notin Faults => Steady(d) /\ InHand(d),
               Respond(Paused(d), Paused(d).sequence)
        PROVE  Paced' /\ Reminded'
    <2> DEFINE e == Paused(d)
    <2>1. e \in Rows /\ d.sequence <= e.sequence
      BY <1>5, PausedKeeps DEF Base, Extends
    <2>2. "strategy" \notin Faults => Steady(e)
      BY <1>5, PausedIsSteady
    <2>3. d.sequence \in Nat /\ e.sequence \in Nat
      BY <1>5, <2>1 DEF Base, Rows
    <2>4. db.sequence <= e.sequence
      BY <1>1, <1>5, <2>1, <2>3
    <2> HIDE DEF e
    <2> QED
      BY <1>5, <2>1, <2>2, <2>3, <2>4, RespondGoesOn DEF e
  <1>6. CASE UNCHANGED vars
    BY <1>6 DEF vars, Paced, Reminded
  <1>7. CASE Connect
    BY <1>1, <1>7 DEF Connect, Paced, Reminded
  <1>8. CASE Disconnect
    BY <1>1, <1>8, CloseGoesOn DEF Disconnect, Paced
  <1>9. CASE Crash
    <2>1. saved.sequence \in Nat
      BY DEF IInv, TypeOK, Rows
    <2> QED
      BY <1>9, <2>1 DEF Crash, Paced, Reminded
  <1>10. CASE CreateRecordingUploadIntent
    BY <1>10 DEF CreateRecordingUploadIntent, Paced, Reminded
  <1>11. CASE StoreChunk
    BY <1>11 DEF StoreChunk, Paced, Reminded
  <1>12. CASE Start
    <2> DEFINE e == Asked(Started, 1, 0, 0)
    <2>1. Steady(e) /\ e.sequence = Started.sequence
      BY <1>12, StartedIsSteady DEF Start
    <2>2. Started.sequence = db.sequence + 2
      BY <1>1, PassedKeeps DEF Started
    <2>3. conn = "open" /\ Respond(e, Started.sequence)
      BY <1>12 DEF Start, Startable, Fresh
    <2>4. e \in Rows
      BY <1>2, <2>3 DEF Respond, IInv, TypeOK
    <2> HIDE DEF e
    <2> QED
      BY <1>1, <2>1, <2>2, <2>3, <2>4, RespondGoesOn
  <1>13. CASE StartFails
    <2>1. Base(Started, stored) /\ Started.sequence = db.sequence + 2
      BY <1>1, PassedKeeps DEF Started
    <2> QED
      BY <1>1, <1>13, <2>1, CloseGoesOn DEF StartFails, Base
  <1>14. CASE Restate
    <2>1. conn = "open" /\ Respond(db, db.sequence)
      BY <1>14 DEF Restate, Fresh
    <2> QED
      BY <1>1, <2>1, RespondGoesOn DEF Paced
  <1>15. CASE Resume
    <2> DEFINE e == Resumed(db)
    <2>1. e \in Rows /\ db.sequence <= e.sequence
      BY <1>1, ResumedKeeps DEF Base, Extends
    <2>2. "strategy" \notin Faults => Steady(e)
      BY <1>1, ResumedIsSteady DEF Paced
    <2>3. conn = "open" /\ Respond(e, e.sequence)
      BY <1>15 DEF Resume
    <2>4. e.sequence \in Nat
      BY <2>1 DEF Rows
    <2> HIDE DEF e
    <2> QED
      BY <2>1, <2>2, <2>3, <2>4, RespondGoesOn
  <1>16. CASE SubmitText
    <2>1. PICK a \in AnswerIds, f \in Fragments : Respond(Written(db, a, <<f>>), heard)
      BY <1>16 DEF SubmitText
    <2>2. <<f>> \in Seq(Fragments)
      OBVIOUS
    <2> QED
      BY <1>3, <1>16, <2>1, <2>2 DEF SubmitText
  <1>17. CASE AudioChunk
    <2>1. PICK a \in AnswerIds, f \in Fragments :
              Respond(Written(db, a, Heard(TextOf(db, a), f)), heard)
      BY <1>17 DEF AudioChunk
    <2>2. Heard(TextOf(db, a), f) \in Seq(Fragments)
      BY <1>1, TextIsText
    <2> QED
      BY <1>3, <1>17, <2>1, <2>2 DEF AudioChunk
  <1>18. CASE AudioUnavailable
    <2>1. conn = "open" /\ db.state = "awaiting_answer" /\ Respond(Paused(db), Paused(db).sequence)
      BY <1>18 DEF AudioUnavailable, Awaiting, Fresh
    <2> QED
      BY <1>1, <1>5, <2>1 DEF Paced, InHand
  <1>19. CASE CompleteMissingTranscript
    <2>1. PICK through \in 0..MaxChunks :
                  /\ Verifiable(through)
                  /\ Respond(Paused(Verified(db, through)),
                             Paused(Verified(db, through)).sequence)
      BY <1>19 DEF CompleteMissingTranscript
    <2>2. conn = "open" /\ db.state = "awaiting_answer"
      BY <1>19 DEF CompleteMissingTranscript, Awaiting, Fresh
    <2> DEFINE d == Verified(db, through)
    <2>3. Base(d, stored) /\ db.sequence <= d.sequence
      BY <1>4, <2>1
    <2>4. d.state = "awaiting_answer"
      BY <1>1, <2>2 DEF Verified, Rows
    <2>5. "strategy" \notin Faults => Steady(d)
      BY <1>1, <2>2, VerifiedIsSteady DEF Paced, InHand
    <2> HIDE DEF d
    <2> QED
      BY <1>5, <2>1, <2>2, <2>3, <2>4, <2>5 DEF InHand, d
  <1>20. CASE CompleteVerifyFails
    <2>1. PICK upto \in 0..MaxChunks : Verifiable(upto) /\ Close(Verified(db, upto))
      BY <1>20 DEF CompleteVerifyFails
    <2>2. db.state = "awaiting_answer"
      BY <1>20 DEF CompleteVerifyFails, Awaiting
    <2> DEFINE d == Verified(db, upto)
    <2>3. d \in Rows /\ db.sequence <= d.sequence
      BY <1>4, <2>1 DEF Base
    <2>4. "strategy" \notin Faults => Steady(d)
      BY <1>1, <2>2, VerifiedIsSteady DEF Paced, InHand
    <2> HIDE DEF d
    <2> QED
      BY <2>1, <2>3, <2>4, CloseGoesOn DEF d
  <1>21. CASE CompleteNextQuestion
    <2>1. PICK a \in AnswerIds, place \in DOMAIN db.turns, through \in 0..MaxChunks :
              /\ Completing(a, place, through)
              /\ Respond(Asked(Answered(a, through), AnswersAfter(a) + 1, place, through),
                         db.sequence + 2)
      BY <1>21 DEF CompleteNextQuestion
    <2> DEFINE e == Asked(Answered(a, through), AnswersAfter(a) + 1, place, through)
    <2>2. "strategy" \notin Faults => Steady(e)
      BY <2>1, NextIsSteady DEF Paced
    <2>3. e.sequence = db.sequence + 2
      BY <2>1, AnsweredSequence
    <2>4. conn = "open"
      BY <2>1 DEF Completing, Awaiting, Fresh
    <2> HIDE DEF e
    <2>5. e \in Rows
      BY <1>2, <2>1 DEF Respond, IInv, TypeOK, e
    <2> QED
      BY <1>1, <2>1, <2>2, <2>3, <2>4, <2>5, RespondGoesOn DEF e
  <1>22. CASE CompleteQuestionFails
    <2>1. PICK a \in AnswerIds, place \in DOMAIN db.turns, through \in 0..MaxChunks :
              Completing(a, place, through) /\ Close(Answered(a, through))
      BY <1>22 DEF CompleteQuestionFails
    <2>2. "strategy" \in Faults
      BY <1>22 DEF CompleteQuestionFails
    <2>3. Answered(a, through).sequence = db.sequence + 2
      BY <2>1, AnsweredSequence
    <2>4. Answered(a, through) \in Rows
      BY <1>2, <2>1 DEF Close, IInv, TypeOK
    <2> QED
      BY <1>1, <2>1, <2>2, <2>3, <2>4, CloseGoesOn
  <1>23. ASSUME NEW a \in AnswerIds, NEW place \in DOMAIN db.turns, NEW through \in 0..MaxChunks,
                NEW event \in {"pending", "published"},
                Completing(a, place, through), AnswersAfter(a) >= MaxQuestions
         PROVE  /\ "strategy" \notin Faults => Steady(Completed(a, place, through, event))
                /\ Completed(a, place, through, event).sequence = db.sequence + 2
                /\ conn = "open"
    <2>1. /\ place \in Recording(db, a) /\ db.state = "awaiting_answer"
          /\ 1..through \subseteq db.verified \cup stored
          /\ Cardinality(Finals(Finalized(db, a))) = MaxQuestions
      BY <1>23, CompletingCounts, MaxQuestionsAssumption
    <2>2. "strategy" \notin Faults => Steady(Completed(a, place, through, event))
      BY <1>1, <2>1, CompletedIsSteady DEF Paced, InHand, Completed
    <2>3. conn = "open"
      BY <1>23 DEF Completing, Awaiting, Fresh
    <2> QED
      BY <1>23, <2>2, <2>3, AnsweredSequence
  <1>24. CASE CompleteInterview
    <2>1. PICK a \in AnswerIds, place \in DOMAIN db.turns, through \in 0..MaxChunks :
              /\ Completing(a, place, through)
              /\ AnswersAfter(a) >= MaxQuestions
              /\ Respond(Completed(a, place, through, "published"), db.sequence + 2)
      BY <1>24 DEF CompleteInterview
    <2> DEFINE e == Completed(a, place, through, "published")
    <2>2. /\ "strategy" \notin Faults => Steady(e)
          /\ e.sequence = db.sequence + 2 /\ conn = "open"
      BY <1>23, <2>1
    <2> HIDE DEF e
    <2>3. e \in Rows
      BY <1>2, <2>1 DEF Respond, IInv, TypeOK, e
    <2> QED
      BY <1>1, <2>1, <2>2, <2>3, RespondGoesOn DEF e
  <1>25. CASE CompletionHandlerFails
    <2>1. PICK a \in AnswerIds, place \in DOMAIN db.turns, through \in 0..MaxChunks :
              /\ Completing(a, place, through)
              /\ AnswersAfter(a) >= MaxQuestions
              /\ Close(Completed(a, place, through, "pending"))
      BY <1>25 DEF CompletionHandlerFails
    <2> DEFINE e == Completed(a, place, through, "pending")
    <2>2. ("strategy" \notin Faults => Steady(e)) /\ e.sequence = db.sequence + 2
      BY <1>23, <2>1
    <2> HIDE DEF e
    <2>3. e \in Rows
      BY <1>2, <2>1 DEF Close, IInv, TypeOK, e
    <2> QED
      BY <1>1, <2>1, <2>2, <2>3, CloseGoesOn DEF e
  <1> QED
    BY <1>6, <1>7, <1>8, <1>9, <1>10, <1>11, <1>12, <1>13, <1>14, <1>15, <1>16, <1>17, <1>18,
       <1>19, <1>20, <1>21, <1>22, <1>24, <1>25
    DEF Next

\* Every reachable state is in step, and has what the applicant was told.
LEMMA KeptAlways == Spec => [](IInv /\ Paced /\ Reminded)
  <1>1. Init => Paced /\ Reminded
    BY NewIsSteady DEF Init, Paced, Reminded, NewSession
  <1>2. IInv /\ Paced /\ Reminded /\ [Next]_vars => Paced' /\ Reminded'
    BY NextGoesOn
  <1> QED
    BY <1>1, <1>2, Inductive, PTL DEF Spec

\* As long as the strategy can be read, a question is asked only when every one
\* before it has its final answer, in the strategy's order.
THEOREM PaceIsKept == Spec => []QuestionsKeepPace
  <1>1. Paced => QuestionsKeepPace
    BY DEF Paced, Steady, QuestionsKeepPace
  <1> QED
    BY <1>1, KeptAlways, PTL

\* As long as the strategy can be read, the latest checkpoint is that of the
\* current sequence and names the question that waits for an answer, however
\* often the session was paused and resumed.
THEOREM ResumePointIsCurrent == Spec => []ResumePointCurrent
  <1>1. Paced => ResumePointCurrent
    BY DEF Paced, Steady, ResumePointCurrent
  <1> QED
    BY <1>1, KeptAlways, PTL

\* Unless the process dies, no connection finds the session behind a sequence the
\* applicant was told.
THEOREM ToldIsKept == Spec => []NothingToldIsLost
  <1>1. Reminded => NothingToldIsLost
    BY DEF Reminded, NothingToldIsLost
  <1> QED
    BY <1>1, KeptAlways, PTL

-----------------------------------------------------------------------------
(* What the page has the stream handler do *)

\* The steps of InterviewStream that a page can bring about: it sends no audio, and in
\* InterviewRoom the strategy can be read and no process dies.
ClientStep ==
    \/ Connect \/ Disconnect \/ CreateRecordingUploadIntent \/ StoreChunk
    \/ Start \/ Restate \/ Resume \/ SubmitText
    \/ CompleteVerifyFails \/ CompleteMissingTranscript
    \/ CompleteNextQuestion \/ CompleteInterview \/ CompletionHandlerFails

\* What then holds of the session's rows, whatever Faults are.
Regular == IInv /\ Steady(db) /\ Steady(saved) /\ Reminded

\* These steps keep it, and the rows only grow.
LEMMA ClientStepKeeps ==
    ASSUME Regular, [ClientStep]_vars
    PROVE  Regular' /\ Extends(db, db')
  <1>1. /\ IInv /\ Steady(db) /\ Steady(saved) /\ Reminded /\ Base(db, stored) /\ db \in Rows
        /\ db.sequence \in Nat
    BY DEF Regular, IInv, Sound, Base, Rows
  <1>2. [Next]_vars
    BY DEF ClientStep, Next
  <1>3. IInv' /\ Reminded'
    BY <1>1, <1>2, NextKeeps, NextGoesOn DEF Paced
  <1>4. SUFFICES Steady(db') /\ Steady(saved') /\ Extends(db, db')
    BY <1>3 DEF Regular
  <1>5. \A e, n : Respond(e, n) \/ Close(e) =>
            (Steady(e) /\ Extends(db, e) => Steady(db') /\ Steady(saved') /\ Extends(db, db'))
    <2> SUFFICES ASSUME NEW e, NEW n, Respond(e, n) \/ Close(e), Steady(e), Extends(db, e)
                 PROVE  Steady(db') /\ Steady(saved') /\ Extends(db, db')
      OBVIOUS
    <2>1. db' = e /\ saved' \in {saved, e}
      BY DEF Respond, Close
    <2> QED
      BY <1>1, <2>1
  <1>6. Extends(db, db)
    BY <1>1, ExtendsReflexive
  <1>7. \A through \in 0..MaxChunks : Verifiable(through) =>
            /\ Base(Verified(db, through), stored)
            /\ Extends(db, Verified(db, through))
            /\ db.state = "awaiting_answer" =>
                  Steady(Verified(db, through)) /\ InHand(Verified(db, through))
    <2>1. \A through \in 0..MaxChunks : Verifiable(through) =>
            /\ Base(Verified(db, through), stored)
            /\ Extends(db, Verified(db, through))
            /\ SameStanding(db, Verified(db, through))
      BY <1>1, VerifiedKeeps DEF Verifiable
    <2>2. \A through \in 0..MaxChunks : db.state = "awaiting_answer" => Steady(Verified(db, through))
      BY <1>1, VerifiedIsSteady DEF InHand
    <2> QED
      BY <2>1, <2>2 DEF SameStanding, InHand
  <1>8. CASE UNCHANGED vars
    BY <1>1, <1>6, <1>8 DEF vars
  <1>9. CASE Connect \/ CreateRecordingUploadIntent \/ StoreChunk
    <2>1. db' = db /\ saved' = saved
      BY <1>9 DEF Connect, CreateRecordingUploadIntent, StoreChunk
    <2> QED
      BY <1>1, <1>6, <2>1
  <1>10. CASE Disconnect
    BY <1>1, <1>5, <1>6, <1>10 DEF Disconnect
  <1>11. CASE Start
    <2> DEFINE e == Asked(Started, 1, 0, 0)
    <2>1. Startable /\ Respond(e, Started.sequence)
      BY <1>11 DEF Start
    <2>2. Steady(e)
      BY <1>1, <2>1, StartedIsSteady
    <2>3. Base(Started, stored) /\ Extends(db, Started) /\ Unmarked(Started)
      BY <1>1, PassedKeeps DEF Started
    <2>4. Base(e, stored) /\ Extends(Started, e)
      BY <2>3, AskedKeeps
    <2>5. Extends(db, e)
      BY <1>1, <2>3, <2>4, ExtendsTransitive DEF Base
    <2> HIDE DEF e
    <2> QED
      BY <1>5, <2>1, <2>2, <2>5
  <1>12. CASE Restate
    BY <1>1, <1>5, <1>6, <1>12 DEF Restate
  <1>13. CASE Resume
    <2>1. Steady(Resumed(db)) /\ Extends(db, Resumed(db))
      BY <1>1, ResumedIsSteady, ResumedKeeps
    <2> QED
      BY <1>5, <1>13, <2>1 DEF Resume
  <1>14. CASE SubmitText
    <2>1. PICK a \in AnswerIds, f \in Fragments : Respond(Written(db, a, <<f>>), heard)
      BY <1>14 DEF SubmitText
    <2>2. <<f>> \in Seq(Fragments) /\ Awaiting
      BY <1>14 DEF SubmitText
    <2>3. Steady(Written(db, a, <<f>>)) /\ Extends(db, Written(db, a, <<f>>))
      BY <1>1, <2>2, WrittenIsSteady, WrittenKeeps
    <2> QED
      BY <1>5, <2>1, <2>3
  <1>15. CASE CompleteVerifyFails
    <2>1. PICK upto \in 0..MaxChunks : Verifiable(upto) /\ Close(Verified(db, upto))
      BY <1>15 DEF CompleteVerifyFails
    <2>2. db.state = "awaiting_answer"
      BY <1>15 DEF CompleteVerifyFails, Awaiting
    <2> QED
      BY <1>5, <1>7, <2>1, <2>2
  <1>16. CASE CompleteMissingTranscript
    <2>1. PICK through \in 0..MaxChunks :
                  /\ Verifiable(through)
                  /\ Respond(Paused(Verified(db, through)),
                             Paused(Verified(db, through)).sequence)
      BY <1>16 DEF CompleteMissingTranscript
    <2>2. db.state = "awaiting_answer"
      BY <1>16 DEF CompleteMissingTranscript, Awaiting
    <2> DEFINE d == Verified(db, through)
    <2>3. Base(d, stored) /\ Extends(db, d) /\ Steady(d) /\ InHand(d)
      BY <1>7, <2>1, <2>2
    <2> HIDE DEF d
    <2>4. Base(Paused(d), stored) /\ Extends(d, Paused(d)) /\ Steady(Paused(d))
      BY <2>3, PausedKeeps, PausedIsSteady
    <2>5. Extends(db, Paused(d))
      BY <1>1, <2>3, <2>4, ExtendsTransitive DEF Base
    <2> QED
      BY <1>5, <2>1, <2>4, <2>5 DEF d
  <1>17. CASE CompleteNextQuestion
    <2>1. PICK a \in AnswerIds, place \in DOMAIN db.turns, through \in 0..MaxChunks :
              /\ Completing(a, place, through)
              /\ AnswersAfter(a) < MaxQuestions
              /\ Respond(Asked(Answered(a, through), AnswersAfter(a) + 1, place, through),
                         db.sequence + 2)
      BY <1>17 DEF CompleteNextQuestion
    <2> DEFINE d == Answered(a, through)
               e == Asked(d, AnswersAfter(a) + 1, place, through)
    <2>2. /\ place \in Recording(db, a) /\ db.state = "awaiting_answer"
          /\ 1..through \subseteq db.verified \cup stored
          /\ AnswersAfter(a) \in Nat
      BY <1>1, <2>1, CompletingCounts
    <2>3. /\ Base(d, stored) /\ Extends(db, d) /\ Unmarked(d)
          /\ through \in d.verified \cup {0} /\ place \in Finals(d)
      BY <1>1, <2>1, <2>2, AnsweredKeeps DEF Answered
    <2>4. Steady(e)
      BY <1>1, <2>1, NextIsSteady
    <2> HIDE DEF d
    <2>5. Base(e, stored) /\ Extends(d, e)
      BY <2>2, <2>3, AskedKeeps
    <2>6. Extends(db, e)
      BY <1>1, <2>3, <2>5, ExtendsTransitive DEF Base
    <2> HIDE DEF e
    <2> QED
      BY <1>5, <2>1, <2>4, <2>6 DEF d, e
  <1>18. ASSUME NEW a \in AnswerIds, NEW place \in DOMAIN db.turns, NEW through \in 0..MaxChunks,
                NEW event \in {"pending", "published"},
                Completing(a, place, through), AnswersAfter(a) >= MaxQuestions
         PROVE  /\ Steady(Completed(a, place, through, event))
                /\ Extends(db, Completed(a, place, through, event))
    <2> DEFINE d == Passed(Finalized(Verified(db, through), a), "completed", 2)
               c == Checkpointed(d, 0, place, through)
               e == [c EXCEPT !.event = event]
    <2>1. /\ place \in Recording(db, a) /\ db.state = "awaiting_answer"
          /\ 1..through \subseteq db.verified \cup stored
          /\ Cardinality(Finals(Finalized(db, a))) = MaxQuestions
      BY <1>1, <1>18, CompletingCounts, MaxQuestionsAssumption
    <2>2. /\ Base(d, stored) /\ Extends(db, d) /\ Unmarked(d)
          /\ through \in d.verified \cup {0} /\ place \in Finals(d)
      BY <1>1, <2>1, AnsweredKeeps
    <2>3. Completed(a, place, through, event) = e
      BY DEF Completed
    <2>4. Steady(e)
      BY <1>1, <2>1, CompletedIsSteady DEF InHand
    <2> HIDE DEF d
    <2>5. Base(c, stored) /\ Extends(d, c)
      BY <2>2, CheckpointedKeeps
    <2> HIDE DEF c
    <2>6. Extends(db, c)
      BY <1>1, <2>2, <2>5, ExtendsTransitive DEF Base
    <2>7. /\ e.turns = c.turns /\ e.sequence = c.sequence
          /\ e.checkpoints = c.checkpoints /\ e.verified = c.verified
      BY <2>5 DEF Base, Rows
    <2>8. Extends(db, e)
      <3> HIDE DEF e
      <3> QED
        BY <2>6, <2>7 DEF Extends
    <2> QED
      BY <2>3, <2>4, <2>8
  <1>19. CASE CompleteInterview
    <2>1. PICK a \in AnswerIds, place \in DOMAIN db.turns, through \in 0..MaxChunks :
              /\ Completing(a, place, through)
              /\ AnswersAfter(a) >= MaxQuestions
              /\ Respond(Completed(a, place, through, "published"), db.sequence + 2)
      BY <1>19 DEF CompleteInterview
    <2> QED
      BY <1>5, <1>18, <2>1
  <1>20. CASE CompletionHandlerFails
    <2>1. PICK a \in AnswerIds, place \in DOMAIN db.turns, through \in 0..MaxChunks :
              /\ Completing(a, place, through)
              /\ AnswersAfter(a) >= MaxQuestions
              /\ Close(Completed(a, place, through, "pending"))
      BY <1>20 DEF CompletionHandlerFails
    <2> QED
      BY <1>5, <1>18, <2>1
  <1> QED
    BY <1>8, <1>9, <1>10, <1>11, <1>12, <1>13, <1>14, <1>15, <1>16, <1>17, <1>19, <1>20
    DEF ClientStep
-----------------------------------------------------------------------------
(* The page as a client.  d stands for the session's rows. *)

PlaceIn(d) == Questions(d) \cup {0}

\* What the page may send when it heard the sequence h, and what it may be sent.
MessagesTo(d, h) ==
    {m \in [type : {"start", "resume", "submit", "complete", "repeat"}, sequence : 0..h,
            answer : AnswerIds \cup {0}, text : 0..MaxQuestions, place : PlaceIn(d),
            media : 0..MaxChunks] :
        /\ m.type \in {"submit", "complete"} => m.answer # 0 /\ Questions(d) # {}
        /\ m.type = "submit" => m.text # 0
        /\ m.type = "repeat" => m.place # 0}

ReplyTypes ==
    {"question.ready", "question.preparing", "session.state_changed", "resume.snapshot",
     "session.paused", "session.completed", "transcript.final", "close"}

RepliesFrom(d, h) ==
    {m \in [type : ReplyTypes, sequence : 0..h,
            state : {"preparing", "awaiting_answer", "paused", "completed"},
            place : PlaceIn(d), question : 0..MaxQuestions, media : 0..MaxChunks] :
        m.type = "question.ready" => m.place # 0 /\ m.question = d.turns[m.place].number}

Pages(d) ==
    {r \in [known : BOOLEAN, phase : {"paused", "answering", "processing", "completed"},
            question : 0..MaxQuestions, place : PlaceIn(d), id : AnswerIds \cup {0},
            draft : 0..MaxQuestions, last : 0..d.sequence, media : 0..MaxChunks,
            snapshot : [state : {"none", "preparing", "awaiting_answer", "paused", "completed"},
                        sequence : 0..d.sequence, media : 0..MaxChunks, place : PlaceIn(d)]] :
        /\ r.id # 0 => r.question # 0 /\ Questions(d) # {}
        /\ r.draft \in {0, r.question}}

Sockets(d) ==
    [state : {"connecting", "open", "closed"}, sequence : 0..d.sequence, unsent : Seq(MessagesTo(d, 0))]

Client ==
    /\ room \in Pages(db)
    /\ socket \in Sockets(db)
    /\ toServer \in Seq(MessagesTo(db, heard))
    /\ toRoom \in Seq(RepliesFrom(db, db.sequence))
    /\ replaced \in Nat
    /\ conn = "closed" => toServer = <<>>
    /\ socket.state = "open" /\ conn = "open" =>
          socket.sequence <= heard /\ toRoom \in Seq(RepliesFrom(db, heard))
    /\ socket.state = "connecting" => socket.sequence = 0 /\ toRoom = <<>>
    /\ ~room.known =>
          /\ socket.state = "closed" /\ conn = "closed" /\ toRoom = <<>> /\ ~Starting
          /\ db.state = "preparing"

RoomIInv == Regular /\ Client

-----------------------------------------------------------------------------
(* Messages, replies and pages when the rows grow *)

\* Sequences over a set are sequences over a larger one.
LEMMA SequencesGrow ==
    ASSUME NEW S, NEW T, S \subseteq T
    PROVE  Seq(S) \subseteq Seq(T)
  OBVIOUS

\* Questions that were asked stay where they are.
LEMMA QuestionsGrow ==
    ASSUME NEW d, NEW e, Extends(d, e)
    PROVE  /\ PlaceIn(d) \subseteq PlaceIn(e) /\ Questions(d) \subseteq Questions(e)
           /\ \A i \in Questions(d) : e.turns[i] = d.turns[i]
  BY ExtendsKeepsPlaces DEF Extends, PlaceIn

\* What the page may send, it may send when there is more in the rows.
LEMMA MessagesGrow ==
    ASSUME NEW d, NEW e, Extends(d, e), NEW h \in Nat, NEW k \in Nat, h <= k
    PROVE  Seq(MessagesTo(d, h)) \subseteq Seq(MessagesTo(e, k))
  <1>1. PlaceIn(d) \subseteq PlaceIn(e) /\ Questions(d) \subseteq Questions(e)
    BY QuestionsGrow
  <1>2. 0..h \subseteq 0..k
    OBVIOUS
  <1>3. MessagesTo(d, h) \subseteq MessagesTo(e, k)
    BY <1>1, <1>2 DEF MessagesTo
  <1> QED
    BY <1>3, SequencesGrow

\* What the page may be sent, it may be sent when there is more in the rows.
LEMMA RepliesGrow ==
    ASSUME NEW d, NEW e, Extends(d, e), NEW h \in Nat, NEW k \in Nat, h <= k
    PROVE  Seq(RepliesFrom(d, h)) \subseteq Seq(RepliesFrom(e, k))
  <1>1. /\ PlaceIn(d) \subseteq PlaceIn(e)
        /\ \A i \in PlaceIn(d) : i # 0 => e.turns[i] = d.turns[i]
    BY QuestionsGrow DEF PlaceIn
  <1>2. 0..h \subseteq 0..k
    OBVIOUS
  <1>3. RepliesFrom(d, h) \subseteq RepliesFrom(e, k)
    BY <1>1, <1>2 DEF RepliesFrom
  <1> QED
    BY <1>3, SequencesGrow

\* A page, and its socket, stay one when there is more in the rows.
LEMMA PagesGrow ==
    ASSUME NEW d, NEW e, Extends(d, e), d.sequence \in Nat, e.sequence \in Nat
    PROVE  Pages(d) \subseteq Pages(e) /\ Sockets(d) \subseteq Sockets(e)
  <1>1. PlaceIn(d) \subseteq PlaceIn(e) /\ Questions(d) \subseteq Questions(e)
    BY QuestionsGrow
  <1>2. 0..d.sequence \subseteq 0..e.sequence
    BY DEF Extends
  <1>3. Seq(MessagesTo(d, 0)) \subseteq Seq(MessagesTo(e, 0))
    BY MessagesGrow
  <1>4. Pages(d) \subseteq Pages(e)
    BY <1>1, <1>2 DEF Pages
  <1>5. Sockets(d) \subseteq Sockets(e)
    BY <1>2, <1>3 DEF Sockets
  <1> QED
    BY <1>4, <1>5

\* The numbers of the questions are those the handler may ask.
LEMMA QuestionNumbers ==
    ASSUME NEW d, NEW chunks, Sound(d, chunks), Steady(d)
    PROVE  /\ \A i \in Questions(d) : d.turns[i].number \in 1..MaxQuestions
           /\ Questions(d) = {} <=> d.state = "preparing"
           /\ d.state # "preparing" => LastQuestion(d) \in Questions(d)
           /\ 0 \notin Questions(d)
  <1>1. d \in Rows /\ CompletionIn(d) /\ PaceIn(d)
    BY DEF Sound, Base, Steady
  <1>2. /\ IsFiniteSet(Questions(d)) /\ Cardinality(Questions(d)) \in Nat
        /\ Questions(d) \subseteq 1..Len(d.turns) /\ Len(d.turns) \in Nat
    BY <1>1, QuestionsAreFinite
  <1>3. Cardinality(Finals(d)) \in Nat
    BY <1>1, FinalsAreFinite
  <1>4. d.state \in {"preparing", "awaiting_answer", "paused", "completed"}
    BY <1>1 DEF Rows
  <1>5. d.state # "preparing" => Cardinality(Questions(d)) \in 1..MaxQuestions
    BY <1>1, <1>2, <1>3, <1>4, MaxQuestionsAssumption DEF PaceIn, CompletionIn
  <1>6. d.state = "preparing" => Questions(d) = {}
    <2>1. d.state = "preparing" => d.turns = <<>>
      BY <1>1 DEF PaceIn
    <2> QED
      BY <2>1 DEF Questions
  <1>7. d.state # "preparing" => Questions(d) # {}
    BY <1>5, FS_EmptySet
  <1>8. 0 \notin Questions(d)
    BY <1>2
  <1>9. ASSUME NEW i \in Questions(d)
        PROVE  d.turns[i].number \in 1..MaxQuestions
    <2> DEFINE S == {j \in Questions(d) : j <= i}
    <2>1. S \subseteq Questions(d) /\ i \in S
      BY <1>2
    <2>2. IsFiniteSet(S) /\ Cardinality(S) \in Nat /\ Cardinality(S) <= Cardinality(Questions(d))
      <3> HIDE DEF S
      <3> QED
        BY <1>2, <2>1, FS_Subset, FS_CardinalityType
    <2>3. Cardinality(S) # 0
      <3> HIDE DEF S
      <3> QED
        BY <2>1, <2>2, FS_EmptySet
    <2>4. d.turns[i].number = Cardinality(S)
      BY <1>1 DEF PaceIn
    <2> QED
      BY <1>2, <1>5, <1>6, <2>2, <2>3, <2>4, MaxQuestionsAssumption
  <1>10. d.state # "preparing" => LastQuestion(d) \in Questions(d)
    <2> SUFFICES ASSUME d.state # "preparing" PROVE LastQuestion(d) \in Questions(d)
      OBVIOUS
    <2> DEFINE S == Questions(d) \cup {0}
    <2>1. S \subseteq Nat /\ S # {} /\ \A x \in S : x <= Len(d.turns)
      BY <1>2
    <2>2. Max(S) \in S /\ \A y \in S : y <= Max(S)
      <3> HIDE DEF S
      <3> QED
        BY <1>2, <2>1, MaxOfBounded
    <2>3. PICK q \in Questions(d) : TRUE
      BY <1>7
    <2>4. q \in Nat \ {0} /\ q \in S
      BY <1>2
    <2>5. Max(S) # 0
      <3> HIDE DEF S
      <3> QED
        BY <2>1, <2>2, <2>4
    <2> QED
      BY <2>2, <2>5 DEF LastQuestion
  <1> QED
    BY <1>6, <1>7, <1>8, <1>9, <1>10

\* The last verified chunk is one that was recorded, or none.
LEMMA LastVerifiedIsAChunk ==
    ASSUME NEW d, d \in Rows
    PROVE  LastVerified(d) \in 0..MaxChunks
  <1>1. LastVerified(d) \in d.verified \cup {0} /\ d.verified \subseteq 1..MaxChunks
    BY LastVerifiedIsOne DEF Rows
  <1> QED
    BY <1>1, BoundsAssumption

\* A reply made from rows is one that may be sent for them.
LEMMA FromServerIsAReply ==
    ASSUME NEW d, NEW chunks, Sound(d, chunks), Steady(d),
           NEW type \in ReplyTypes, NEW place \in PlaceIn(d), type = "question.ready" => place # 0
    PROVE  FromServer(type, d, place) \in RepliesFrom(d, d.sequence)
  <1>1. d \in Rows /\ d.sequence \in 0..d.sequence
    BY DEF Sound, Base, Rows
  <1>2. d.state \in {"preparing", "awaiting_answer", "paused", "completed"}
    BY <1>1 DEF Rows
  <1>3. LastVerified(d) \in 0..MaxChunks
    BY <1>1, LastVerifiedIsAChunk
  <1>4. place # 0 => d.turns[place].number \in 1..MaxQuestions
    BY QuestionNumbers DEF PlaceIn
  <1> DEFINE number == IF place = 0 THEN 0 ELSE d.turns[place].number
  <1>5. number \in 0..MaxQuestions /\ (place # 0 => number = d.turns[place].number)
    BY <1>4, MaxQuestionsAssumption
  <1> HIDE DEF number
  <1>6. FromServer(type, d, place) =
           [type |-> type, sequence |-> d.sequence, state |-> d.state, place |-> place,
            question |-> number, media |-> LastVerified(d)]
    BY DEF FromServer, number
  <1> QED
    BY <1>1, <1>2, <1>3, <1>5, <1>6 DEF RepliesFrom

\* createUuid7 never runs out of ids: the one it gives is used by nobody.
LEMMA NewIdIsNew ==
    ASSUME ~IsFiniteSet(AnswerIds), db \in Rows, saved \in Rows,
           NEW S, toServer \in Seq(S), NEW T, socket.unsent \in Seq(T)
    PROVE  /\ NewId \in AnswerIds
           /\ Places(db, NewId) = {}
           /\ NewId \notin Answers(toServer) \cup Answers(socket.unsent)
  <1> DEFINE f(turns) == [i \in DOMAIN turns |-> turns[i].answer]
             used(turns) == {f(turns)[i] : i \in DOMAIN turns}
             free == {a \in AnswerIds :
                        /\ Places(db, a) \cup Places(saved, a) = {}
                        /\ a \notin Answers(toServer) \cup Answers(socket.unsent)}
             all == (used(db.turns) \cup used(saved.turns))
                      \cup (used(toServer) \cup used(socket.unsent))
  <1>1. ASSUME NEW R, NEW s \in Seq(R)
        PROVE  IsFiniteSet(used(s))
    <2>1. DOMAIN s = 1..Len(s) /\ Len(s) \in Nat
      OBVIOUS
    <2>2. IsFiniteSet(DOMAIN s)
      BY <2>1, FS_Interval
    <2>3. f(s) \in Surjection(DOMAIN s, used(s))
      BY DEF Surjection
    <2> HIDE DEF f, used
    <2> QED
      BY <2>2, <2>3, FS_Surjection
  <1>2. db.turns \in Seq(Turn) /\ saved.turns \in Seq(Turn)
    BY DEF Rows
  <1>3. IsFiniteSet(all)
    <2>1. IsFiniteSet(used(db.turns)) /\ IsFiniteSet(used(saved.turns))
          /\ IsFiniteSet(used(toServer)) /\ IsFiniteSet(used(socket.unsent))
      BY <1>1, <1>2
    <2> HIDE DEF used
    <2> QED
      BY <2>1, FS_Union
  <1>4. PICK a \in AnswerIds : a \notin all
    <2> HIDE DEF all
    <2>1. ~(AnswerIds \subseteq all)
      BY <1>3, FS_Subset
    <2> QED
      BY <2>1
  <1>5. a \in free
    <2>1. Places(db, a) = {} /\ Places(saved, a) = {}
      BY <1>4 DEF Places
    <2>2. a \notin Answers(toServer) /\ a \notin Answers(socket.unsent)
      BY <1>4 DEF Answers
    <2> QED
      BY <2>1, <2>2
  <1>6. free \subseteq Nat
    BY NumbersAssumption
  <1>7. PICK m \in free : \A x \in free : ~(<<x, m>> \in OpToRel(<, Nat))
    <2> HIDE DEF free
    <2> QED
      BY <1>5, <1>6, NatLessThanWellFounded, WFMin
  <1>8. \A x \in free : m <= x
    <2> SUFFICES ASSUME NEW x \in free PROVE m <= x
      OBVIOUS
    <2> HIDE DEF free
    <2>1. m \in Nat /\ x \in Nat
      BY <1>6
    <2>2. ~(x < m)
      BY <1>7, <2>1 DEF OpToRel
    <2> QED
      BY <2>1, <2>2
  <1>9. Min(free) \in free
    <2> HIDE DEF free
    <2> QED
      BY <1>8 DEF Min
  <1>10. NewId = Min(free)
    BY DEF NewId
  <1> QED
    <2> HIDE DEF NewId
    <2> QED
      BY <1>9, <1>10

-----------------------------------------------------------------------------
(* The page stays a client *)

\* What the invariant says of the types.
LEMMA ClientTypes ==
    ASSUME RoomIInv
    PROVE  /\ Regular /\ Client
           /\ db \in Rows /\ saved \in Rows /\ Sound(db, stored) /\ Sound(saved, stored)
           /\ Steady(db) /\ Steady(saved)
           /\ db.sequence \in Nat /\ saved.sequence \in Nat /\ heard \in Nat
           /\ heard <= db.sequence /\ saved.sequence <= db.sequence
           /\ conn \in {"open", "closed"}
           /\ Extends(db, db) /\ Extends(saved, db)
           /\ stored \subseteq 1..MaxChunks
  <1>1. /\ Regular /\ Client
        /\ db \in Rows /\ saved \in Rows /\ Sound(db, stored) /\ Sound(saved, stored)
        /\ Steady(db) /\ Steady(saved)
        /\ db.sequence \in Nat /\ saved.sequence \in Nat /\ heard \in Nat
        /\ heard <= db.sequence /\ conn \in {"open", "closed"}
        /\ Continues(saved, db)
        /\ issued \in 0..MaxChunks /\ stored \subseteq 1..issued
    BY DEF RoomIInv, Regular, IInv, TypeOK, Rows, Reminded
  <1>2. Extends(saved, db) /\ saved.sequence <= db.sequence
    BY <1>1 DEF Continues, Extends
  <1>3. stored \subseteq 1..MaxChunks
    BY <1>1, BoundsAssumption
  <1> QED
    BY <1>1, <1>2, <1>3, ExtendsReflexive

\* What is written to the socket waits for it, reaches the server or is lost.
LEMMA SendKeeps ==
    ASSUME RoomIInv, NEW messages \in Seq(MessagesTo(db, socket.sequence)), Send(messages)
    PROVE  /\ socket' \in Sockets(db) /\ socket'.state = socket.state
           /\ socket'.sequence = socket.sequence
           /\ toServer' \in Seq(MessagesTo(db, heard)) /\ toRoom' = toRoom
           /\ conn = "closed" => toServer' = toServer
  <1>1. /\ socket \in Sockets(db) /\ toServer \in Seq(MessagesTo(db, heard))
        /\ heard \in Nat /\ db.sequence \in Nat /\ Extends(db, db)
        /\ socket.state = "open" /\ conn = "open" => socket.sequence <= heard
        /\ socket.state = "connecting" => socket.sequence = 0
    BY ClientTypes DEF Client
  <1>2. socket.sequence \in Nat /\ socket.unsent \in Seq(MessagesTo(db, 0))
    BY <1>1 DEF Sockets
  <1>3. CASE socket.state = "open" /\ conn = "open"
    <2>1. toServer' = toServer \o messages /\ UNCHANGED <<socket, toRoom>>
      BY <1>3 DEF Send
    <2>2. messages \in Seq(MessagesTo(db, heard))
      BY <1>1, <1>2, <1>3, MessagesGrow
    <2>3. toServer \o messages \in Seq(MessagesTo(db, heard))
      BY <1>1, <2>2, ConcatProperties
    <2> QED
      BY <1>1, <1>3, <2>1, <2>3
  <1>4. CASE socket.state = "connecting"
    <2>1. socket' = [socket EXCEPT !.unsent = @ \o messages] /\ UNCHANGED <<toServer, toRoom>>
      BY <1>4 DEF Send, wire
    <2>2. messages \in Seq(MessagesTo(db, 0))
      BY <1>1, <1>4
    <2>3. socket.unsent \o messages \in Seq(MessagesTo(db, 0))
      BY <1>2, <2>2, ConcatProperties
    <2> QED
      BY <1>1, <2>1, <2>3 DEF Sockets
  <1>5. CASE ~(socket.state = "open" /\ conn = "open") /\ socket.state # "connecting"
    <2>1. UNCHANGED <<socket, toServer, toRoom>>
      BY <1>5 DEF Send, wire
    <2> QED
      BY <1>1, <2>1
  <1> QED
    BY <1>3, <1>4, <1>5

\* The first message of a connection is one the page may send.
LEMMA FirstIsAMessage ==
    ASSUME NEW d, NEW type \in {"start", "resume"}
    PROVE  <<First(type)>> \in Seq(MessagesTo(d, 0))
  <1>1. First(type) \in MessagesTo(d, 0)
    BY MaxQuestionsAssumption, BoundsAssumption DEF First, MessagesTo, PlaceIn
  <1> QED
    BY <1>1

\* A page that lost its connection is a page.
LEMMA DisconnectedIsAPage ==
    ASSUME NEW d, NEW r \in Pages(d)
    PROVE  Disconnected(r) \in Pages(d) /\ Disconnected(r).known = r.known
  BY DEF Disconnected, Pages

\* A closed socket is a socket.
LEMMA ClosedIsASocket ==
    ASSUME NEW d, socket \in Sockets(d)
    PROVE  Closed \in Sockets(d) /\ Closed.state = "closed"
  <1>1. <<>> \in Seq(MessagesTo(d, 0))
    OBVIOUS
  <1> QED
    BY <1>1 DEF Closed, Sockets

\* A page that was just loaded is a page.
LEMMA NewPageIsAPage ==
    ASSUME NEW d, d.sequence \in Nat, NEW known \in BOOLEAN
    PROVE  NewPage(known) \in Pages(d) /\ NewPage(known).known = known
  BY MaxQuestionsAssumption, BoundsAssumption DEF NewPage, NoSnapshot, Pages, PlaceIn

\* The buttons that start and resume.
LEMMA StartingKeeps ==
    ASSUME RoomIInv, StartSession \/ AskSnapshot \/ ApplySnapshot
    PROVE  Client' /\ UNCHANGED vars
  <1>1. /\ room \in Pages(db) /\ socket \in Sockets(db)
        /\ db \in Rows /\ saved \in Rows /\ db.sequence \in Nat /\ saved.sequence \in Nat
        /\ saved.sequence <= db.sequence
        /\ Client /\ Extends(saved, db) /\ replaced \in Nat
    BY ClientTypes DEF Client
  <1>2. 0 \in 0..db.sequence
    BY <1>1
  <1>3. ASSUME NEW type \in {"start", "resume"}
        PROVE  /\ Opening(<<First(type)>>) \in Sockets(db)
               /\ Opening(<<First(type)>>).state = "connecting"
               /\ Opening(<<First(type)>>).sequence = 0
    BY <1>2, FirstIsAMessage DEF Opening, Sockets
  <1>4. CASE StartSession
    <2>1. /\ ~room.known /\ UNCHANGED <<db, saved, conn, heard, replaced, toServer, toRoom>>
          /\ room' = [room EXCEPT !.known = TRUE]
          /\ socket' = Opening(<<First("start")>>)
          /\ UNCHANGED vars
      BY <1>4 DEF StartSession, wire, vars
    <2>2. room' \in Pages(db) /\ room'.known
      BY <1>1, <2>1 DEF Pages
    <2>3. socket' \in Sockets(db) /\ socket'.state = "connecting" /\ socket'.sequence = 0
      BY <1>3, <2>1
    <2>4. toRoom = <<>>
      BY <1>1, <2>1 DEF Client
    <2> QED
      BY <1>1, <2>1, <2>2, <2>3, <2>4 DEF Client, Starting
  <1>5. CASE AskSnapshot
    <2> DEFINE snap == [state |-> saved.state, sequence |-> saved.sequence,
                        media |-> LastVerified(saved), place |-> Latest(saved).pending]
    <2>1. /\ room.known /\ UNCHANGED <<db, saved, conn, heard, socket, replaced, toServer, toRoom>>
          /\ room' = [room EXCEPT !.snapshot = snap]
          /\ UNCHANGED vars
      BY <1>5 DEF AskSnapshot, wire, vars
    <2>2. Latest(saved).pending \in PlaceIn(db)
      BY ClientTypes, LatestNames, QuestionsGrow DEF Sound, PlaceIn
    <2>3. snap \in [state : {"none", "preparing", "awaiting_answer", "paused", "completed"},
                    sequence : 0..db.sequence, media : 0..MaxChunks, place : PlaceIn(db)]
      BY <1>1, <2>2, LastVerifiedIsAChunk DEF Rows
    <2> HIDE DEF snap
    <2>4. room' \in Pages(db) /\ room'.known
      BY <1>1, <2>1, <2>3 DEF Pages
    <2> QED
      BY <1>1, <2>1, <2>4 DEF Client
  <1>6. CASE ApplySnapshot
    <2>1. /\ Starting /\ UNCHANGED <<db, saved, conn, heard, toServer>>
          /\ room' = [room EXCEPT !.last = room.snapshot.sequence, !.media = room.snapshot.media,
                                  !.phase = PhaseOf(room.snapshot.state), !.snapshot = NoSnapshot,
                                  !.place = IF room.snapshot.place = 0 THEN @
                                            ELSE room.snapshot.place]
          /\ socket' = Opening(<<First("resume")>>)
          /\ replaced' \in {replaced, replaced + 1}
          /\ toRoom' = <<>>
          /\ UNCHANGED vars
      BY <1>6 DEF ApplySnapshot, vars
    <2>2. PhaseOf(room.snapshot.state) \in {"paused", "answering", "processing", "completed"}
      BY DEF PhaseOf
    <2>3. NoSnapshot \in [state : {"none", "preparing", "awaiting_answer", "paused", "completed"},
                          sequence : 0..db.sequence, media : 0..MaxChunks, place : PlaceIn(db)]
      BY <1>2, BoundsAssumption DEF NoSnapshot, PlaceIn
    <2>4. room' \in Pages(db) /\ room'.known = room.known
      BY <1>1, <2>1, <2>2, <2>3 DEF Pages
    <2>5. room.known
      BY <1>1, <2>1 DEF Client
    <2>6. <<>> \in Seq(RepliesFrom(db, db.sequence))
      OBVIOUS
    <2>7. socket' \in Sockets(db) /\ socket'.state = "connecting" /\ socket'.sequence = 0
      BY <1>3, <2>1
    <2> QED
      BY <1>1, <2>1, <2>4, <2>5, <2>6, <2>7 DEF Client
  <1> QED
    BY <1>4, <1>5, <1>6

\* The buttons that answer and ask for a question again, and the page that is left.
LEMMA AnsweringKeeps ==
    ASSUME RoomIInv, Write \/ CompleteAnswer \/ RepeatQuestion \/ Leave
    PROVE  Client' /\ UNCHANGED vars
  <1>1. /\ room \in Pages(db) /\ socket \in Sockets(db)
        /\ db \in Rows /\ db.sequence \in Nat /\ Client
    BY ClientTypes DEF Client
  <1>2. 0 \in PlaceIn(db) /\ socket.sequence \in 0..socket.sequence
    BY <1>1 DEF PlaceIn, Sockets
  <1>3. ASSUME NEW messages \in Seq(MessagesTo(db, socket.sequence)), Send(messages),
               UNCHANGED vars, replaced' = replaced, room' \in Pages(db), room'.known = room.known,
               room'.snapshot = room.snapshot
        PROVE  Client'
    <2>1. /\ socket' \in Sockets(db) /\ socket'.state = socket.state
          /\ socket'.sequence = socket.sequence
          /\ toServer' \in Seq(MessagesTo(db, heard)) /\ toRoom' = toRoom
          /\ conn = "closed" => toServer' = toServer
      BY <1>3, SendKeeps
    <2>2. UNCHANGED <<db, conn, heard>>
      BY <1>3 DEF vars
    <2> QED
      BY <1>1, <1>3, <2>1, <2>2 DEF Client, Starting
  <1>4. CASE Write
    <2>1. /\ UNCHANGED <<db, conn, heard, socket, replaced, toServer, toRoom>>
          /\ room' = [room EXCEPT !.draft = room.question] /\ UNCHANGED vars
      BY <1>4 DEF Write, wire, vars
    <2>2. room' \in Pages(db) /\ room'.known = room.known /\ room'.snapshot = room.snapshot
      BY <1>1, <2>1 DEF Pages
    <2> QED
      BY <1>1, <2>1, <2>2 DEF Client, Starting
  <1>5. CASE CompleteAnswer
    <2> DEFINE submit == Message("submit", room.id, room.draft, 0, 0)
               complete == Message("complete", room.id, 0, 0, room.media)
    <2>1. /\ room.id # 0 /\ room.draft # 0 /\ Send(<<submit, complete>>)
          /\ room' = [room EXCEPT !.phase = "processing"] /\ replaced' = replaced
          /\ UNCHANGED vars
      BY <1>5 DEF CompleteAnswer, CanAnswer
    <2>2. room' \in Pages(db) /\ room'.known = room.known /\ room'.snapshot = room.snapshot
      BY <1>1, <2>1 DEF Pages
    <2>3. /\ room.id \in AnswerIds /\ room.draft \in 0..MaxQuestions /\ room.media \in 0..MaxChunks
          /\ Questions(db) # {}
      BY <1>1, <2>1 DEF Pages
    <2>4. submit \in MessagesTo(db, socket.sequence) /\ complete \in MessagesTo(db, socket.sequence)
      BY <1>2, <2>1, <2>3, BoundsAssumption, MaxQuestionsAssumption DEF Message, MessagesTo
    <2>5. <<submit, complete>> \in Seq(MessagesTo(db, socket.sequence))
      <3> HIDE DEF submit, complete
      <3> QED
        BY <2>4
    <2> QED
      BY <1>3, <2>1, <2>2, <2>5
  <1>6. CASE RepeatQuestion
    <2> DEFINE repeat == Message("repeat", 0, 0, room.place, 0)
    <2>1. /\ room.place # 0 /\ Send(<<repeat>>)
          /\ UNCHANGED <<room, replaced>> /\ UNCHANGED vars
      BY <1>6 DEF RepeatQuestion
    <2>2. room.place \in PlaceIn(db)
      BY <1>1 DEF Pages
    <2>3. repeat \in MessagesTo(db, socket.sequence)
      BY <1>2, <2>1, <2>2, BoundsAssumption, MaxQuestionsAssumption DEF Message, MessagesTo
    <2>4. <<repeat>> \in Seq(MessagesTo(db, socket.sequence))
      <3> HIDE DEF repeat
      <3> QED
        BY <2>3
    <2> QED
      BY <1>1, <1>3, <2>1, <2>4
  <1>7. CASE Leave
    <2>1. /\ UNCHANGED <<db, conn, heard, room, replaced, toServer, toRoom>>
          /\ socket' = [socket EXCEPT !.state = "closed"] /\ UNCHANGED vars
      BY <1>7 DEF Leave, wire, vars
    <2>2. socket' \in Sockets(db) /\ socket'.state = "closed"
      BY <1>1, <2>1 DEF Sockets
    <2> QED
      BY <1>1, <2>1, <2>2 DEF Client, Starting
  <1> QED
    BY <1>4, <1>5, <1>6, <1>7

\* Connections that end, and the next one.
LEMMA ConnectionsKeep ==
    ASSUME RoomIInv, Drop \/ Reload \/ ReplacedCloses \/ Accept \/ EndConnection
    PROVE  Client' /\ (UNCHANGED vars \/ Connect \/ Disconnect)
  <1>1. /\ room \in Pages(db) /\ socket \in Sockets(db)
        /\ db \in Rows /\ db.sequence \in Nat /\ Client /\ heard \in Nat
        /\ replaced \in Nat
        /\ Disconnected(room) \in Pages(db) /\ Disconnected(room).known = room.known
        /\ Disconnected(room).snapshot = room.snapshot
    <2>1. /\ room \in Pages(db) /\ socket \in Sockets(db)
          /\ db \in Rows /\ db.sequence \in Nat /\ Client /\ heard \in Nat /\ replaced \in Nat
      BY ClientTypes DEF Client
    <2> QED
      BY <2>1, DisconnectedIsAPage DEF Disconnected, Pages
  <1>2. Closed \in Sockets(db) /\ Closed.state = "closed"
    BY <1>1, ClosedIsASocket
  <1>3. /\ <<>> \in Seq(RepliesFrom(db, db.sequence)) /\ <<>> \in Seq(RepliesFrom(db, 0))
        /\ <<>> \in Seq(MessagesTo(db, heard)) /\ <<>> \in Seq(MessagesTo(db, 0))
    OBVIOUS
  <1>4. CASE Drop
    <2>1. /\ UNCHANGED <<db, conn, heard, replaced, toServer>> /\ UNCHANGED vars
          /\ room' = Disconnected(room) /\ socket' = Closed /\ toRoom' = <<>>
      BY <1>4 DEF Drop, vars
    <2> QED
      BY <1>1, <1>2, <1>3, <2>1 DEF Client, Starting
  <1>5. CASE Reload
    <2>1. /\ UNCHANGED <<db, conn, heard, toServer>> /\ UNCHANGED vars
          /\ room' = NewPage(TRUE) /\ socket' = Closed /\ replaced' = 0 /\ toRoom' = <<>>
      BY <1>5 DEF Reload, vars
    <2>2. room' \in Pages(db) /\ room'.known
      BY <1>1, <2>1, NewPageIsAPage
    <2> QED
      BY <1>1, <1>2, <1>3, <2>1, <2>2 DEF Client
  <1>6. CASE ReplacedCloses
    <2>1. /\ UNCHANGED <<db, conn, heard, socket, toServer, toRoom>> /\ UNCHANGED vars
          /\ room' = Disconnected(room) /\ replaced' = replaced - 1 /\ replaced > 0
      BY <1>6 DEF ReplacedCloses, vars, wire
    <2>2. replaced' \in Nat
      BY <1>1, <2>1
    <2> QED
      BY <1>1, <2>1, <2>2 DEF Client, Starting
  <1>7. CASE Accept
    <2>1. /\ socket.state = "connecting" /\ Connect
          /\ UNCHANGED <<db, room, replaced>> /\ conn' = "open" /\ heard' = 0
          /\ toServer' = socket.unsent /\ toRoom' = <<>>
          /\ socket' = [socket EXCEPT !.state = "open", !.unsent = <<>>]
      BY <1>7 DEF Accept, Connect
    <2>2. socket.sequence = 0 /\ room.known /\ socket.unsent \in Seq(MessagesTo(db, 0))
      BY <1>1, <2>1 DEF Client, Sockets
    <2>3. socket' \in Sockets(db) /\ socket'.sequence = 0 /\ socket'.state = "open"
      BY <1>1, <1>3, <2>1, <2>2 DEF Sockets
    <2> QED
      BY <1>1, <1>3, <2>1, <2>2, <2>3 DEF Client
  <1>8. CASE EndConnection
    <2>1. /\ socket.state # "open" /\ Disconnect
          /\ UNCHANGED <<room, socket, replaced, toRoom>> /\ toServer' = <<>>
          /\ db' = db /\ conn' = "closed" /\ heard' = 0
      BY <1>8 DEF EndConnection, Disconnect, Close, page
    <2> QED
      BY <1>1, <1>3, <2>1 DEF Client, Starting
  <1> QED
    BY <1>4, <1>5, <1>6, <1>7, <1>8

\* The recorder.
LEMMA RecordingKeeps ==
    ASSUME RoomIInv, RecordChunk \/ Uploaded
    PROVE  Client' /\ (UNCHANGED vars \/ CreateRecordingUploadIntent \/ StoreChunk)
  <1>1. /\ room \in Pages(db) /\ Client /\ stored \subseteq 1..MaxChunks
    BY ClientTypes DEF Client
  <1>2. CASE RecordChunk
    <2>1. /\ CreateRecordingUploadIntent \/ StoreChunk
          /\ UNCHANGED <<db, conn, heard, room, socket, replaced, toServer, toRoom>>
      BY <1>2 DEF RecordChunk, CreateRecordingUploadIntent, StoreChunk, page, wire
    <2> QED
      BY <1>1, <2>1 DEF Client, Starting
  <1>3. CASE Uploaded
    <2>1. PICK n \in stored : room' = [room EXCEPT !.media = n]
      BY <1>3 DEF Uploaded
    <2>2. UNCHANGED <<db, conn, heard, socket, replaced, toServer, toRoom>> /\ UNCHANGED vars
      BY <1>3 DEF Uploaded, vars, wire
    <2>3. n \in 0..MaxChunks
      BY <1>1
    <2>4. room' \in Pages(db) /\ room'.known = room.known /\ room'.snapshot = room.snapshot
      BY <1>1, <2>1, <2>3 DEF Pages
    <2> QED
      BY <1>1, <2>2, <2>4 DEF Client, Starting
  <1> QED
    BY <1>2, <1>3

\* What the page makes of a reply.
LEMMA UnderstoodIsAPage ==
    ASSUME NewId \in AnswerIds, NEW d, NEW h \in 0..d.sequence, d.sequence \in Nat,
           \A i \in Questions(d) : d.turns[i].number \in 1..MaxQuestions,
           NEW r \in Pages(d), NEW m \in RepliesFrom(d, h)
    PROVE  /\ Understood([r EXCEPT !.last = m.sequence], m) \in Pages(d)
           /\ Understood([r EXCEPT !.last = m.sequence], m).known = r.known
           /\ Understood([r EXCEPT !.last = m.sequence], m).snapshot = r.snapshot
  <1> DEFINE s == [r EXCEPT !.last = m.sequence]
  <1>1. /\ m.sequence \in 0..d.sequence /\ m.place \in PlaceIn(d) /\ m.question \in 0..MaxQuestions
        /\ m.media \in 0..MaxChunks
        /\ m.type = "question.ready" => m.place # 0 /\ m.question = d.turns[m.place].number
    BY DEF RepliesFrom
  <1>2. s \in Pages(d) /\ s.known = r.known /\ s.snapshot = r.snapshot
    BY <1>1 DEF Pages
  <1>3. m.type = "question.ready" => m.question # 0 /\ Questions(d) # {}
    BY <1>1 DEF PlaceIn
  <1>4. PhaseOf(m.state) \in {"paused", "answering", "processing", "completed"}
    BY DEF PhaseOf
  <1> HIDE DEF s
  <1>5. s.media \in 0..MaxChunks
    BY <1>2 DEF Pages
  <1>6. Max({s.media, m.media}) \in 0..MaxChunks
    BY <1>1, <1>5, MaxOfTwo
  <1>7. CASE m.type = "question.ready"
    <2>1. Understood(s, m) = [s EXCEPT !.question = m.question, !.place = m.place, !.id = NewId,
                                       !.draft = 0, !.phase = "answering"]
      BY <1>7 DEF Understood, ShownIn
    <2>2. m.question # 0 /\ Questions(d) # {}
      BY <1>3, <1>7
    <2>3. ASSUME NEW t, NEW n \in AnswerIds, NEW q \in 1..MaxQuestions, NEW p \in PlaceIn(d),
                 t = [s EXCEPT !.question = q, !.place = p, !.id = n, !.draft = 0,
                               !.phase = "answering"]
          PROVE  t \in Pages(d)
      <3>1. /\ t.question = q /\ t.place = p /\ t.id = n /\ t.draft = 0 /\ t.phase = "answering"
            /\ t.known = s.known /\ t.last = s.last /\ t.media = s.media
            /\ t.snapshot = s.snapshot
        BY <1>2, <2>3 DEF Pages
      <3>2. t = [known |-> s.known, phase |-> "answering", question |-> q, place |-> p, id |-> n,
                 draft |-> 0, last |-> s.last, media |-> s.media, snapshot |-> s.snapshot]
        BY <1>2, <2>3 DEF Pages
      <3>3. /\ s.known \in BOOLEAN /\ s.last \in 0..d.sequence /\ s.media \in 0..MaxChunks
            /\ s.snapshot \in [state : {"none", "preparing", "awaiting_answer", "paused",
                                        "completed"},
                                sequence : 0..d.sequence, media : 0..MaxChunks,
                                place : PlaceIn(d)]
        BY <1>2 DEF Pages
      <3>4. q \in 0..MaxQuestions /\ q # 0 /\ 0 \in 0..MaxQuestions
        BY MaxQuestionsAssumption
      <3> QED
        BY <2>2, <3>1, <3>2, <3>3, <3>4 DEF Pages
    <2>5. m.question \in 1..MaxQuestions
      BY <1>1, <2>2, MaxQuestionsAssumption
    <2> HIDE DEF NewId
    <2>6. Understood(s, m) \in Pages(d)
      BY <1>1, <2>1, <2>3, <2>5
    <2>4. Understood(s, m).known = s.known /\ Understood(s, m).snapshot = s.snapshot
      BY <1>2, <2>1 DEF Pages
    <2> QED
      BY <1>2, <2>4, <2>6 DEF s
  <1>8. CASE m.type = "resume.snapshot"
    <2>1. Understood(s, m) = [s EXCEPT !.phase = PhaseOf(m.state), !.media = Max({@, m.media})]
      BY <1>8 DEF Understood
    <2>2. Understood(s, m) \in Pages(d) /\ Understood(s, m).known = s.known
          /\ Understood(s, m).snapshot = s.snapshot
      BY <1>2, <1>4, <1>6, <2>1 DEF Pages
    <2> QED
      BY <1>2, <2>2 DEF s
  <1>9. CASE m.type # "question.ready" /\ m.type # "resume.snapshot"
    <2>1. PICK phase \in {"paused", "answering", "processing", "completed"} :
                  Understood(s, m) \in {s, [s EXCEPT !.phase = phase]}
      <3>1. Understood(s, m) \in {s, [s EXCEPT !.phase = "processing"],
                                  [s EXCEPT !.phase = PhaseOf(m.state)],
                                  [s EXCEPT !.phase = "paused"], [s EXCEPT !.phase = "completed"]}
        BY <1>9 DEF Understood
      <3> QED
        BY <1>4, <3>1
    <2>2. Understood(s, m) \in Pages(d) /\ Understood(s, m).known = s.known
          /\ Understood(s, m).snapshot = s.snapshot
      BY <1>2, <2>1 DEF Pages
    <2> QED
      BY <1>2, <2>2 DEF s
  <1> QED
    BY <1>7, <1>8, <1>9

\* The page that takes in what the server sent: none of the rows change.
LEMMA ReceiveKeeps ==
    ASSUME RoomIInv, ~IsFiniteSet(AnswerIds), Receive
    PROVE  Client' /\ UNCHANGED vars
  <1>1. /\ room \in Pages(db) /\ socket \in Sockets(db) /\ db \in Rows /\ saved \in Rows
        /\ db.sequence \in Nat /\ Client /\ heard \in Nat /\ heard <= db.sequence
        /\ toRoom \in Seq(RepliesFrom(db, db.sequence))
        /\ socket.unsent \in Seq(MessagesTo(db, 0)) /\ toServer \in Seq(MessagesTo(db, heard))
    BY ClientTypes DEF Client, Sockets
  <1>2. NewId \in AnswerIds
    BY <1>1, NewIdIsNew
  <1>3. \A i \in Questions(db) : db.turns[i].number \in 1..MaxQuestions
    BY ClientTypes, QuestionNumbers
  <1> DEFINE m == Head(toRoom)
  <1>4. /\ toRoom # <<>> /\ toRoom' = Tail(toRoom)
        /\ UNCHANGED <<db, conn, heard, replaced, toServer>> /\ UNCHANGED vars
    BY DEF Receive, vars
  <1>5. m \in RepliesFrom(db, db.sequence) /\ toRoom' \in Seq(RepliesFrom(db, db.sequence))
    BY <1>1, <1>4, HeadTailProperties
  <1>6. ASSUME socket.state = "open", conn = "open"
        PROVE  /\ m \in RepliesFrom(db, heard) /\ m.sequence <= heard
               /\ toRoom' \in Seq(RepliesFrom(db, heard)) /\ socket.sequence <= heard
    <2>1. toRoom \in Seq(RepliesFrom(db, heard)) /\ socket.sequence <= heard
      BY <1>1, <1>6 DEF Client
    <2>2. m \in RepliesFrom(db, heard) /\ toRoom' \in Seq(RepliesFrom(db, heard))
      BY <1>4, <2>1, HeadTailProperties
    <2>3. m.sequence \in 0..heard
      BY <2>2 DEF RepliesFrom
    <2> QED
      BY <2>1, <2>2, <2>3
  <1>7. socket.state # "connecting" /\ room.known
    BY <1>1, <1>4 DEF Client
  <1> HIDE DEF m
  <1>8. \/ m.type = "close" /\ room' = Disconnected(room) /\ socket' = Closed
        \/ UNCHANGED <<room, socket>>
        \/ /\ socket' = [socket EXCEPT !.sequence = m.sequence]
           /\ room' \in {room, Understood([room EXCEPT !.last = m.sequence], m)}
    BY DEF Receive, m
  <1>9. CASE m.type = "close" /\ room' = Disconnected(room) /\ socket' = Closed
    <2>1. room' \in Pages(db) /\ room'.known = room.known
      BY <1>1, <1>9, DisconnectedIsAPage
    <2>2. socket' \in Sockets(db) /\ socket'.state = "closed"
      BY <1>1, <1>9, ClosedIsASocket
    <2> QED
      BY <1>1, <1>4, <1>5, <1>7, <2>1, <2>2 DEF Client
  <1>10. CASE UNCHANGED <<room, socket>>
    BY <1>1, <1>4, <1>5, <1>6, <1>7, <1>10 DEF Client
  <1>11. CASE /\ socket' = [socket EXCEPT !.sequence = m.sequence]
              /\ room' \in {room, Understood([room EXCEPT !.last = m.sequence], m)}
    <2>1. room' \in Pages(db) /\ room'.known = room.known
      <3>1. /\ Understood([room EXCEPT !.last = m.sequence], m) \in Pages(db)
            /\ Understood([room EXCEPT !.last = m.sequence], m).known = room.known
        BY <1>1, <1>2, <1>3, <1>5, UnderstoodIsAPage
      <3> QED
        BY <1>1, <1>11, <3>1
    <2>2. m.sequence \in 0..db.sequence
      BY <1>5 DEF RepliesFrom
    <2>3. socket' \in Sockets(db) /\ socket'.state = socket.state /\ socket'.sequence = m.sequence
      BY <1>1, <1>11, <2>2 DEF Sockets
    <2> QED
      BY <1>1, <1>4, <1>5, <1>6, <1>7, <2>1, <2>3 DEF Client
  <1> QED
    BY <1>8, <1>9, <1>10, <1>11

\* A reply, whatever its handler wrote.
LEMMA ReplyKeeps ==
    ASSUME RoomIInv, Regular', Extends(db, db'), conn = "open", toServer # <<>>,
           NEW d, NEW messages \in Seq(RepliesFrom(d, d.sequence)), Reply(d, messages)
    PROVE  Client'
  <1>1. /\ room \in Pages(db) /\ socket \in Sockets(db) /\ Client /\ room.known
        /\ db.sequence \in Nat /\ heard \in Nat /\ heard <= db.sequence
        /\ toRoom \in Seq(RepliesFrom(db, db.sequence)) /\ toServer \in Seq(MessagesTo(db, heard))
    BY ClientTypes DEF Client
  <1>2. /\ db' = d /\ heard' = d.sequence /\ conn' = "open" /\ toServer' = Tail(toServer)
        /\ toRoom' = ToRoom(messages) /\ UNCHANGED <<room, socket, replaced>>
    BY DEF Reply, Respond, page
  <1>3. d.sequence \in Nat /\ db.sequence <= d.sequence /\ Extends(db, d)
    <2>1. d \in Rows
      BY <1>2 DEF Regular, IInv, TypeOK
    <2> QED
      BY <1>2, <2>1 DEF Extends, Rows
  <1>4. room \in Pages(d) /\ socket \in Sockets(d)
    BY <1>1, <1>3, PagesGrow
  <1>5. Tail(toServer) \in Seq(MessagesTo(d, d.sequence))
    <2>1. Tail(toServer) \in Seq(MessagesTo(db, heard))
      BY <1>1, HeadTailProperties
    <2>2. heard <= d.sequence
      BY <1>1, <1>3
    <2> QED
      BY <1>1, <1>3, <2>1, <2>2, MessagesGrow
  <1>6. toRoom \in Seq(RepliesFrom(d, d.sequence))
    BY <1>1, <1>3, RepliesGrow
  <1>7. toRoom' \in Seq(RepliesFrom(d, d.sequence))
    BY <1>2, <1>6, ConcatProperties DEF ToRoom
  <1>8. socket.sequence \in 0..d.sequence
    BY <1>4 DEF Sockets
  <1>9. socket.state = "connecting" => socket.sequence = 0 /\ toRoom' = <<>>
    BY <1>1, <1>2 DEF Client, ToRoom
  <1> QED
    BY <1>1, <1>2, <1>3, <1>4, <1>5, <1>7, <1>8, <1>9 DEF Client

\* The connection that ends with a handler that raises.
LEMMA RaiseKeeps ==
    ASSUME RoomIInv, Regular', Extends(db, db'), conn = "open", NEW d, Raise(d)
    PROVE  Client'
  <1> DEFINE close == [FromServer("close", d, 0) EXCEPT !.sequence = 0]
  <1>1. /\ room \in Pages(db) /\ socket \in Sockets(db) /\ Client /\ room.known
        /\ db.sequence \in Nat
        /\ toRoom \in Seq(RepliesFrom(db, db.sequence))
    BY ClientTypes DEF Client
  <1>2. /\ db' = d /\ heard' = 0 /\ conn' = "closed" /\ toServer' = <<>>
        /\ toRoom' = ToRoom(<<close>>) /\ UNCHANGED <<room, socket, replaced>>
    BY DEF Raise, Close, page
  <1>3. Sound(d, stored') /\ Steady(d) /\ d \in Rows
    BY <1>2 DEF Regular, IInv, TypeOK
  <1>4. d.sequence \in Nat /\ db.sequence <= d.sequence /\ Extends(db, d)
    BY <1>2, <1>3 DEF Extends, Rows
  <1>5. room \in Pages(d) /\ socket \in Sockets(d)
    BY <1>1, <1>4, PagesGrow
  <1>6. FromServer("close", d, 0) \in RepliesFrom(d, d.sequence)
    BY <1>3, FromServerIsAReply DEF ReplyTypes, PlaceIn
  <1>7. close \in RepliesFrom(d, d.sequence)
    <2>1. FromServer("close", d, 0).type = "close"
      BY DEF FromServer
    <2> QED
      BY <1>4, <1>6, <2>1 DEF RepliesFrom
  <1> HIDE DEF close
  <1>8. <<close>> \in Seq(RepliesFrom(d, d.sequence)) /\ <<>> \in Seq(MessagesTo(d, 0))
    BY <1>7
  <1>9. toRoom \in Seq(RepliesFrom(d, d.sequence))
    BY <1>1, <1>4, RepliesGrow
  <1>10. toRoom' \in Seq(RepliesFrom(d, d.sequence))
    BY <1>2, <1>8, <1>9, ConcatProperties DEF ToRoom
  <1>11. socket.state = "connecting" => socket.sequence = 0 /\ toRoom' = <<>>
    BY <1>1, <1>2 DEF Client, ToRoom
  <1> QED
    BY <1>1, <1>2, <1>5, <1>8, <1>10, <1>11 DEF Client

-----------------------------------------------------------------------------
(* The handlers *)

\* A message that is not stale carries the sequence of the session, and the page heard it.
LEMMA ArrivingMessage ==
    ASSUME RoomIInv, toServer # <<>>
    PROVE  /\ Head(toServer) \in MessagesTo(db, heard)
           /\ Head(toServer).answer \in AnswerIds \cup {0} /\ Head(toServer).media \in 0..MaxChunks
           /\ Head(toServer).place \in PlaceIn(db)
           /\ conn = "open" /\ ~Stale(Head(toServer)) =>
                 Fresh /\ heard = db.sequence /\ Head(toServer).sequence = db.sequence
  <1> DEFINE m == Head(toServer)
  <1>1. m \in MessagesTo(db, heard)
    BY ClientTypes, HeadTailProperties DEF Client
  <1> HIDE DEF m
  <1>2. m.answer \in AnswerIds \cup {0} /\ m.media \in 0..MaxChunks /\ m.place \in PlaceIn(db)
        /\ m.sequence \in 0..heard
    BY <1>1 DEF MessagesTo
  <1>3. conn = "open" /\ ~Stale(m) => Fresh /\ heard = db.sequence /\ m.sequence = db.sequence
    BY <1>2, ClientTypes DEF Stale, Fresh
  <1> QED
    BY <1>1, <1>2, <1>3 DEF m

\* A handler that answers an answer.complete is one of InterviewStream.
LEMMA AnsweringCompletes ==
    ASSUME RoomIInv, NEW a \in AnswerIds, NEW media \in 0..MaxChunks, Answering(a, media)
    PROVE  /\ Awaiting
           /\ \A place \in Recording(db, a) :
                 place \in DOMAIN db.turns /\ Completing(a, place, media)
  <1> DEFINE m == Head(toServer)
  <1>1. /\ toServer # <<>> /\ conn = "open" /\ m.type = "complete" /\ ~Stale(m)
        /\ db.state = "awaiting_answer" /\ Verifiable(media)
    BY DEF Answering, Current, Arrives
  <1>2. Fresh /\ Questions(db) # {}
    BY <1>1, ArrivingMessage DEF MessagesTo
  <1>3. Awaiting
    BY <1>1, <1>2 DEF Awaiting, Shown
  <1> QED
    BY <1>1, <1>3 DEF Completing, Recording, Places

\* Each handler of the room is a step of InterviewStream.
LEMMA HandlingIsAStep ==
    ASSUME RoomIInv, Handle
    PROVE  ClientStep
  <1> DEFINE m == Head(toServer)
  <1>1. IInv /\ Base(db, stored) /\ db \in Rows /\ db.sequence \in Nat
    BY ClientTypes DEF Regular, Sound
  <1>2. \A type : Current(type) =>
           /\ Fresh /\ heard = db.sequence /\ m.type = type /\ conn = "open" /\ toServer # <<>>
           /\ m \in MessagesTo(db, heard)
    BY ArrivingMessage DEF Current, Arrives
  <1>3. CASE HandleStale
    BY <1>3 DEF HandleStale, Reply, Resume, ClientStep
  <1>4. CASE HandleResume
    BY <1>4 DEF HandleResume, Arrives, Reply, Resume, ClientStep
  <1>5. CASE HandleStart
    <2> DEFINE e == Asked(Started, 1, 0, 0)
    <2>1. Current("start") /\ db.turns = <<>> /\ MayPass(db, "in_progress", "awaiting_answer")
          /\ Respond(e, e.sequence)
      BY <1>5 DEF HandleStart, Reply
    <2>2. Startable
      BY <1>2, <2>1 DEF Startable
    <2>3. e.sequence = Started.sequence
      BY <1>1, <2>2, StartedIsSteady
    <2> HIDE DEF e
    <2>4. Respond(e, Started.sequence)
      BY <2>1, <2>3
    <2> QED
      BY <2>2, <2>4 DEF e, Start, ClientStep
  <1>6. CASE HandleRepeat
    <2>1. Current("repeat") /\ Respond(db, db.sequence)
      BY <1>6 DEF HandleRepeat, Reply
    <2>2. Fresh /\ m.place \in Questions(db)
      BY <1>2, <2>1 DEF MessagesTo, PlaceIn
    <2>3. Shown
      BY <2>2 DEF Shown
    <2> QED
      BY <2>1, <2>2, <2>3 DEF Restate, ClientStep
  <1>7. CASE HandleText
    <2>1. Current("submit")
      BY <1>7 DEF HandleText
    <2>2. Fresh /\ heard = db.sequence /\ conn = "open" /\ Shown
          /\ m.answer \in AnswerIds /\ m.text \in Fragments
      BY <1>2, <2>1, NumbersAssumption, MaxQuestionsAssumption DEF MessagesTo, Shown
    <2>3. CASE db.state = "awaiting_answer"
      <3> DEFINE e == Written(db, m.answer, <<m.text>>)
      <3>1. Respond(e, e.sequence)
        BY <1>7, <2>3 DEF HandleText, Reply
      <3>2. e.sequence = db.sequence
        BY <1>1 DEF Written, Rows
      <3> HIDE DEF e
      <3>3. Respond(e, heard)
        BY <2>2, <3>1, <3>2
      <3> QED
        BY <2>2, <2>3, <3>3 DEF e, SubmitText, Awaiting, ClientStep
    <2>4. CASE db.state # "awaiting_answer"
      <3>1. Close(db)
        BY <1>7, <2>4 DEF HandleText, Raise
      <3> QED
        BY <2>2, <3>1 DEF Disconnect, ClientStep
    <2> QED
      BY <2>3, <2>4
  <1>8. CASE HandleUnverified
    <2>1. PICK upto \in 0..m.media - 1 :
              /\ Verifiable(upto)
              /\ upto + 1 \notin db.verified
              /\ upto + 1 \in stored => "storage" \in Faults
              /\ Close(Verified(db, upto))
      BY <1>8 DEF HandleUnverified, Raise
    <2>2. Current("complete") /\ db.state = "awaiting_answer"
      BY <1>8 DEF HandleUnverified
    <2>3. Awaiting /\ m.media \in 0..MaxChunks
      BY <1>2, <2>2 DEF MessagesTo, Awaiting, Shown
    <2>4. m.media \in 1..MaxChunks /\ upto \in 0..MaxChunks /\ upto < m.media
      BY <2>1, <2>3, BoundsAssumption
    <2> QED
      BY <2>1, <2>3, <2>4 DEF CompleteVerifyFails, ClientStep
  <1>9. CASE HandleMissing
    <2>1. PICK a \in AnswerIds, media \in 0..MaxChunks :
              /\ Answering(a, media) /\ MayPause /\ Recording(db, a) = {}
              /\ Respond(Paused(Verified(db, media)), Paused(Verified(db, media)).sequence)
      BY <1>9 DEF HandleMissing, Reply
    <2>2. Awaiting /\ Verifiable(media)
      BY <2>1, AnsweringCompletes DEF Answering
    <2> QED
      BY <2>1, <2>2 DEF CompleteMissingTranscript, ClientStep
  <1>10. CASE HandleNext
    <2>1. PICK a \in AnswerIds, media \in 0..MaxChunks, place \in DOMAIN db.turns :
              /\ place \in Recording(db, a)
              /\ Answering(a, media) /\ AnswersAfter(a) < MaxQuestions
              /\ Respond(Asked(Answered(a, media), AnswersAfter(a) + 1, place, media),
                         Asked(Answered(a, media), AnswersAfter(a) + 1, place, media).sequence)
      BY <1>10 DEF HandleNext, Reply, Recording, Places
    <2>2. place \in DOMAIN db.turns /\ Completing(a, place, media)
      BY <2>1, AnsweringCompletes
    <2>3. Asked(Answered(a, media), AnswersAfter(a) + 1, place, media).sequence = db.sequence + 2
      <3>1. "published" \in {"pending", "published"}
        OBVIOUS
      <3> QED
        BY <1>1, <2>2, <3>1, AnsweredSequence
    <2>4. MayPass(db, "preparing_question", "awaiting_answer")
      BY <2>1 DEF Answering, MayPass, Allowed
    <2>5. Respond(Asked(Answered(a, media), AnswersAfter(a) + 1, place, media), db.sequence + 2)
      BY <2>1, <2>3
    <2> QED
      BY <2>1, <2>2, <2>4, <2>5 DEF CompleteNextQuestion, ClientStep
  <1>11. CASE HandleLast
    <2>1. PICK a \in AnswerIds, media \in 0..MaxChunks, place \in DOMAIN db.turns :
              /\ place \in Recording(db, a)
              /\ Answering(a, media) /\ AnswersAfter(a) >= MaxQuestions
              /\ \/ Respond(Completed(a, place, media, "published"),
                            Completed(a, place, media, "published").sequence)
                 \/ /\ "completion" \in Faults
                    /\ Close([Completed(a, place, media, "published") EXCEPT !.event = "pending"])
      BY <1>11 DEF HandleLast, Reply, Raise, Recording, Places
    <2>2. place \in DOMAIN db.turns /\ Completing(a, place, media)
      BY <2>1, AnsweringCompletes
    <2>3. Completed(a, place, media, "published").sequence = db.sequence + 2
      BY <1>1, <2>2, AnsweredSequence
    <2>4. MayPass(db, "paused", "completed")
      BY <2>1 DEF Answering, MayPass, Allowed
    <2>5. [Completed(a, place, media, "published") EXCEPT !.event = "pending"]
             = Completed(a, place, media, "pending")
      BY DEF Completed
    <2>6. \/ Respond(Completed(a, place, media, "published"), db.sequence + 2)
          \/ "completion" \in Faults /\ Close(Completed(a, place, media, "pending"))
      BY <2>1, <2>3, <2>5
    <2>7. CompleteInterview \/ CompletionHandlerFails
      BY <2>1, <2>2, <2>4, <2>6 DEF CompleteInterview, CompletionHandlerFails
    <2> QED
      BY <2>7 DEF ClientStep
  <1> QED
    BY <1>3, <1>4, <1>5, <1>6, <1>7, <1>8, <1>9, <1>10, <1>11 DEF Handle

\* Each handler leaves the page, and what is on the way to it, a client.
LEMMA HandlingKeeps ==
    ASSUME RoomIInv, Handle
    PROVE  Client'
  <1> DEFINE m == Head(toServer)
             S == RepliesFrom(db', db'.sequence)
  <1>1. ClientStep
    BY HandlingIsAStep
  <1>2. Regular' /\ Extends(db, db')
    BY <1>1, ClientStepKeeps, ClientTypes
  <1>3. Sound(db', stored') /\ Steady(db') /\ Base(db', stored')
    BY <1>2 DEF Regular, IInv, Sound
  <1>4. \A type \in ReplyTypes, place \in PlaceIn(db') :
            (type = "question.ready" => place # 0) => FromServer(type, db', place) \in S
    BY <1>3, FromServerIsAReply
  <1>5. 0 \in PlaceIn(db')
    BY DEF PlaceIn
  <1>6. /\ StateChanged(db') \in S /\ Snapshot(db') \in S
        /\ FromServer("session.paused", db', 0) \in S /\ FromServer("transcript.final", db', 0) \in S
        /\ FromServer("question.preparing", db', 0) \in S
        /\ FromServer("session.completed", db', 0) \in S
        /\ \A place \in Questions(db') : Ready(db', place) \in S
    <2> HIDE DEF S
    <2>1. \A place \in Questions(db') : place \in PlaceIn(db') /\ place # 0
      BY <1>3, QuestionNumbers DEF PlaceIn
    <2>2. \A place \in Questions(db') : Ready(db', place) \in S
      BY <1>4, <2>1 DEF Ready, ReplyTypes
    <2> QED
      BY <1>4, <1>5, <2>2 DEF StateChanged, Snapshot, ReplyTypes
  <1>7. \A x, y, z \in S : <<x>> \in Seq(S) /\ <<x, y>> \in Seq(S) /\ <<x, y, z>> \in Seq(S)
    <2> HIDE DEF S
    <2> QED
      OBVIOUS
  <1>8. ASSUME NEW d, NEW messages, Reply(d, messages), conn = "open", toServer # <<>>,
               db' = d => messages \in Seq(S)
        PROVE  Client'
    <2>1. db' = d
      BY <1>8 DEF Reply, Respond
    <2> QED
      BY <1>2, <1>8, <2>1, ReplyKeeps
  <1>9. ASSUME NEW d, Raise(d), conn = "open"
        PROVE  Client'
    BY <1>2, <1>9, RaiseKeeps
  <1>10. \A type : Current(type) => conn = "open" /\ toServer # <<>>
    BY DEF Current, Arrives
  <1> HIDE DEF S
  <1>11. CASE HandleStale
    <2>1. conn = "open" /\ toServer # <<>> /\ Reply(Resumed(db), <<Snapshot(Resumed(db))>>)
      BY <1>11 DEF HandleStale
    <2>2. db' = Resumed(db)
      BY <2>1 DEF Reply, Respond
    <2>3. Reply(db', <<Snapshot(db')>>)
      BY <2>1, <2>2
    <2> QED
      BY <1>6, <1>7, <1>8, <2>1, <2>3
  <1>12. CASE HandleResume
    <2> DEFINE d == Resumed(db)
               pending == Latest(d).pending
               messages == IF d.state = "awaiting_answer" /\ pending # 0
                           THEN <<Snapshot(d), Ready(d, pending)>> ELSE <<Snapshot(d)>>
    <2>1. conn = "open" /\ toServer # <<>> /\ Reply(d, messages)
      BY <1>12 DEF HandleResume, Arrives
    <2>2. db' = d
      BY <2>1 DEF Reply, Respond
    <2>3. pending \in Questions(db') \cup {0}
      BY <1>3, <2>2, LatestNames
    <2>4. messages \in Seq(S)
      <3> HIDE DEF d
      <3>1. Snapshot(d) \in S
        BY <1>6, <2>2
      <3>2. pending # 0 => Ready(d, pending) \in S
        BY <1>6, <2>2, <2>3
      <3> HIDE DEF pending
      <3> QED
        BY <1>7, <3>1, <3>2
    <2> HIDE DEF messages, d
    <2> QED
      BY <1>8, <2>1, <2>4
  <1>13. CASE HandleStart
    <2> DEFINE d == Asked(Started, 1, 0, 0)
    <2>1. Current("start") /\ db.turns = <<>> /\ Reply(d, <<StateChanged(d), Ready(d, 1)>>)
      BY <1>13 DEF HandleStart
    <2>2. db' = d
      BY <2>1 DEF Reply, Respond
    <2>3. 1 \in Questions(d)
      <3>1. Started.turns = <<>> /\ Started \in Rows
        <4>1. Base(Started, stored) /\ Started.turns = db.turns
          BY ClientTypes, PassedKeeps DEF Started, Sound
        <4> QED
          BY <2>1, <4>1 DEF Base
      <3>2. d.turns = <<Question(1)>>
        BY <3>1 DEF Asked, Checkpointed, Rows
      <3> HIDE DEF d
      <3> QED
        BY <3>2 DEF Questions, Question
    <2> HIDE DEF d
    <2>4. StateChanged(d) \in S /\ Ready(d, 1) \in S
      BY <1>6, <2>2, <2>3
    <2>5. <<StateChanged(d), Ready(d, 1)>> \in Seq(S)
      BY <1>7, <2>4
    <2> QED
      BY <1>8, <1>10, <2>1, <2>5
  <1>14. CASE HandleRepeat
    <2>1. Current("repeat") /\ Reply(db, <<Ready(db, m.place)>>)
      BY <1>14 DEF HandleRepeat
    <2>2. db' = db
      BY <2>1 DEF Reply, Respond
    <2>3. m \in MessagesTo(db, heard) /\ m.type = "repeat"
      BY <1>10, <2>1, ArrivingMessage DEF Current, Arrives
    <2>4. m.place \in Questions(db)
      BY <2>3 DEF MessagesTo, PlaceIn
    <2>5. <<Ready(db, m.place)>> \in Seq(S)
      BY <1>6, <1>7, <2>2, <2>4
    <2> QED
      BY <1>8, <1>10, <2>1, <2>5
  <1>15. CASE HandleText
    <2>1. Current("submit")
      BY <1>15 DEF HandleText
    <2>2. CASE db.state = "awaiting_answer"
      <3> DEFINE d == Written(db, m.answer, <<m.text>>)
      <3>1. Reply(d, <<FromServer("transcript.final", db, 0)>>)
        BY <1>15, <2>2 DEF HandleText
      <3>2. db' = d
        BY <3>1 DEF Reply, Respond
      <3>3. /\ d.sequence = db.sequence /\ d.state = db.state /\ d.verified = db.verified
        BY ClientTypes DEF Written, Rows
      <3> HIDE DEF d
      <3>4. FromServer("transcript.final", d, 0) = FromServer("transcript.final", db, 0)
        BY <3>3 DEF FromServer, LastVerified
      <3>5. <<FromServer("transcript.final", db, 0)>> \in Seq(S)
        BY <1>6, <1>7, <3>2, <3>4
      <3> QED
        BY <1>8, <1>10, <2>1, <3>1, <3>5
    <2>3. CASE db.state # "awaiting_answer"
      <3>1. Raise(db)
        BY <1>15, <2>3 DEF HandleText
      <3> QED
        BY <1>9, <1>10, <2>1, <3>1
    <2> QED
      BY <2>2, <2>3
  <1>16. CASE HandleUnverified
    <2>1. PICK upto : Raise(Verified(db, upto))
      BY <1>16 DEF HandleUnverified
    <2>2. Current("complete")
      BY <1>16 DEF HandleUnverified
    <2> QED
      BY <1>9, <1>10, <2>1, <2>2
  <1>17. \A a, media : Answering(a, media) => conn = "open" /\ toServer # <<>>
    BY <1>10 DEF Answering
  <1>18. CASE HandleMissing
    <2>1. PICK a \in AnswerIds, media \in 0..MaxChunks :
              /\ Answering(a, media)
              /\ Reply(Paused(Verified(db, media)),
                       <<FromServer("session.paused", Paused(Verified(db, media)), 0)>>)
      BY <1>18 DEF HandleMissing
    <2> DEFINE d == Paused(Verified(db, media))
    <2> HIDE DEF d
    <2>2. Reply(d, <<FromServer("session.paused", d, 0)>>)
      BY <2>1 DEF d
    <2>3. db' = d => <<FromServer("session.paused", d, 0)>> \in Seq(S)
      BY <1>6, <1>7
    <2> QED
      BY <1>8, <1>17, <2>1, <2>2, <2>3
  <1>19. CASE HandleNext
    <2>1. PICK a \in AnswerIds, media \in 0..MaxChunks, place \in DOMAIN db.turns :
              LET d == Asked(Answered(a, media), AnswersAfter(a) + 1, place, media)
              IN  /\ Answering(a, media)
                  /\ Reply(d, <<StateChanged(d), FromServer("question.preparing", d, 0),
                                Ready(d, LastQuestion(d))>>)
                  /\ d.state = "awaiting_answer"
      <3>1. PICK a \in AnswerIds, media \in 0..MaxChunks, place \in DOMAIN db.turns :
              LET d == Asked(Answered(a, media), AnswersAfter(a) + 1, place, media)
              IN  /\ Answering(a, media) /\ place \in Recording(db, a)
                  /\ AnswersAfter(a) < MaxQuestions
                  /\ Reply(d, <<StateChanged(d), FromServer("question.preparing", d, 0),
                                Ready(d, LastQuestion(d))>>)
        BY <1>19 DEF HandleNext, Recording, Places
      <3>2. place \in DOMAIN db.turns /\ Completing(a, place, media)
        BY <3>1, AnsweringCompletes
      <3> DEFINE d == Asked(Answered(a, media), AnswersAfter(a) + 1, place, media)
      <3>3. Answered(a, media).state = "awaiting_answer"
        <4>1. 1..media \subseteq db.verified \cup stored /\ Base(db, stored)
          BY <3>2, CompletingCounts, ClientTypes DEF Regular, Sound
        <4> QED
          BY <3>1, <4>1, AnsweredKeeps DEF Answered
      <3>4. d.state = "awaiting_answer"
        <4>1. Answered(a, media) \in Rows
          <5>1. 1..media \subseteq db.verified \cup stored /\ Base(db, stored)
            BY <3>2, CompletingCounts, ClientTypes DEF Regular, Sound
          <5> QED
            BY <3>1, <5>1, AnsweredKeeps DEF Answered, Base
        <4> QED
          BY <3>3, <4>1 DEF Asked, Checkpointed, Rows
      <3> QED
        BY <3>1, <3>4
    <2> DEFINE d == Asked(Answered(a, media), AnswersAfter(a) + 1, place, media)
               messages == <<StateChanged(d), FromServer("question.preparing", d, 0),
                             Ready(d, LastQuestion(d))>>
    <2>2. Answering(a, media) /\ Reply(d, messages) /\ d.state = "awaiting_answer"
      BY <2>1
    <2>3. db' = d => messages \in Seq(S)
      <3> HIDE DEF d
      <3> SUFFICES ASSUME db' = d PROVE messages \in Seq(S)
        OBVIOUS
      <3>1. LastQuestion(d) \in Questions(d)
        BY <1>3, <2>2, QuestionNumbers
      <3>2. /\ StateChanged(d) \in S /\ FromServer("question.preparing", d, 0) \in S
            /\ Ready(d, LastQuestion(d)) \in S
        BY <1>6, <3>1
      <3> QED
        BY <1>7, <3>2
    <2> HIDE DEF messages, d
    <2> QED
      BY <1>8, <1>17, <2>2, <2>3
  <1>20. CASE HandleLast
    <2>1. PICK a \in AnswerIds, media \in 0..MaxChunks, place \in DOMAIN db.turns :
              LET d == Completed(a, place, media, "published")
              IN  /\ Answering(a, media)
                  /\ \/ Reply(d, <<StateChanged(d), FromServer("session.completed", d, 0)>>)
                     \/ Raise([d EXCEPT !.event = "pending"])
      BY <1>20 DEF HandleLast, Recording, Places
    <2> DEFINE d == Completed(a, place, media, "published")
               messages == <<StateChanged(d), FromServer("session.completed", d, 0)>>
    <2>2. Answering(a, media) /\ (Reply(d, messages) \/ Raise([d EXCEPT !.event = "pending"]))
      BY <2>1
    <2> HIDE DEF d
    <2>3. db' = d => messages \in Seq(S)
      BY <1>6, <1>7
    <2> HIDE DEF messages
    <2>4. CASE Reply(d, messages)
      BY <1>8, <1>17, <2>2, <2>3, <2>4
    <2>5. CASE Raise([d EXCEPT !.event = "pending"])
      BY <1>9, <1>17, <2>2, <2>5
    <2> QED
      BY <2>2, <2>4, <2>5
  <1> QED
    BY <1>11, <1>12, <1>13, <1>14, <1>15, <1>16, <1>18, <1>19, <1>20 DEF Handle

-----------------------------------------------------------------------------
(* The page is a client of the stream *)

\* The invariant holds at first.
LEMMA RoomBegins == RoomInit => RoomIInv
  <1> SUFFICES ASSUME RoomInit PROVE RoomIInv
    OBVIOUS
  <1>1. Init /\ db = NewSession /\ saved = NewSession /\ heard = 0 /\ told = 0 /\ conn = "closed"
    BY DEF RoomInit, Init
  <1>2. IInv /\ db.sequence = 0
    BY <1>1, InitEstablishes DEF NewSession
  <1>3. Regular
    BY <1>1, <1>2, NewIsSteady DEF Regular, Reminded
  <1>4. room \in Pages(db) /\ ~room.known /\ room.snapshot = NoSnapshot
    <2>1. db.sequence \in Nat /\ FALSE \in BOOLEAN
      BY <1>2
    <2>2. NewPage(FALSE) \in Pages(db) /\ NewPage(FALSE).known = FALSE
      BY <2>1, NewPageIsAPage
    <2>3. NewPage(FALSE).snapshot = NoSnapshot
      BY DEF NewPage
    <2> QED
      BY <2>2, <2>3 DEF RoomInit
  <1>5. <<>> \in Seq(MessagesTo(db, 0)) /\ <<>> \in Seq(RepliesFrom(db, 0))
    OBVIOUS
  <1>6. socket \in Sockets(db) /\ socket.state = "closed"
    BY <1>2, <1>5 DEF RoomInit, Sockets
  <1>7. db.state = "preparing"
    BY <1>1 DEF NewSession
  <1>8. /\ replaced = 0 /\ toServer = <<>> /\ toRoom = <<>>
        /\ toServer \in Seq(MessagesTo(db, heard)) /\ toRoom \in Seq(RepliesFrom(db, db.sequence))
    BY <1>1, <1>2, <1>5 DEF RoomInit
  <1>9. Client
    BY <1>1, <1>4, <1>6, <1>7, <1>8 DEF Client, Starting
  <1> QED
    BY <1>3, <1>9 DEF RoomIInv

\* Every step keeps the invariant, and is for the stream a step of a client or none.
LEMMA RoomNextKeeps ==
    ASSUME ~IsFiniteSet(AnswerIds), RoomIInv, [RoomNext]_roomVars
    PROVE  RoomIInv' /\ [ClientStep]_vars
  <1>1. Client' /\ [ClientStep]_vars
    <2>1. CASE UNCHANGED roomVars
      <3>1. UNCHANGED vars /\ UNCHANGED <<db, conn, heard, room, socket, replaced, toServer, toRoom>>
        BY <2>1 DEF roomVars, vars, page, wire
      <3> QED
        BY <3>1, ClientTypes DEF Client, Starting
    <2>2. CASE StartSession \/ AskSnapshot \/ ApplySnapshot
      BY <2>2, StartingKeeps
    <2>3. CASE Write \/ CompleteAnswer \/ RepeatQuestion \/ Leave
      BY <2>3, AnsweringKeeps
    <2>4. CASE Drop \/ Reload \/ ReplacedCloses \/ Accept \/ EndConnection
      BY <2>4, ConnectionsKeep DEF ClientStep
    <2>5. CASE Handle
      BY <2>5, HandlingIsAStep, HandlingKeeps
    <2>6. CASE Receive
      BY <2>6, ReceiveKeeps
    <2>7. CASE RecordChunk \/ Uploaded
      BY <2>7, RecordingKeeps DEF ClientStep
    <2> QED
      BY <2>1, <2>2, <2>3, <2>4, <2>5, <2>6, <2>7 DEF RoomNext
  <1>2. Regular'
    BY <1>1, ClientTypes, ClientStepKeeps
  <1> QED
    BY <1>1, <1>2 DEF RoomIInv

\* The page sends only what a client may send, and is sent only what the server may send:
\* the invariant of the room, kept by every step of the page, the socket and the handlers.
THEOREM RoomInductive ==
    ASSUME ~IsFiniteSet(AnswerIds)
    PROVE  RoomSpec => []RoomIInv
  <1>1. RoomIInv /\ [RoomNext]_roomVars => RoomIInv'
    BY RoomNextKeeps
  <1> QED
    BY <1>1, RoomBegins, PTL DEF RoomSpec

\* To the server, the page is one of the clients of InterviewStream.
THEOREM RoomImplementsStream ==
    ASSUME ~IsFiniteSet(AnswerIds)
    PROVE  RoomSpec => RoomIsAClient
  <1>1. RoomIInv /\ [RoomNext]_roomVars => RoomIInv' /\ [Next]_vars
    BY RoomNextKeeps DEF ClientStep, Next
  <1>2. RoomInit => Init
    BY DEF RoomInit
  <1> QED
    BY <1>1, <1>2, RoomBegins, PTL DEF RoomSpec, RoomIsAClient, Spec

\* With this page as its only client, the stream keeps its questions in pace with the
\* answers, its resume point current, and every sequence that it told.
THEOREM RoomKeepsTheStream ==
    ASSUME ~IsFiniteSet(AnswerIds)
    PROVE  RoomSpec => [](QuestionsKeepPace /\ ResumePointCurrent /\ NothingToldIsLost)
  <1>1. RoomIInv => QuestionsKeepPace /\ ResumePointCurrent /\ NothingToldIsLost
    BY DEF RoomIInv, Regular, Steady, QuestionsKeepPace, ResumePointCurrent, Reminded, NothingToldIsLost
  <1> QED
    BY <1>1, RoomInductive, PTL

-----------------------------------------------------------------------------
(* The page of an applicant who waits *)

\* The questions before place i.
Before(d, i) == {q \in Questions(d) : q < i}

\* What was written, was written under the question before it.
WrittenUnder(d) ==
    \A i \in DOMAIN d.turns : d.turns[i].speaker = "applicant" =>
        /\ Before(d, i) # {}
        /\ d.turns[i].text = <<d.turns[Max(Before(d, i))].number>>

\* The turns of a answer the last question, and none of them is final.
ToLast(d, a) ==
    /\ \A i \in Places(d, a) : i > LastQuestion(d)
    /\ Places(d, a) \cap Finals(d) = {}

Number(d) == d.turns[LastQuestion(d)].number

Start0 == <<First("start")>>
Resume0 == <<First("resume")>>

Submits(m, d) ==
    /\ m.type = "submit" /\ m.sequence = d.sequence
    /\ d.state = "awaiting_answer" => ToLast(d, m.answer) /\ m.text = Number(d)

Completes(m, d) == m.type = "complete" /\ m.sequence = d.sequence

Repeats(m, d) ==
    /\ m.type = "repeat" /\ m.sequence = d.sequence
    /\ d.state # "completed" => m.place = LastQuestion(d)

\* One thing is asked of the server at a time; s is what is on its connection.
InFlight(s, d) ==
    \/ s = <<>>
    \/ s = Start0 /\ d.state = "preparing"
    \/ s = Resume0
    \/ Len(s) = 1 /\ Repeats(s[1], d)
    \/ Len(s) = 2 /\ Submits(s[1], d) /\ Completes(s[2], d) /\ s[1].answer = s[2].answer
    \/ /\ Len(s) = 1 /\ Completes(s[1], d)
       /\ d.state = "awaiting_answer" /\ Recording(d, s[1].answer) # {}

Opens ==
    socket.state = "connecting" =>
        \/ socket.unsent = Start0 /\ conn = "closed" /\ db.state = "preparing"
        \/ socket.unsent = Resume0

\* The page r shows the last question, if any, and under no answer_turn_id used up.
Settled(r, d) ==
    d.state # "completed" =>
        /\ r.place # 0 => r.place = LastQuestion(d)
        /\ r.phase = "answering" /\ r.id # 0 =>
              /\ d.state = "awaiting_answer"
              /\ r.place = LastQuestion(d) /\ r.question = Number(d)
              /\ ToLast(d, r.id)

\* A reply that does not let the applicant answer.
Mute(m) ==
    /\ m.type # "question.ready"
    /\ m.type \in {"session.state_changed", "resume.snapshot"} => PhaseOf(m.state) # "answering"

Shows(m, d) ==
    /\ m.type = "question.ready"
    /\ d.state # "completed" => d.state = "awaiting_answer" /\ m.place = LastQuestion(d)

LastOf(s) == s[Len(s)]

\* The replies on the way tell the page the sequence of the session,
CaughtUp(sequence, replies, d) ==
    IF replies = <<>> THEN sequence = d.sequence ELSE LastOf(replies).sequence = d.sequence

\* and bring it where the session is, if it is not there already.
Brings(s, replies, r, d) ==
    \/ s = <<>> /\ replies # <<>> /\ Shows(LastOf(replies), d)
    \/ Settled(r, d) /\ \A n \in DOMAIN replies : Mute(replies[n])

Settling ==
    socket.state = "open" /\ conn = "open" =>
        IF toServer \in {Start0, Resume0} THEN toRoom = <<>>
        ELSE CaughtUp(socket.sequence, toRoom, db) /\ Brings(toServer, toRoom, room, db)

Closing ==
    socket.state = "open" /\ conn = "closed" => toRoom # <<>> /\ LastOf(toRoom).type = "close"

Waiting ==
    /\ WrittenUnder(db)
    /\ db.state # "paused"
    /\ InFlight(toServer, db) /\ Opens /\ Settling /\ Closing

WaitingIInv == ~mishaps.hasty => Waiting

-----------------------------------------------------------------------------
(* Queues of messages *)

\* The first, the rest and the last of a queue.
LEMMA FirstOf ==
    ASSUME NEW S, NEW s \in Seq(S), s # <<>>
    PROVE  /\ Head(s) = s[1] /\ Tail(s) \in Seq(S) /\ LastOf(s) \in S
           /\ Len(s) = 1 => Tail(s) = <<>> /\ LastOf(s) = Head(s)
           /\ Len(s) # 1 => Tail(s) # <<>> /\ LastOf(Tail(s)) = LastOf(s)
           /\ Len(s) = 2 => Len(Tail(s)) = 1 /\ Tail(s)[1] = s[2]
           /\ \A n \in DOMAIN Tail(s) : n + 1 \in DOMAIN s /\ Tail(s)[n] = s[n + 1]
           /\ 1 \in DOMAIN s
  <1>1. /\ Len(s) \in Nat \ {0} /\ DOMAIN s = 1..Len(s) /\ \A n \in DOMAIN s : s[n] \in S
    BY EmptySeq, LenProperties
  <1>2. /\ Head(s) = s[1] /\ Tail(s) \in Seq(S) /\ Len(Tail(s)) = Len(s) - 1
        /\ \A i \in 1..Len(Tail(s)) : Tail(s)[i] = s[i + 1]
    BY HeadTailProperties
  <1>3. Len(Tail(s)) \in Nat /\ DOMAIN Tail(s) = 1..Len(Tail(s))
    BY <1>2, LenProperties
  <1>4. LastOf(s) \in S /\ 1 \in DOMAIN s
    BY <1>1 DEF LastOf
  <1>5. Len(s) = 1 => Tail(s) = <<>> /\ LastOf(s) = Head(s)
    <2> DEFINE t == Tail(s)
    <2>1. t \in Seq(S) /\ Len(t) = Len(s) - 1
      BY <1>2
    <2>2. Len(s) = 1 => Len(t) = 0
      BY <2>1
    <2> HIDE DEF t
    <2>3. Len(t) = 0 => t = <<>>
      BY <2>1
    <2>4. Len(s) = 1 => LastOf(s) = Head(s)
      BY <1>2 DEF LastOf
    <2> QED
      BY <2>2, <2>3, <2>4 DEF t
  <1>6. Len(s) # 1 => Tail(s) # <<>> /\ LastOf(Tail(s)) = LastOf(s)
    <2> SUFFICES ASSUME Len(s) # 1 PROVE Tail(s) # <<>> /\ LastOf(Tail(s)) = LastOf(s)
      OBVIOUS
    <2>1. Len(Tail(s)) \in Nat \ {0} /\ Len(Tail(s)) + 1 = Len(s)
      BY <1>1, <1>2, <1>3
    <2>2. Tail(s) # <<>>
      <3>1. Tail(s) = <<>> => Len(Tail(s)) = Len(<<>>)
        OBVIOUS
      <3>2. Len(<<>>) = 0
        OBVIOUS
      <3> HIDE DEF LastOf
      <3> QED
        BY <2>1, <3>1, <3>2
    <2>3. Tail(s)[Len(Tail(s))] = s[Len(Tail(s)) + 1]
      BY <1>2, <2>1
    <2> QED
      BY <2>1, <2>2, <2>3 DEF LastOf
  <1>7. Len(s) = 2 => Len(Tail(s)) = 1 /\ Tail(s)[1] = s[2]
    BY <1>2
  <1>8. \A n \in DOMAIN Tail(s) : n + 1 \in DOMAIN s /\ Tail(s)[n] = s[n + 1]
    BY <1>1, <1>2, <1>3
  <1> QED
    BY <1>2, <1>4, <1>5, <1>6, <1>7, <1>8

\* Two queues in a row end as the second does.
LEMMA LastOfBoth ==
    ASSUME NEW S, NEW T, NEW s \in Seq(S), NEW t \in Seq(T), t # <<>>
    PROVE  /\ s \o t # <<>> /\ LastOf(s \o t) = LastOf(t)
           /\ \A n \in DOMAIN (s \o t) : (\E k \in DOMAIN s : (s \o t)[n] = s[k])
                                      \/ (\E k \in DOMAIN t : (s \o t)[n] = t[k])
  <1> DEFINE U == S \cup T
  <1>1. s \in Seq(U) /\ t \in Seq(U)
    BY SequencesGrow
  <1> HIDE DEF U
  <1>2. /\ s \o t \in Seq(U) /\ Len(s \o t) = Len(s) + Len(t)
        /\ \A i \in 1..Len(s) + Len(t) : (s \o t)[i] = IF i <= Len(s) THEN s[i] ELSE t[i - Len(s)]
    BY <1>1, ConcatProperties
  <1>3. /\ Len(t) \in Nat \ {0} /\ Len(s) \in Nat /\ DOMAIN s = 1..Len(s) /\ DOMAIN t = 1..Len(t)
        /\ DOMAIN (s \o t) = 1..Len(s) + Len(t)
    BY <1>1, <1>2, EmptySeq, LenProperties
  <1>4. LastOf(s \o t) = LastOf(t) /\ s \o t # <<>>
    <2>1. (s \o t)[Len(s) + Len(t)] = t[Len(s) + Len(t) - Len(s)]
      BY <1>2, <1>3
    <2> QED
      BY <1>2, <1>3, <2>1 DEF LastOf
  <1>5. ASSUME NEW n \in DOMAIN (s \o t)
        PROVE  (\E k \in DOMAIN s : (s \o t)[n] = s[k]) \/ (\E k \in DOMAIN t : (s \o t)[n] = t[k])
    <2>1. CASE n <= Len(s)
      BY <1>2, <1>3, <1>5, <2>1
    <2>2. CASE ~(n <= Len(s))
      <3>1. n - Len(s) \in DOMAIN t /\ (s \o t)[n] = t[n - Len(s)]
        BY <1>2, <1>3, <1>5, <2>2
      <3> QED
        BY <3>1
    <2> QED
      BY <2>1, <2>2
  <1> QED
    BY <1>4, <1>5

\* What is first of what is asked of the server tells the rest.
LEMMA InFlightFirst ==
    ASSUME NEW S, NEW s \in Seq(S), NEW d, s # <<>>, InFlight(s, d)
    PROVE  /\ Head(s).type \in {"start", "resume", "submit", "complete", "repeat"}
           /\ Head(s).type = "start" => s = Start0 /\ d.state = "preparing" /\ Len(s) = 1
           /\ Head(s).type = "resume" => s = Resume0 /\ Len(s) = 1
           /\ Head(s).type = "repeat" => Len(s) = 1 /\ Repeats(Head(s), d)
           /\ Head(s).type = "submit" =>
                 /\ Len(s) = 2 /\ Submits(Head(s), d) /\ Completes(s[2], d)
                 /\ Head(s).answer = s[2].answer
           /\ Head(s).type = "complete" =>
                 /\ Len(s) = 1 /\ Completes(Head(s), d)
                 /\ d.state = "awaiting_answer" /\ Recording(d, Head(s).answer) # {}
           /\ Head(s).type \in {"start", "resume"} <=> s \in {Start0, Resume0}
           /\ Head(s).type # "start" /\ Head(s).type # "resume" => Head(s).sequence = d.sequence
  <1>1. Head(s) = s[1]
    BY FirstOf
  <1>2. /\ Len(Start0) = 1 /\ Start0[1].type = "start"
        /\ Len(Resume0) = 1 /\ Resume0[1].type = "resume"
    BY DEF Start0, Resume0, First
  <1> QED
    BY <1>1, <1>2 DEF InFlight, Repeats, Submits, Completes

-----------------------------------------------------------------------------
(* What the applicant does *)

\* A page that shows the same question, and lets the applicant answer no other, is as settled.
LEMMA SameSettled ==
    ASSUME NEW r, NEW e, NEW d, e.place = r.place,
           e.phase = "answering" /\ e.id # 0 =>
              r.phase = "answering" /\ e.id = r.id /\ e.question = r.question,
           Settled(r, d)
    PROVE  Settled(e, d)
  BY DEF Settled

\* Before a question is asked the page has none.
LEMMA SettledBefore ==
    ASSUME RoomIInv, db.state = "preparing"
    PROVE  Settled(room, db)
  <1>1. Questions(db) = {} /\ room \in Pages(db)
    BY ClientTypes, QuestionNumbers DEF Client
  <1>2. room.place = 0 /\ room.id = 0
    BY <1>1 DEF Pages, PlaceIn
  <1> QED
    BY <1>2 DEF Settled

\* Steps that only change the page.
LEMMA WaitsAlike ==
    ASSUME Waiting, UNCHANGED <<db, conn, socket, toServer, toRoom>>,
           Settled(room, db) => Settled(room', db)
    PROVE  Waiting'
  <1>1. InFlight(toServer, db)' /\ Opens' /\ Closing' /\ WrittenUnder(db') /\ db'.state # "paused"
    BY DEF Waiting, Opens, Closing
  <1>2. Settling'
    BY DEF Waiting, Settling, Brings
  <1> QED
    BY <1>1, <1>2 DEF Waiting

\* Steps that end with a closed socket.
LEMMA WaitsClosed ==
    ASSUME Waiting, UNCHANGED <<db, toServer>>, socket'.state = "closed"
    PROVE  Waiting'
  BY DEF Waiting, Opens, Settling, Closing

\* While nothing is under way the page of an open socket is where the session is.
LEMMA QuietIsSettled ==
    ASSUME RoomIInv, Waiting, Quiet, socket.state = "open"
    PROVE  /\ conn = "open" /\ toServer = <<>> /\ toRoom = <<>>
           /\ socket.sequence = db.sequence /\ Settled(room, db)
  <1>1. toServer = <<>> /\ toRoom = <<>>
    BY DEF Quiet, wire
  <1>2. conn = "open"
    BY <1>1, ClientTypes DEF Waiting, Closing
  <1>3. toServer \notin {Start0, Resume0}
    BY <1>1 DEF Start0, Resume0
  <1>4. CaughtUp(socket.sequence, toRoom, db) /\ Brings(toServer, toRoom, room, db)
    BY <1>2, <1>3 DEF Waiting, Settling
  <1> QED
    BY <1>1, <1>2, <1>4 DEF CaughtUp, Brings

\* What is sent then is all that is under way.
LEMMA SendWaits ==
    ASSUME RoomIInv, Waiting, Quiet, NEW S, NEW messages \in Seq(S), Send(messages),
           UNCHANGED vars, Settled(room, db) => Settled(room', db),
           socket.state = "open" =>
              InFlight(messages, db) /\ messages \notin {Start0, Resume0}
    PROVE  Waiting'
  <1>1. socket.state # "connecting" /\ UNCHANGED <<db, conn>>
    BY DEF Quiet, vars
  <1>2. CASE socket.state = "open"
    <2>1. /\ conn = "open" /\ toServer = <<>> /\ toRoom = <<>>
          /\ socket.sequence = db.sequence /\ Settled(room, db)
      BY <1>2, QuietIsSettled
    <2>2. toServer' = toServer \o messages /\ UNCHANGED <<socket, toRoom>>
      BY <1>2, <2>1 DEF Send
    <2>3. toServer' = messages
      BY <2>1, <2>2, ConcatEmptySeq
    <2>4. Settling'
      <3>1. CaughtUp(socket.sequence, toRoom, db) /\ Brings(messages, toRoom, room', db)
        BY <2>1 DEF CaughtUp, Brings
      <3> QED
        BY <1>1, <1>2, <2>2, <2>3, <3>1 DEF Settling
    <2> QED
      BY <1>1, <1>2, <2>1, <2>2, <2>3, <2>4 DEF Waiting, Opens, Closing
  <1>3. CASE socket.state # "open"
    <2>1. UNCHANGED <<db, conn, socket, toServer, toRoom>>
      BY <1>1, <1>3 DEF Send, wire
    <2> QED
      BY <2>1, WaitsAlike
  <1> QED
    BY <1>2, <1>3

\* What the applicant who waits does.
LEMMA ButtonsWait ==
    ASSUME RoomIInv, Waiting, ~mishaps'.hasty,
           StartSession \/ AskSnapshot \/ ApplySnapshot \/ Write \/ CompleteAnswer
              \/ RepeatQuestion \/ Leave
    PROVE  Waiting'
  <1>1. room \in Pages(db) /\ db \in Rows /\ Client
    BY ClientTypes DEF Client
  <1>2. CASE StartSession
    <2>1. /\ ~room.known /\ UNCHANGED <<db, conn, toServer, toRoom>>
          /\ socket' = Opening(Start0)
      BY <1>2 DEF StartSession, wire, vars, Start0
    <2>2. socket'.state = "connecting" /\ socket'.unsent = Start0
      BY <2>1 DEF Opening
    <2>3. conn = "closed" /\ db.state = "preparing"
      BY <1>1, <2>1 DEF Client
    <2> QED
      BY <2>1, <2>2, <2>3 DEF Waiting, Opens, Settling, Closing
  <1>3. CASE AskSnapshot
    <2>1. UNCHANGED <<db, conn, socket, toServer, toRoom>>
      BY <1>3 DEF AskSnapshot, wire, vars
    <2>2. /\ room'.place = room.place /\ room'.phase = room.phase /\ room'.id = room.id
          /\ room'.question = room.question
      BY <1>1, <1>3 DEF AskSnapshot, Pages
    <2> QED
      BY <2>1, <2>2, SameSettled, WaitsAlike
  <1>4. CASE ApplySnapshot
    <2>1. UNCHANGED <<db, conn, toServer>> /\ socket' = Opening(Resume0)
      BY <1>4 DEF ApplySnapshot, vars, Resume0
    <2>2. socket'.state = "connecting" /\ socket'.unsent = Resume0
      BY <2>1 DEF Opening
    <2> QED
      BY <2>1, <2>2 DEF Waiting, Opens, Settling, Closing
  <1>5. CASE Write
    <2>1. UNCHANGED <<db, conn, socket, toServer, toRoom>>
      BY <1>5 DEF Write, wire, vars
    <2>2. /\ room'.place = room.place /\ room'.phase = room.phase /\ room'.id = room.id
          /\ room'.question = room.question
      BY <1>1, <1>5 DEF Write, Pages
    <2> QED
      BY <2>1, <2>2, SameSettled, WaitsAlike
  <1>6. CASE CompleteAnswer
    <2> DEFINE submit == Message("submit", room.id, room.draft, 0, 0)
               complete == Message("complete", room.id, 0, 0, room.media)
               messages == <<submit, complete>>
    <2>1. /\ room.id # 0 /\ room.draft # 0 /\ room.phase = "answering" /\ Send(messages)
          /\ room' = [room EXCEPT !.phase = "processing"] /\ UNCHANGED vars
      BY <1>6 DEF CompleteAnswer, CanAnswer
    <2>2. Quiet
      <3>1. ~Quiet => Happens(TRUE)
        BY <1>6 DEF CompleteAnswer
      <3>2. Happens(TRUE) => mishaps' = [number |-> mishaps.number + 1, hasty |-> TRUE]
        BY DEF Happens
      <3>3. mishaps' = [number |-> mishaps.number + 1, hasty |-> TRUE] => mishaps'.hasty = TRUE
        OBVIOUS
      <3> QED
        BY <3>1, <3>2, <3>3, Zenon
    <2>3. room'.place = room.place /\ room'.phase = "processing"
      BY <1>1, <2>1 DEF Pages
    <2>4. Settled(room, db) => Settled(room', db)
      BY <2>3, SameSettled
    <2>5. ASSUME socket.state = "open"
          PROVE  InFlight(messages, db) /\ messages \notin {Start0, Resume0}
      <3>1. socket.sequence = db.sequence /\ Settled(room, db)
        BY <2>2, <2>5, QuietIsSettled
      <3>2. room.draft = room.question
        BY <1>1, <2>1 DEF Pages
      <3>3. db.state = "awaiting_answer" => ToLast(db, room.id) /\ room.draft = Number(db)
        BY <2>1, <3>1, <3>2 DEF Settled
      <3>4. /\ submit.type = "submit" /\ submit.sequence = db.sequence
            /\ submit.answer = room.id /\ submit.text = room.draft
            /\ complete.type = "complete" /\ complete.sequence = db.sequence
            /\ complete.answer = room.id
        BY <3>1 DEF Message
      <3> HIDE DEF submit, complete
      <3>5. Submits(submit, db) /\ Completes(complete, db)
        BY <3>3, <3>4 DEF Submits, Completes
      <3>6. Len(messages) = 2 /\ messages[1] = submit /\ messages[2] = complete
        OBVIOUS
      <3>7. messages \notin {Start0, Resume0}
        BY <3>6 DEF Start0, Resume0
      <3> HIDE DEF messages
      <3> QED
        BY <3>4, <3>5, <3>6, <3>7 DEF InFlight
    <2>6. messages \in Seq({submit, complete})
      <3> HIDE DEF submit, complete
      <3> QED
        OBVIOUS
    <2> HIDE DEF messages, submit, complete
    <2> QED
      BY <2>1, <2>2, <2>4, <2>5, <2>6, SendWaits
  <1>7. CASE RepeatQuestion
    <2> DEFINE repeat == Message("repeat", 0, 0, room.place, 0)
               messages == <<repeat>>
    <2>1. room.place # 0 /\ Send(messages) /\ room' = room /\ UNCHANGED vars
      BY <1>7 DEF RepeatQuestion
    <2>2. Quiet
      BY <1>7 DEF RepeatQuestion, Happens
    <2>3. ASSUME socket.state = "open"
          PROVE  InFlight(messages, db) /\ messages \notin {Start0, Resume0}
      <3>1. socket.sequence = db.sequence /\ Settled(room, db)
        BY <2>2, <2>3, QuietIsSettled
      <3>2. db.state # "completed" => room.place = LastQuestion(db)
        BY <2>1, <3>1 DEF Settled
      <3>3. repeat.type = "repeat" /\ repeat.sequence = db.sequence /\ repeat.place = room.place
        BY <3>1 DEF Message
      <3> HIDE DEF repeat
      <3>4. Repeats(repeat, db)
        BY <3>2, <3>3 DEF Repeats
      <3>5. Len(messages) = 1 /\ messages[1] = repeat
        OBVIOUS
      <3>6. messages \notin {Start0, Resume0}
        BY <3>3, <3>5 DEF Start0, Resume0, First
      <3> HIDE DEF messages
      <3> QED
        BY <3>4, <3>5, <3>6 DEF InFlight
    <2>4. messages \in Seq({repeat})
      <3> HIDE DEF repeat
      <3> QED
        OBVIOUS
    <2> HIDE DEF messages, repeat
    <2> QED
      BY <2>1, <2>2, <2>3, <2>4, SendWaits
  <1>8. CASE Leave
    <2>1. UNCHANGED <<db, toServer>> /\ socket'.state = "closed"
      BY <1>1, <1>8 DEF Leave, vars, wire, Client, Sockets
    <2> QED
      BY <2>1, WaitsClosed
  <1> QED
    BY <1>2, <1>3, <1>4, <1>5, <1>6, <1>7, <1>8

\* Connections that open and end, and the recorder.
LEMMA ConnectionsWait ==
    ASSUME RoomIInv, Waiting,
           Drop \/ Reload \/ ReplacedCloses \/ Accept \/ EndConnection \/ RecordChunk \/ Uploaded
    PROVE  Waiting'
  <1>1. room \in Pages(db) /\ socket \in Sockets(db) /\ Client
    BY ClientTypes DEF Client
  <1>2. CASE Drop \/ Reload
    <2>1. UNCHANGED <<db, toServer>> /\ socket' = Closed
      BY <1>2 DEF Drop, Reload, vars
    <2>2. Closed.state = "closed"
      BY <1>1, ClosedIsASocket
    <2> QED
      BY <2>1, <2>2, WaitsClosed
  <1>3. CASE ReplacedCloses
    <2>1. UNCHANGED <<db, conn, socket, toServer, toRoom>>
      BY <1>3 DEF ReplacedCloses, wire, vars
    <2>2. room'.place = room.place /\ room'.phase # "answering"
      BY <1>1, <1>3 DEF ReplacedCloses, Disconnected, Pages
    <2> QED
      BY <2>1, <2>2, SameSettled, WaitsAlike
  <1>4. CASE Accept
    <2>1. /\ socket.state = "connecting" /\ conn = "closed" /\ conn' = "open" /\ db' = db
          /\ toServer' = socket.unsent /\ toRoom' = <<>>
          /\ socket' = [socket EXCEPT !.state = "open", !.unsent = <<>>]
      BY <1>4 DEF Accept, Connect
    <2>2. socket'.state = "open"
      BY <1>1, <2>1 DEF Sockets
    <2>3. (toServer' = Start0 /\ db.state = "preparing") \/ toServer' = Resume0
      BY <2>1 DEF Waiting, Opens
    <2>4. InFlight(toServer', db)
      BY <2>3 DEF InFlight
    <2> QED
      BY <2>1, <2>2, <2>3, <2>4 DEF Waiting, Opens, Settling, Closing
  <1>5. CASE EndConnection
    <2>1. /\ socket.state # "open" /\ conn = "open" /\ conn' = "closed" /\ db' = db
          /\ toServer' = <<>> /\ UNCHANGED <<socket, toRoom>>
      BY <1>5 DEF EndConnection, Disconnect, Close, page
    <2>2. InFlight(toServer', db)
      BY <2>1 DEF InFlight
    <2> QED
      BY <2>1, <2>2 DEF Waiting, Opens, Settling, Closing
  <1>6. CASE RecordChunk
    <2>1. UNCHANGED <<db, conn, socket, toServer, toRoom, room>>
      BY <1>6 DEF RecordChunk, CreateRecordingUploadIntent, StoreChunk, page, wire
    <2> QED
      BY <2>1, WaitsAlike
  <1>7. CASE Uploaded
    <2>1. UNCHANGED <<db, conn, socket, toServer, toRoom>>
      BY <1>7 DEF Uploaded, wire, vars
    <2>2. /\ room'.place = room.place /\ room'.phase = room.phase /\ room'.id = room.id
          /\ room'.question = room.question
      BY <1>1, <1>7 DEF Uploaded, Pages
    <2> QED
      BY <2>1, <2>2, SameSettled, WaitsAlike
  <1> QED
    BY <1>2, <1>3, <1>4, <1>5, <1>6, <1>7

-----------------------------------------------------------------------------
(* The text in the rows *)

\* An element that none exceeds is the maximum.
LEMMA MaxIs ==
    ASSUME NEW S \in SUBSET Nat, NEW x \in S, \A y \in S : y <= x
    PROVE  Max(S) = x
  <1>1. Max(S) \in S /\ \A y \in S : y <= Max(S)
    BY MaxOfBounded
  <1>2. x <= Max(S) /\ Max(S) <= x /\ Max(S) \in Nat
    BY <1>1
  <1> QED
    BY <1>2

\* The last question before a place is one.
LEMMA LastBefore ==
    ASSUME NEW d, d \in Rows, NEW i \in Nat, Before(d, i) # {}
    PROVE  Max(Before(d, i)) \in Before(d, i) /\ Max(Before(d, i)) \in Questions(d)
  <1>1. Before(d, i) \in SUBSET Nat /\ \A q \in Before(d, i) : q <= i
    BY QuestionsAreFinite DEF Before
  <1>2. Max(Before(d, i)) \in Before(d, i)
    <2> DEFINE S == Before(d, i)
    <2> HIDE DEF S
    <2>1. S \in SUBSET Nat /\ S # {} /\ \A q \in S : q <= i
      BY <1>1 DEF S
    <2>2. Max(S) \in S
      BY <2>1, MaxOfBounded
    <2> QED
      BY <2>2 DEF S
  <1> QED
    BY <1>2 DEF Before

\* Rows with the same questions and the same texts.
LEMMA UnderSame ==
    ASSUME NEW d, NEW e, d \in Rows, DOMAIN e.turns = DOMAIN d.turns, WrittenUnder(d),
           Questions(e) = Questions(d), \A i \in Questions(d) : e.turns[i] = d.turns[i],
           \A i \in DOMAIN d.turns : e.turns[i].speaker = "applicant" =>
              d.turns[i].speaker = "applicant" /\ e.turns[i].text = d.turns[i].text
    PROVE  WrittenUnder(e)
  <1> SUFFICES ASSUME NEW i \in DOMAIN e.turns, e.turns[i].speaker = "applicant"
               PROVE  Before(e, i) # {} /\ e.turns[i].text = <<e.turns[Max(Before(e, i))].number>>
    BY DEF WrittenUnder
  <1>1. i \in DOMAIN d.turns /\ i \in Nat
    BY QuestionsAreFinite DEF Rows
  <1>2. Before(e, i) = Before(d, i) /\ e.turns[i].text = d.turns[i].text
        /\ d.turns[i].speaker = "applicant"
    BY <1>1 DEF Before
  <1>3. Before(d, i) # {} /\ d.turns[i].text = <<d.turns[Max(Before(d, i))].number>>
    BY <1>1, <1>2 DEF WrittenUnder
  <1>4. Max(Before(d, i)) \in Questions(d)
    BY <1>1, <1>3, LastBefore
  <1>5. e.turns[Max(Before(d, i))] = d.turns[Max(Before(d, i))]
    BY <1>4
  <1> QED
    BY <1>2, <1>3, <1>5

\* Rows with the same transcript.
LEMMA UnderTurns ==
    ASSUME NEW d, NEW e, e.turns = d.turns, WrittenUnder(d)
    PROVE  WrittenUnder(e)
  BY DEF WrittenUnder, Before, Questions

\* Finishing an answer changes no text.
LEMMA UnderFinalized ==
    ASSUME NEW d, d \in Rows, NEW a, WrittenUnder(d)
    PROVE  WrittenUnder(Finalized(d, a))
  <1> DEFINE e == Finalized(d, a)
  <1>1. e.turns = [i \in DOMAIN d.turns |->
            IF i \in Recording(d, a) THEN [d.turns[i] EXCEPT !.status = "final"] ELSE d.turns[i]]
    BY DEF Finalized, Rows
  <1>2. DOMAIN e.turns = DOMAIN d.turns
    BY <1>1
  <1>3. \A i \in DOMAIN d.turns :
           \/ e.turns[i] = d.turns[i]
           \/ d.turns[i].speaker = "applicant" /\ e.turns[i] = [d.turns[i] EXCEPT !.status = "final"]
    BY <1>1 DEF Recording, Places
  <1>4. \A i \in DOMAIN d.turns : d.turns[i] \in Turn
    BY DEF Rows
  <1>5. \A i \in DOMAIN d.turns :
           /\ e.turns[i].speaker = d.turns[i].speaker
           /\ d.turns[i].speaker = "applicant" => e.turns[i].text = d.turns[i].text
           /\ d.turns[i].speaker # "applicant" => e.turns[i] = d.turns[i]
    BY <1>3, <1>4 DEF Turn
  <1> HIDE DEF e
  <1>6. Questions(e) = Questions(d) /\ \A i \in Questions(d) : e.turns[i] = d.turns[i]
    BY <1>2, <1>5 DEF Questions
  <1> QED
    BY <1>2, <1>5, <1>6, UnderSame DEF e

\* A new question comes after everything that was written.
LEMMA UnderAsked ==
    ASSUME NEW d, d \in Rows, NEW number \in Nat \ {0}, NEW final, NEW media, WrittenUnder(d)
    PROVE  WrittenUnder(Asked(d, number, final, media))
  <1> DEFINE f == [d EXCEPT !.turns = Append(@, Question(number))]
             new == Len(d.turns) + 1
  <1>1. /\ DOMAIN f.turns = DOMAIN d.turns \cup {new} /\ new \notin DOMAIN d.turns /\ new \in Nat
        /\ \A i \in DOMAIN d.turns : f.turns[i] = d.turns[i]
        /\ f.turns[new] = Question(number) /\ f \in Rows
    <2>1. Question(number) \in Turn
      BY DEF Question, Turn
    <2> QED
      BY <2>1, AppendedTurn
  <1>2. DOMAIN d.turns = 1..Len(d.turns) /\ Len(d.turns) \in Nat
    BY DEF Rows
  <1>3. Asked(d, number, final, media).turns = f.turns
    BY DEF Asked, Checkpointed, Rows
  <1> HIDE DEF f
  <1>4. Questions(f) = Questions(d) \cup {new}
    BY <1>1 DEF Questions, Question
  <1>5. ASSUME NEW i \in DOMAIN f.turns, f.turns[i].speaker = "applicant"
        PROVE  Before(f, i) # {} /\ f.turns[i].text = <<f.turns[Max(Before(f, i))].number>>
    <2>1. i \in DOMAIN d.turns /\ d.turns[i].speaker = "applicant" /\ f.turns[i] = d.turns[i]
      BY <1>1, <1>5 DEF Question
    <2>2. i \in Nat /\ ~(new < i)
      BY <1>2, <2>1
    <2>3. Before(f, i) = Before(d, i)
      BY <1>4, <2>2 DEF Before
    <2>4. Before(d, i) # {} /\ d.turns[i].text = <<d.turns[Max(Before(d, i))].number>>
      BY <2>1 DEF WrittenUnder
    <2>5. Max(Before(d, i)) \in DOMAIN d.turns
      BY <2>2, <2>4, LastBefore DEF Questions
    <2> QED
      BY <1>1, <2>1, <2>3, <2>4, <2>5
  <1>6. WrittenUnder(f)
    BY <1>5 DEF WrittenUnder
  <1> QED
    BY <1>3, <1>6, UnderTurns

\* What is written for the last question is written under it, and leaves the answer to it
\* to be made final.
LEMMA UnderWritten ==
    ASSUME NEW d, NEW chunks, Base(d, chunks), WrittenUnder(d), LastQuestion(d) \in Questions(d),
           NEW a \in AnswerIds, ToLast(d, a), Number(d) \in Fragments
    PROVE  LET e == Written(d, a, <<Number(d)>>)
           IN  /\ WrittenUnder(e) /\ Recording(e, a) # {}
               /\ LastQuestion(e) = LastQuestion(d) /\ Number(e) = Number(d)
               /\ \A x : ToLast(d, x) => ToLast(e, x)
               /\ e.sequence = d.sequence /\ e.state = d.state
  <1> DEFINE text == <<Number(d)>>
             e == Written(d, a, text)
             n == LastQuestion(d)
             new == Len(d.turns) + 1
  <1>1. /\ d \in Rows /\ text \in Seq(Fragments) /\ d.turns \in Seq(Turn)
        /\ DOMAIN d.turns = 1..Len(d.turns) /\ Len(d.turns) \in Nat
        /\ n \in Questions(d) /\ n \in DOMAIN d.turns
    <2>1. d \in Rows /\ text \in Seq(Fragments) /\ n \in Questions(d)
      BY DEF Base
    <2> QED
      BY <2>1 DEF Rows, Questions
  <1>2. Base(e, chunks) /\ e \in Rows /\ Extends(d, e) /\ Finals(e) = Finals(d)
    <2>1. Base(e, chunks) /\ Extends(d, e) /\ SameStanding(d, e)
      BY <1>1, WrittenKeeps
    <2> QED
      BY <2>1 DEF SameStanding, Base
  <1>3. SameQuestions(d, e) /\ e.sequence = d.sequence
    <2>1. d.turns # <<>>
      BY <1>1
    <2> QED
      BY <1>1, <2>1, WrittenAsksNothing
  <1>4. e.state = d.state
    BY <1>1 DEF Written, Rows
  <1>5. Questions(e) = Questions(d) /\ \A i \in Questions(d) : e.turns[i] = d.turns[i]
    BY <1>3 DEF SameQuestions
  <1>6. LastQuestion(e) = n /\ Number(e) = Number(d)
    BY <1>1, <1>5 DEF LastQuestion, Number
  \* The turns of e: those of d, and what is written.
  <1>7. ASSUME NEW i \in DOMAIN e.turns, e.turns[i].speaker = "applicant"
        PROVE  /\ i \in Nat
               /\ \/ i \in DOMAIN d.turns /\ d.turns[i].speaker = "applicant"
                     /\ e.turns[i] = d.turns[i]
                  \/ i > n /\ e.turns[i].text = text /\ e.turns[i].answer = a
    <2>1. CASE Places(d, a) = {}
      <3>1. e = [d EXCEPT !.turns = Append(@, Answer(a, text))]
        BY <2>1 DEF Written
      <3>2. Answer(a, text) \in Turn
        BY <1>1 DEF Answer, Turn
      <3>3. /\ DOMAIN e.turns = DOMAIN d.turns \cup {new} /\ new \in Nat
            /\ \A k \in DOMAIN d.turns : e.turns[k] = d.turns[k]
            /\ e.turns[new] = Answer(a, text)
        <4> HIDE DEF text
        <4> QED
          BY <1>1, <3>1, <3>2, AppendedTurn
      <3>4. new > n
        BY <1>1
      <3> HIDE DEF e, new, text, n
      <3> QED
        BY <1>1, <1>7, <3>3, <3>4 DEF Answer
    <2>2. CASE Places(d, a) # {}
      <3>1. e.turns = [k \in DOMAIN d.turns |->
                IF k \in Recording(d, a) THEN [d.turns[k] EXCEPT !.text = text] ELSE d.turns[k]]
        BY <1>1, <2>2 DEF Written, Rows
      <3>2. i \in DOMAIN d.turns /\ i \in Nat /\ d.turns[i] \in Turn
        BY <1>1, <1>7, <3>1
      <3>3. CASE i \in Recording(d, a)
        <4>1. i \in Places(d, a) /\ d.turns[i].speaker = "applicant" /\ d.turns[i].answer = a
          BY <3>3 DEF Recording, Places
        <4>2. i > n
          BY <4>1 DEF ToLast
        <4>3. e.turns[i] = [d.turns[i] EXCEPT !.text = text]
          BY <3>1, <3>2, <3>3
        <4>4. e.turns[i].text = text /\ e.turns[i].answer = a
          BY <3>2, <4>1, <4>3 DEF Turn
        <4> QED
          BY <3>2, <4>2, <4>4
      <3>4. CASE i \notin Recording(d, a)
        BY <1>7, <3>1, <3>2, <3>4
      <3> QED
        BY <3>3, <3>4
    <2> QED
      BY <2>1, <2>2
  <1> HIDE DEF e
  <1>8. WrittenUnder(e)
    <2> SUFFICES ASSUME NEW i \in DOMAIN e.turns, e.turns[i].speaker = "applicant"
                 PROVE  Before(e, i) # {} /\ e.turns[i].text = <<e.turns[Max(Before(e, i))].number>>
      BY DEF WrittenUnder
    <2>1. Before(e, i) = Before(d, i)
      BY <1>5 DEF Before
    <2>2. CASE i \in DOMAIN d.turns /\ d.turns[i].speaker = "applicant" /\ e.turns[i] = d.turns[i]
      <3>1. Before(d, i) # {} /\ d.turns[i].text = <<d.turns[Max(Before(d, i))].number>>
        BY <2>2 DEF WrittenUnder
      <3>2. Max(Before(d, i)) \in Questions(d)
        BY <1>1, <1>7, <3>1, LastBefore
      <3> QED
        BY <1>5, <2>1, <2>2, <3>1, <3>2
    <2>3. CASE i > n /\ e.turns[i].text = text
      <3>1. Questions(d) \subseteq Nat /\ \A q \in Questions(d) : q <= n
        <4> DEFINE S == Questions(d) \cup {0}
        <4>1. S \in SUBSET Nat /\ S # {} /\ \A x \in S : x <= Len(d.turns)
          BY <1>1 DEF Questions
        <4> HIDE DEF S
        <4>2. \A y \in S : y <= Max(S)
          BY <1>1, <4>1, MaxOfBounded
        <4> QED
          BY <4>1, <4>2 DEF S, LastQuestion
      <3>2. Before(d, i) = Questions(d)
        BY <1>1, <1>7, <2>3, <3>1 DEF Before
      <3>3. Max(Questions(d)) = n
        BY <1>1, <3>1, MaxIs
      <3>4. Before(e, i) = Questions(d) /\ e.turns[n] = d.turns[n]
        BY <1>1, <1>5, <2>1, <3>2
      <3> QED
        BY <1>1, <2>3, <3>3, <3>4 DEF Number
    <2> QED
      BY <1>7, <2>2, <2>3
  <1>9. \A x : ToLast(d, x) => ToLast(e, x)
    <2> SUFFICES ASSUME NEW x, ToLast(d, x) PROVE ToLast(e, x)
      OBVIOUS
    <2>1. ASSUME NEW i \in Places(e, x)
          PROVE  i > n /\ i \notin Finals(e)
      <3>1. i \in DOMAIN e.turns /\ e.turns[i].speaker = "applicant" /\ e.turns[i].answer = x
        BY <2>1 DEF Places
      <3>2. CASE i \in DOMAIN d.turns /\ d.turns[i].speaker = "applicant" /\ e.turns[i] = d.turns[i]
        <4>1. i \in Places(d, x)
          BY <3>1, <3>2 DEF Places
        <4> QED
          BY <1>2, <4>1 DEF ToLast
      <3>3. CASE i > n /\ e.turns[i].text = text /\ e.turns[i].answer = a
        <4>1. x = a
          BY <3>1, <3>3
        <4>2. ASSUME i \in Finals(e)
              PROVE  FALSE
          <5>1. i \in Finals(d)
            BY <1>2, <4>2
          <5>2. i \in DOMAIN d.turns /\ e.turns[i] = d.turns[i]
            BY <1>2, <5>1 DEF Extends, Finals
          <5>3. i \in Places(d, a)
            BY <3>1, <4>1, <5>2 DEF Places
          <5> QED
            BY <5>1, <5>3 DEF ToLast
        <4> QED
          BY <3>3, <4>2
      <3> QED
        BY <1>7, <3>1, <3>2, <3>3
    <2> QED
      BY <1>6, <2>1 DEF ToLast
  <1>10. Recording(e, a) # {}
    <2>1. PICK i \in DOMAIN e.turns : e.turns[i].speaker = "applicant" /\ e.turns[i].answer = a
      <3>1. CASE Places(d, a) = {}
        <4>1. e = [d EXCEPT !.turns = Append(@, Answer(a, text))]
          BY <3>1 DEF Written, e
        <4>2. Answer(a, text) \in Turn /\ Answer(a, text).speaker = "applicant"
              /\ Answer(a, text).answer = a
          BY <1>1 DEF Answer, Turn
        <4>3. new \in DOMAIN e.turns /\ e.turns[new] = Answer(a, text)
          <5> HIDE DEF text
          <5> QED
            BY <1>1, <4>1, <4>2, AppendedTurn
        <4> HIDE DEF text, new
        <4> QED
          BY <4>2, <4>3
      <3>2. CASE Places(d, a) # {}
        <4>1. PICK k \in Places(d, a) : TRUE
          BY <3>2
        <4>2. e.turns = [j \in DOMAIN d.turns |->
                IF j \in Recording(d, a) THEN [d.turns[j] EXCEPT !.text = text] ELSE d.turns[j]]
          BY <1>1, <3>2 DEF Written, Rows, e
        <4>3. k \in DOMAIN d.turns /\ d.turns[k].speaker = "applicant" /\ d.turns[k].answer = a
              /\ d.turns[k] \in Turn
          BY <1>1, <4>1 DEF Places
        <4>4. e.turns[k].speaker = "applicant" /\ e.turns[k].answer = a /\ k \in DOMAIN e.turns
          BY <4>2, <4>3 DEF Turn
        <4> QED
          BY <4>4
      <3> QED
        BY <3>1, <3>2
    <2>2. i \in Places(e, a) /\ ToLast(e, a)
      BY <1>9, <2>1 DEF Places
    <2>3. i \notin Finals(e)
      BY <2>2 DEF ToLast
    <2>4. e.turns[i] \in Turn /\ e.turns[i].status # "final"
      BY <1>2, <2>1, <2>3 DEF Finals, Rows
    <2>5. e.turns[i].status = "recording"
      BY <2>1, <2>4 DEF Turn
    <2> QED
      BY <2>2, <2>5 DEF Recording
  <1> QED
    BY <1>3, <1>4, <1>6, <1>8, <1>9, <1>10 DEF e

-----------------------------------------------------------------------------
(* What the server answers *)

\* A reply that tells the sequence and brings the page where the session is.
LEMMA ReplyWaits ==
    ASSUME RoomIInv, Waiting, conn = "open", toServer # <<>>, NEW d, NEW T, NEW messages \in Seq(T),
           Reply(d, messages), messages # <<>>, LastOf(messages).sequence = d.sequence,
           WrittenUnder(d), d.state # "paused", InFlight(Tail(toServer), d),
           Tail(toServer) \notin {Start0, Resume0},
           \/ Tail(toServer) = <<>> /\ Shows(LastOf(messages), d)
           \/ /\ \A n \in DOMAIN messages : Mute(messages[n])
              /\ \/ Settled(room, db) => Settled(room, d)
                 \/ Settled(room, d)
              /\ toServer \in {Start0, Resume0} => Settled(room, d)
    PROVE  Waiting'
  <1>1. /\ db' = d /\ conn' = "open" /\ toServer' = Tail(toServer) /\ toRoom' = ToRoom(messages)
        /\ UNCHANGED <<room, socket>>
    BY DEF Reply, Respond, page
  <1>2. toServer \in Seq(MessagesTo(db, heard)) /\ toRoom \in Seq(RepliesFrom(db, db.sequence))
    BY ClientTypes DEF Client
  <1>3. Opens'
    BY <1>1 DEF Waiting, Opens
  <1>4. ASSUME socket.state = "open"
        PROVE  CaughtUp(socket.sequence, toRoom', d) /\ Brings(toServer', toRoom', room, d)
    <2>1. toRoom' = toRoom \o messages
      BY <1>1, <1>4 DEF ToRoom
    <2> DEFINE all == toRoom \o messages
    <2>2. /\ all # <<>> /\ LastOf(all) = LastOf(messages)
          /\ \A n \in DOMAIN all : (\E k \in DOMAIN toRoom : all[n] = toRoom[k])
                                \/ (\E k \in DOMAIN messages : all[n] = messages[k])
      BY <1>2, LastOfBoth
    <2> HIDE DEF all
    <2>3. CaughtUp(socket.sequence, all, d)
      BY <2>2 DEF CaughtUp
    <2>4. CASE Tail(toServer) = <<>> /\ Shows(LastOf(messages), d)
      BY <1>1, <2>1, <2>2, <2>3, <2>4 DEF Brings, all
    <2>5. CASE /\ \A n \in DOMAIN messages : Mute(messages[n])
               /\ \/ Settled(room, db) => Settled(room, d)
                  \/ Settled(room, d)
               /\ toServer \in {Start0, Resume0} => Settled(room, d)
      <3>1. CASE toServer \in {Start0, Resume0}
        <4>1. toRoom = <<>>
          BY <1>4, <3>1 DEF Waiting, Settling
        <4>2. \A n \in DOMAIN all : Mute(all[n])
          BY <2>2, <2>5, <4>1
        <4>3. Brings(toServer', all, room, d)
          BY <2>5, <3>1, <4>2 DEF Brings
        <4> QED
          BY <2>1, <2>3, <4>3 DEF all
      <3>2. CASE toServer \notin {Start0, Resume0}
        <4>1. Settled(room, db) /\ \A n \in DOMAIN toRoom : Mute(toRoom[n])
          BY <1>4, <3>2 DEF Waiting, Settling, Brings
        <4>2. \A n \in DOMAIN all : Mute(all[n])
          BY <2>2, <2>5, <4>1
        <4>3. Brings(toServer', all, room, d)
          BY <2>5, <4>1, <4>2 DEF Brings
        <4> QED
          BY <2>1, <2>3, <4>3 DEF all
      <3> QED
        BY <3>1, <3>2
    <2> QED
      BY <2>4, <2>5
  <1>5. Settling' /\ Closing'
    BY <1>1, <1>4 DEF Settling, Closing
  <1> QED
    BY <1>1, <1>3, <1>5 DEF Waiting

\* A handler that raises.
LEMMA RaiseWaits ==
    ASSUME RoomIInv, Waiting, conn = "open", NEW d, Raise(d), WrittenUnder(d), d.state # "paused"
    PROVE  Waiting'
  <1> DEFINE close == [FromServer("close", d, 0) EXCEPT !.sequence = 0]
  <1>1. /\ db' = d /\ conn' = "closed" /\ toServer' = <<>> /\ toRoom' = ToRoom(<<close>>)
        /\ UNCHANGED <<room, socket>>
    BY DEF Raise, Close, page
  <1>2. toRoom \in Seq(RepliesFrom(db, db.sequence))
    BY ClientTypes DEF Client
  <1>3. close.type = "close"
    BY DEF FromServer
  <1> HIDE DEF close
  <1> DEFINE t == <<close>>
  <1>4. t \in Seq({close}) /\ t # <<>> /\ LastOf(t) = close /\ toRoom' = ToRoom(t)
    BY <1>1 DEF LastOf
  <1> HIDE DEF t
  <1>5. socket.state = "open" => toRoom' # <<>> /\ LastOf(toRoom').type = "close"
    <2>1. toRoom \o t # <<>> /\ LastOf(toRoom \o t) = close
      BY <1>2, <1>4, LastOfBoth
    <2> QED
      BY <1>3, <1>4, <2>1 DEF ToRoom
  <1>6. InFlight(toServer', d)
    BY <1>1 DEF InFlight
  <1>7. Opens' /\ Settling' /\ Closing'
    BY <1>1, <1>5 DEF Waiting, Opens, Settling, Closing
  <1> QED
    BY <1>1, <1>6, <1>7 DEF Waiting

\* The page that takes a reply in.
LEMMA ReceiveWaits ==
    ASSUME RoomIInv, ~IsFiniteSet(AnswerIds), Waiting, Receive
    PROVE  Waiting'
  <1> DEFINE m == Head(toRoom)
             S == RepliesFrom(db, db.sequence)
             r == [room EXCEPT !.last = m.sequence]
  <1>1. /\ toRoom # <<>> /\ toRoom' = Tail(toRoom) /\ UNCHANGED <<db, conn, toServer>>
        /\ \/ m.type = "close" /\ socket' = Closed
           \/ /\ m.type # "close" /\ m.sequence < socket.sequence
              /\ UNCHANGED <<room, socket>>
           \/ /\ m.type # "close" /\ ~(m.sequence < socket.sequence)
              /\ socket' = [socket EXCEPT !.sequence = m.sequence]
              /\ room' = IF m.sequence < room.last THEN room ELSE Understood(r, m)
    BY DEF Receive, vars
  <1>2. /\ room \in Pages(db) /\ socket \in Sockets(db) /\ db \in Rows /\ saved \in Rows
        /\ toRoom \in Seq(S) /\ db.sequence \in Nat /\ Client
        /\ toServer \in Seq(MessagesTo(db, heard)) /\ socket.unsent \in Seq(MessagesTo(db, 0))
    BY ClientTypes DEF Client, Sockets
  <1>3. NewId \in AnswerIds /\ Places(db, NewId) = {}
    BY <1>2, NewIdIsNew
  <1>4. /\ m \in S /\ m = toRoom[1] /\ LastOf(toRoom) \in S
        /\ Len(toRoom) = 1 => Tail(toRoom) = <<>> /\ LastOf(toRoom) = m
        /\ Len(toRoom) # 1 => Tail(toRoom) # <<>> /\ LastOf(Tail(toRoom)) = LastOf(toRoom)
        /\ \A n \in DOMAIN Tail(toRoom) :
              n + 1 \in DOMAIN toRoom /\ Tail(toRoom)[n] = toRoom[n + 1]
        /\ 1 \in DOMAIN toRoom
    BY <1>1, <1>2, FirstOf, HeadTailProperties
  <1>5. /\ socket.sequence \in 0..db.sequence /\ room.last \in 0..db.sequence
        /\ m.sequence \in 0..db.sequence
        /\ m.type = "question.ready" => m.place # 0 /\ m.question = db.turns[m.place].number
    BY <1>2, <1>4 DEF Sockets, Pages, RepliesFrom
  <1> HIDE DEF m
  <1>6. CASE socket'.state = "closed"
    BY <1>1, <1>6, WaitsClosed
  <1>7. CASE socket'.state # "closed"
    <2>1. /\ m.type # "close" /\ socket'.state = socket.state /\ socket.state = "open"
          /\ \/ m.sequence < socket.sequence /\ UNCHANGED <<room, socket>>
             \/ /\ ~(m.sequence < socket.sequence) /\ socket'.sequence = m.sequence
                /\ room' = IF m.sequence < room.last THEN room ELSE Understood(r, m)
      <3>1. Closed.state = "closed" /\ socket.state # "connecting"
        BY <1>1, <1>2, ClosedIsASocket DEF Client
      <3>2. socket'.state = socket.state
        BY <1>1, <1>2, <1>7, <3>1 DEF Sockets
      <3>3. socket.state = "open"
        BY <1>2, <1>7, <3>1, <3>2 DEF Sockets
      <3>4. socket' = [socket EXCEPT !.sequence = m.sequence] => socket'.sequence = m.sequence
        BY <1>2 DEF Sockets
      <3> QED
        BY <1>1, <1>7, <3>1, <3>2, <3>3, <3>4
    <2>2. CASE conn = "closed"
      <3>1. LastOf(toRoom).type = "close"
        BY <2>1, <2>2 DEF Waiting, Closing
      <3>2. Len(toRoom) # 1
        BY <1>4, <2>1, <3>1
      <3>3. toRoom' # <<>> /\ LastOf(toRoom').type = "close"
        BY <1>1, <1>4, <3>1, <3>2
      <3> QED
        BY <1>1, <2>1, <2>2, <3>3 DEF Waiting, Opens, Settling, Closing
    <2>3. CASE conn = "open"
      <3>1. /\ toServer \notin {Start0, Resume0} /\ LastOf(toRoom).sequence = db.sequence
            /\ Brings(toServer, toRoom, room, db)
        BY <1>1, <2>1, <2>3 DEF Waiting, Settling, CaughtUp
      <3>2. Len(toRoom) = 1 =>
               /\ socket'.sequence = db.sequence
               /\ room' = Understood(r, m)
        BY <1>4, <1>5, <2>1, <3>1
      <3>3. CaughtUp(socket'.sequence, toRoom', db)
        BY <1>1, <1>4, <3>1, <3>2 DEF CaughtUp
      <3>4. /\ r.place = room.place /\ r.phase = room.phase /\ r.id = room.id
            /\ r.question = room.question
        BY <1>2 DEF Pages
      <3>5. r \in Pages(db)
        BY <1>2, <1>5 DEF Pages
      <3> HIDE DEF r
      <3>6. Mute(m) => \/ Understood(r, m) = r
                       \/ /\ Understood(r, m).place = r.place
                          /\ Understood(r, m).phase # "answering"
        <4> SUFFICES ASSUME Mute(m)
                     PROVE  \/ Understood(r, m) = r
                            \/ /\ Understood(r, m).place = r.place
                               /\ Understood(r, m).phase # "answering"
          OBVIOUS
        <4>1. CASE m.type = "resume.snapshot"
          <5>1. Understood(r, m) = [r EXCEPT !.phase = PhaseOf(m.state), !.media = Max({@, m.media})]
            BY <4>1 DEF Understood
          <5>2. PhaseOf(m.state) # "answering"
            BY <4>1 DEF Mute
          <5> QED
            BY <3>5, <5>1, <5>2 DEF Pages
        <4>2. CASE m.type # "resume.snapshot"
          <5>1. PICK phase : phase # "answering"
                             /\ Understood(r, m) \in {r, [r EXCEPT !.phase = phase]}
            <6>1. CASE m.type = "session.state_changed"
              BY <6>1 DEF Understood, Mute
            <6>2. CASE m.type = "session.paused"
              <7>1. Understood(r, m) = [r EXCEPT !.phase = "paused"]
                BY <6>2 DEF Understood
              <7> QED
                BY <7>1
            <6>3. CASE m.type = "session.completed"
              <7>1. Understood(r, m) = [r EXCEPT !.phase = "completed"]
                BY <6>3 DEF Understood
              <7> QED
                BY <7>1
            <6>4. CASE m.type = "question.preparing"
              <7>1. Understood(r, m) = [r EXCEPT !.phase = "processing"]
                BY <6>4 DEF Understood
              <7> QED
                BY <7>1
            <6>5. CASE m.type \notin {"session.state_changed", "session.paused",
                                      "session.completed", "question.preparing"}
              <7>1. Understood(r, m) = r
                BY <4>2, <6>5 DEF Understood, Mute
              <7> QED
                BY <7>1
            <6> QED
              BY <6>1, <6>2, <6>3, <6>4, <6>5
          <5> QED
            BY <3>5, <5>1 DEF Pages
        <4> QED
          BY <4>1, <4>2
      <3>7. ASSUME Settled(room, db), Mute(m)
            PROVE  Settled(room', db)
        <4>1. CASE room' = room
          BY <3>7, <4>1
        <4>2. CASE room' = Understood(r, m)
          <5>1. Settled(r, db)
            BY <3>4, <3>7, SameSettled
          <5>2. CASE Understood(r, m) = r
            BY <4>2, <5>1, <5>2
          <5>3. CASE /\ Understood(r, m).place = r.place
                     /\ Understood(r, m).phase # "answering"
            BY <4>2, <5>1, <5>3, SameSettled
          <5> QED
            BY <3>6, <3>7, <5>2, <5>3
        <4> QED
          BY <2>1, <4>1, <4>2
      <3>8. Brings(toServer, toRoom', room', db)
        <4>1. CASE toServer = <<>> /\ Shows(LastOf(toRoom), db)
          <5>1. CASE Len(toRoom) # 1
            BY <1>1, <1>4, <4>1, <5>1 DEF Brings
          <5>2. CASE Len(toRoom) = 1
            <6>1. /\ m.type = "question.ready" /\ room' = ShownIn(r, m)
                  /\ db.state # "completed" => db.state = "awaiting_answer"
                                                  /\ m.place = LastQuestion(db)
              BY <1>4, <3>2, <4>1, <5>2 DEF Shows, Understood
            <6>2. /\ room'.place = m.place /\ room'.id = NewId /\ room'.question = m.question
              <7> HIDE DEF NewId
              <7> QED
                BY <3>5, <6>1 DEF ShownIn, Pages
            <6>3. ToLast(db, NewId)
              BY <1>3 DEF ToLast
            <6>4. Settled(room', db)
              BY <1>5, <6>1, <6>2, <6>3 DEF Settled, Number
            <6>5. DOMAIN toRoom' = {}
              BY <1>1, <1>4, <5>2
            <6> QED
              BY <6>4, <6>5 DEF Brings
          <5> QED
            BY <5>1, <5>2
        <4>2. CASE Settled(room, db) /\ \A n \in DOMAIN toRoom : Mute(toRoom[n])
          <5>1. Mute(m) /\ \A n \in DOMAIN toRoom' : Mute(toRoom'[n])
            BY <1>1, <1>4, <4>2
          <5> QED
            BY <3>7, <4>2, <5>1 DEF Brings
        <4> QED
          BY <3>1, <4>1, <4>2 DEF Brings
      <3> QED
        BY <1>1, <2>1, <2>3, <3>1, <3>3, <3>8 DEF Waiting, Opens, Settling, Closing
    <2> QED
      BY <2>2, <2>3, ClientTypes
  <1> QED
    BY <1>6, <1>7

\* What the replies of the handlers let the applicant do.
LEMMA MuteReplies ==
    ASSUME NEW d
    PROVE  /\ d.state \in {"preparing", "completed", "paused"} => Mute(Snapshot(d))
           /\ d.state = "completed" => Mute(StateChanged(d))
           /\ Mute(FromServer("session.completed", d, 0))
           /\ Mute(FromServer("transcript.final", d, 0))
           /\ \A place : Ready(d, place).type = "question.ready" /\ Ready(d, place).place = place
           /\ \A type, place : FromServer(type, d, place).sequence = d.sequence
  BY DEF Mute, Snapshot, StateChanged, FromServer, Ready, PhaseOf

\* The handlers send one, two or three replies.
LEMMA ShortReplies ==
    /\ \A x : LET s == <<x>> IN
          s \in Seq({x}) /\ s # <<>> /\ LastOf(s) = x /\ \A n \in DOMAIN s : s[n] = x
    /\ \A x, y : LET s == <<x, y>> IN
          /\ s \in Seq({x, y}) /\ s # <<>> /\ LastOf(s) = y
          /\ \A n \in DOMAIN s : s[n] = x \/ s[n] = y
    /\ \A x, y, z : LET s == <<x, y, z>> IN
          s \in Seq({x, y, z}) /\ s # <<>> /\ LastOf(s) = z
  BY DEF LastOf

\* A handler, asked for what the page of an applicant who waits can ask for.
LEMMA HandlingWaits ==
    ASSUME RoomIInv, Waiting, Handle
    PROVE  Waiting'
  <1> DEFINE m == Head(toServer)
  <1>1. /\ db \in Rows /\ Base(db, stored) /\ Sound(db, stored) /\ Steady(db) /\ IInv
        /\ db.state # "paused" /\ WrittenUnder(db) /\ InFlight(toServer, db)
        /\ Resumed(db) = db /\ db.sequence \in Nat
        /\ db.state \in {"preparing", "awaiting_answer", "completed"}
    BY ClientTypes DEF Waiting, Sound, Resumed, Regular, Rows
  <1>2. conn = "open" /\ toServer # <<>>
    BY DEF Handle, HandleStale, HandleResume, HandleStart, HandleRepeat, HandleText,
           HandleUnverified, HandleMissing, HandleNext, HandleLast, Answering, Current, Arrives
  <1>3. /\ m.type \in {"start", "resume", "submit", "complete", "repeat"}
        /\ m.type = "start" => toServer = Start0 /\ db.state = "preparing" /\ Len(toServer) = 1
        /\ m.type = "resume" => toServer = Resume0 /\ Len(toServer) = 1
        /\ m.type = "repeat" => Len(toServer) = 1 /\ Repeats(m, db)
        /\ m.type = "submit" =>
              /\ Len(toServer) = 2 /\ Submits(m, db) /\ Completes(toServer[2], db)
              /\ m.answer = toServer[2].answer
        /\ m.type = "complete" =>
              /\ Len(toServer) = 1 /\ Completes(m, db)
              /\ db.state = "awaiting_answer" /\ Recording(db, m.answer) # {}
        /\ m.type \in {"start", "resume"} <=> toServer \in {Start0, Resume0}
        /\ m.type # "start" /\ m.type # "resume" => m.sequence = db.sequence
    <2>1. toServer \in Seq(MessagesTo(db, heard))
      BY ClientTypes DEF Client
    <2> QED
      BY <1>1, <1>2, <2>1, InFlightFirst
  <1>4. /\ m \in MessagesTo(db, heard)
        /\ Len(toServer) = 1 => Tail(toServer) = <<>>
        /\ Len(toServer) = 2 => Len(Tail(toServer)) = 1 /\ Tail(toServer)[1] = toServer[2]
    BY <1>2, ClientTypes, FirstOf DEF Client
  <1> HIDE DEF m
  <1>5. InFlight(<<>>, db') /\ <<>> \notin {Start0, Resume0}
    BY DEF InFlight, Start0, Resume0
  <1>6. CASE HandleStale
    <2> DEFINE t == <<Snapshot(db)>>
    <2>1. m.type # "resume" /\ m.sequence < db.sequence /\ Reply(db, t)
      BY <1>1, <1>6 DEF HandleStale, Stale, m
    <2>2. m.type = "start"
      BY <1>1, <1>3, <2>1
    <2>3. db.state = "preparing" /\ Len(toServer) = 1 /\ toServer \in {Start0, Resume0}
      BY <1>3, <2>2
    <2>4. /\ t \in Seq({Snapshot(db)}) /\ t # <<>> /\ LastOf(t) = Snapshot(db)
          /\ \A n \in DOMAIN t : t[n] = Snapshot(db)
      BY ShortReplies
    <2>5. Mute(Snapshot(db)) /\ Snapshot(db).sequence = db.sequence
      BY <2>3, MuteReplies DEF Snapshot
    <2>6. Settled(room, db)
      BY <2>3, SettledBefore
    <2>7. InFlight(<<>>, db)
      BY DEF InFlight
    <2> HIDE DEF t
    <2>8. \A n \in DOMAIN t : Mute(t[n])
      BY <2>4, <2>5
    <2> QED
      BY <1>1, <1>2, <1>4, <1>5, <2>1, <2>3, <2>4, <2>5, <2>6, <2>7, <2>8, ReplyWaits
  <1>7. CASE HandleResume
    <2> DEFINE pending == Latest(db).pending
    <2>1. m.type = "resume" /\ Reply(db, IF db.state = "awaiting_answer" /\ pending # 0
                                         THEN <<Snapshot(db), Ready(db, pending)>>
                                         ELSE <<Snapshot(db)>>)
      BY <1>1, <1>7 DEF HandleResume, Arrives, m
    <2>2. Len(toServer) = 1 /\ toServer \in {Start0, Resume0}
      BY <1>3, <2>1
    <2>3. InFlight(<<>>, db)
      BY DEF InFlight
    <2>4. CASE db.state = "awaiting_answer"
      <3>1. LastQuestion(db) \in Questions(db) /\ 0 \notin Questions(db)
        BY <1>1, <2>4, QuestionNumbers
      <3>2. pending = LastQuestion(db) /\ pending # 0
        BY <1>1, <2>4, <3>1 DEF Steady, ResumePointIn
      <3> DEFINE t == <<Snapshot(db), Ready(db, pending)>>
      <3>3. Reply(db, t)
        BY <2>1, <2>4, <3>2
      <3>4. /\ t \in Seq({Snapshot(db), Ready(db, pending)}) /\ t # <<>>
            /\ LastOf(t) = Ready(db, pending)
        BY ShortReplies
      <3>5. Ready(db, pending).sequence = db.sequence
        BY MuteReplies DEF Ready
      <3>6. Shows(Ready(db, pending), db)
        BY <2>4, <3>2, MuteReplies DEF Shows
      <3> HIDE DEF t, pending
      <3> QED
        BY <1>1, <1>2, <1>4, <1>5, <2>2, <2>3, <3>3, <3>4, <3>5, <3>6, ReplyWaits
    <2>5. CASE db.state # "awaiting_answer"
      <3> DEFINE t == <<Snapshot(db)>>
      <3>1. Reply(db, t)
        BY <2>1, <2>5
      <3>2. /\ t \in Seq({Snapshot(db)}) /\ t # <<>> /\ LastOf(t) = Snapshot(db)
            /\ \A n \in DOMAIN t : t[n] = Snapshot(db)
        BY ShortReplies
      <3>3. Mute(Snapshot(db)) /\ Snapshot(db).sequence = db.sequence
        BY <1>1, <2>5, MuteReplies DEF Snapshot
      <3>4. Settled(room, db)
        BY <1>1, <2>5, SettledBefore DEF Settled
      <3> HIDE DEF t
      <3>5. \A n \in DOMAIN t : Mute(t[n])
        BY <3>2, <3>3
      <3> QED
        BY <1>1, <1>2, <1>4, <1>5, <2>2, <2>3, <3>1, <3>2, <3>3, <3>4, <3>5, ReplyWaits
    <2> QED
      BY <2>4, <2>5
  <1>8. CASE HandleStart
    <2> DEFINE d == Asked(Started, 1, 0, 0)
               t == <<StateChanged(d), Ready(d, 1)>>
    <2>1. m.type = "start" /\ db.turns = <<>> /\ Reply(d, t)
      BY <1>8 DEF HandleStart, Current, Arrives, m
    <2>2. Len(toServer) = 1
      BY <1>3, <2>1
    <2>3. /\ Started \in Rows /\ Started.turns = db.turns /\ Started.state = "awaiting_answer"
      BY <1>1, PassedKeeps DEF Started, Base
    <2>4. WrittenUnder(Started)
      BY <1>1, <2>3, UnderTurns
    <2>5. WrittenUnder(d)
      BY <2>3, <2>4, UnderAsked
    <2>6. d.turns = <<Question(1)>> /\ d.state = "awaiting_answer"
      BY <2>1, <2>3 DEF Asked, Checkpointed, Rows
    <2> HIDE DEF d
    <2>7. LastQuestion(d) = 1
      <3>1. Questions(d) = {1}
        BY <2>6 DEF Questions, Question
      <3>2. {1} \cup {0} \in SUBSET Nat /\ 1 \in {1} \cup {0} /\ \A y \in {1} \cup {0} : y <= 1
        OBVIOUS
      <3>3. Max({1} \cup {0}) = 1
        <4> DEFINE S == {1} \cup {0}
        <4>1. S \in SUBSET Nat /\ 1 \in S /\ \A y \in S : y <= 1
          BY <3>2
        <4> HIDE DEF S
        <4>2. Max(S) = 1
          BY <4>1, MaxIs
        <4> QED
          BY <4>2 DEF S
      <3> QED
        BY <3>1, <3>3 DEF LastQuestion
    <2>8. t \in Seq({StateChanged(d), Ready(d, 1)}) /\ t # <<>> /\ LastOf(t) = Ready(d, 1)
      BY ShortReplies
    <2>9. Ready(d, 1).sequence = d.sequence
      BY MuteReplies DEF Ready
    <2>10. Shows(Ready(d, 1), d)
      BY <2>6, <2>7, MuteReplies DEF Shows
    <2>11. InFlight(<<>>, d)
      BY DEF InFlight
    <2> HIDE DEF t
    <2> QED
      BY <1>1, <1>2, <1>4, <1>5, <2>1, <2>2, <2>5, <2>6, <2>8, <2>9, <2>10, <2>11, ReplyWaits
  <1>9. CASE HandleRepeat
    <2> DEFINE t == <<Ready(db, m.place)>>
    <2>1. m.type = "repeat" /\ Reply(db, t)
      BY <1>9 DEF HandleRepeat, Current, Arrives, m
    <2>2. Len(toServer) = 1 /\ Repeats(m, db)
      BY <1>3, <2>1
    <2>3. m.place \in Questions(db)
      BY <1>4, <2>1 DEF MessagesTo, PlaceIn
    <2>4. db.state # "preparing"
      BY <1>1, <2>3, QuestionNumbers
    <2>5. t \in Seq({Ready(db, m.place)}) /\ t # <<>> /\ LastOf(t) = Ready(db, m.place)
      BY ShortReplies
    <2>6. Ready(db, m.place).sequence = db.sequence
      BY MuteReplies DEF Ready
    <2>7. Shows(Ready(db, m.place), db)
      BY <1>1, <2>2, <2>4, MuteReplies DEF Shows, Repeats
    <2>8. InFlight(<<>>, db)
      BY DEF InFlight
    <2> HIDE DEF t
    <2> QED
      BY <1>1, <1>2, <1>4, <1>5, <2>1, <2>2, <2>5, <2>6, <2>7, <2>8, ReplyWaits
  <1>10. CASE HandleText
    <2>1. m.type = "submit"
      BY <1>10 DEF HandleText, Current, Arrives, m
    <2>2. CASE db.state # "awaiting_answer"
      <3>1. Raise(db)
        BY <1>10, <2>2 DEF HandleText
      <3> QED
        BY <1>1, <1>2, <3>1, RaiseWaits
    <2>3. CASE db.state = "awaiting_answer"
      <3> DEFINE d == Written(db, m.answer, <<m.text>>)
                 r == FromServer("transcript.final", db, 0)
                 t == <<r>>
      <3>1. Reply(d, t)
        BY <1>10, <2>3 DEF HandleText, m
      <3>2. /\ Len(toServer) = 2 /\ Submits(m, db) /\ Completes(toServer[2], db)
            /\ m.answer = toServer[2].answer
        BY <1>3, <2>1
      <3>3. m.text = Number(db) /\ ToLast(db, m.answer) /\ m.answer \in AnswerIds
        BY <1>4, <2>1, <2>3, <3>2 DEF Submits, MessagesTo
      <3>4. LastQuestion(db) \in Questions(db) /\ Number(db) \in Fragments
        BY <1>1, <2>3, QuestionNumbers, NumbersAssumption DEF Number
      <3>5. /\ WrittenUnder(d) /\ Recording(d, m.answer) # {}
            /\ LastQuestion(d) = LastQuestion(db) /\ Number(d) = Number(db)
            /\ \A x : ToLast(db, x) => ToLast(d, x)
            /\ d.sequence = db.sequence /\ d.state = db.state
        BY <1>1, <3>3, <3>4, UnderWritten
      <3>6. t \in Seq({r}) /\ t # <<>> /\ LastOf(t) = r /\ \A n \in DOMAIN t : t[n] = r
        BY ShortReplies
      <3>7. Mute(r) /\ r.sequence = db.sequence
        BY MuteReplies
      <3> HIDE DEF d, t, r
      <3>8. Settled(room, db) => Settled(room, d)
        BY <3>5 DEF Settled
      <3>9. toServer \notin {Start0, Resume0}
        BY <1>3, <2>1
      <3>10. InFlight(Tail(toServer), d)
        <4>1. Len(Tail(toServer)) = 1 /\ Tail(toServer)[1] = toServer[2]
          BY <1>4, <3>2
        <4>2. Completes(Tail(toServer)[1], d)
          BY <3>2, <3>5, <4>1 DEF Completes
        <4> QED
          BY <2>3, <3>2, <3>5, <4>1, <4>2 DEF InFlight
      <3>11. Tail(toServer) \notin {Start0, Resume0}
        <4>1. Tail(toServer)[1].type = "complete"
          BY <1>4, <3>2 DEF Completes
        <4>2. Start0[1].type # "complete" /\ Resume0[1].type # "complete"
          BY DEF Start0, Resume0, First
        <4> HIDE DEF Start0, Resume0
        <4> QED
          BY <4>1, <4>2
      <3>12. \A n \in DOMAIN t : Mute(t[n])
        BY <3>6, <3>7
      <3> QED
        BY <1>1, <1>2, <3>1, <3>5, <3>6, <3>7, <3>8, <3>9, <3>10, <3>11, <3>12, ReplyWaits
    <2> QED
      BY <2>2, <2>3
  <1>11. CASE HandleUnverified
    <2>1. PICK upto : Raise(Verified(db, upto))
      BY <1>11 DEF HandleUnverified
    <2> DEFINE d == Verified(db, upto)
    <2>2. d.turns = db.turns /\ d.state = db.state
      BY <1>1 DEF Verified, Rows
    <2> HIDE DEF d
    <2>3. WrittenUnder(d)
      BY <1>1, <2>2, UnderTurns
    <2> QED
      BY <1>1, <1>2, <2>1, <2>2, <2>3, RaiseWaits DEF d
  <1>12. \A a, media : Answering(a, media) => /\ m.type = "complete" /\ a = m.answer
                                              /\ Len(toServer) = 1 /\ Recording(db, a) # {}
    BY <1>3 DEF Answering, Current, Arrives, m
  <1>13. CASE HandleMissing
    BY <1>12, <1>13 DEF HandleMissing
  <1>14. ASSUME NEW a \in AnswerIds, NEW media \in 0..MaxChunks, NEW place \in Recording(db, a),
                Answering(a, media), NEW target \in {"awaiting_answer", "completed"}
         PROVE  LET e == Passed(Finalized(Verified(db, media), a), target, 2)
                IN  WrittenUnder(e) /\ e \in Rows /\ e.state = target
    <2> DEFINE v == Verified(db, media)
               f == Finalized(v, a)
               e == Passed(f, target, 2)
    <2>1. place \in DOMAIN db.turns /\ Completing(a, place, media)
      BY <1>14, AnsweringCompletes
    <2>2. 1..media \subseteq db.verified \cup stored
      BY <1>1, <2>1, CompletingCounts
    <2>3. e \in Rows /\ e.state = target
      BY <1>1, <2>2, AnsweredKeeps DEF Base
    <2>4. v.turns = db.turns /\ Base(v, stored)
      BY <1>1, <2>2, VerifiedKeeps DEF Verified, Rows
    <2> HIDE DEF v
    <2>5. WrittenUnder(v) /\ v \in Rows
      BY <1>1, <2>4, UnderTurns DEF Base
    <2>6. WrittenUnder(f) /\ Base(f, stored)
      BY <2>4, <2>5, UnderFinalized, FinalizedKeeps
    <2> HIDE DEF f
    <2>7. e.turns = f.turns
      BY <2>6, PassedKeeps
    <2> HIDE DEF e
    <2>8. WrittenUnder(e)
      BY <2>6, <2>7, UnderTurns
    <2> QED
      BY <2>3, <2>8 DEF e, f, v
  <1>15. CASE HandleNext
    <2>1. PICK a \in AnswerIds, media \in 0..MaxChunks :
              /\ Answering(a, media)
              /\ \E place \in Recording(db, a) :
                    LET d == Asked(Answered(a, media), AnswersAfter(a) + 1, place, media)
                    IN  Reply(d, <<StateChanged(d), FromServer("question.preparing", d, 0),
                                   Ready(d, LastQuestion(d))>>)
      BY <1>15 DEF HandleNext
    <2>2. PICK place \in Recording(db, a) :
              LET d == Asked(Answered(a, media), AnswersAfter(a) + 1, place, media)
              IN  Reply(d, <<StateChanged(d), FromServer("question.preparing", d, 0),
                             Ready(d, LastQuestion(d))>>)
      BY <2>1
    <2> DEFINE e == Answered(a, media)
               d == Asked(e, AnswersAfter(a) + 1, place, media)
               x == StateChanged(d)
               y == FromServer("question.preparing", d, 0)
               z == Ready(d, LastQuestion(d))
               t == <<x, y, z>>
    <2>3. Reply(d, t)
      BY <2>2
    <2>4. WrittenUnder(e) /\ e \in Rows /\ e.state = "awaiting_answer"
      BY <1>14, <2>1 DEF Answered
    <2>5. AnswersAfter(a) + 1 \in Nat \ {0}
      <3>1. place \in DOMAIN db.turns /\ Completing(a, place, media)
        BY <2>1, AnsweringCompletes
      <3>2. AnswersAfter(a) \in Nat
        BY <1>1, <3>1, CompletingCounts
      <3> QED
        BY <3>2
    <2> HIDE DEF e
    <2>6. WrittenUnder(d) /\ d.state = "awaiting_answer"
      <3>1. d.state = e.state
        BY <2>4 DEF Asked, Checkpointed, Rows
      <3> QED
        BY <2>4, <2>5, <3>1, UnderAsked
    <2> HIDE DEF d
    <2>7. t \in Seq({x, y, z}) /\ t # <<>> /\ LastOf(t) = z
      BY ShortReplies
    <2>8. z.sequence = d.sequence /\ Shows(z, d)
      BY <2>6, MuteReplies DEF Shows, Ready
    <2>9. InFlight(<<>>, d)
      BY DEF InFlight
    <2>10. Tail(toServer) = <<>>
      BY <1>4, <1>12, <2>1
    <2> HIDE DEF t, x, y, z
    <2> QED
      BY <1>1, <1>2, <1>5, <2>3, <2>6, <2>7, <2>8, <2>9, <2>10, ReplyWaits
  <1>16. CASE HandleLast
    <2>1. PICK a \in AnswerIds, media \in 0..MaxChunks :
              /\ Answering(a, media)
              /\ \E place \in Recording(db, a) :
                    LET d == Completed(a, place, media, "published")
                    IN  \/ Reply(d, <<StateChanged(d), FromServer("session.completed", d, 0)>>)
                        \/ Raise([d EXCEPT !.event = "pending"])
      BY <1>16 DEF HandleLast
    <2>2. PICK place \in Recording(db, a) :
              LET d == Completed(a, place, media, "published")
              IN  \/ Reply(d, <<StateChanged(d), FromServer("session.completed", d, 0)>>)
                  \/ Raise([d EXCEPT !.event = "pending"])
      BY <2>1
    <2> DEFINE e == Passed(Finalized(Verified(db, media), a), "completed", 2)
               d == Completed(a, place, media, "published")
               p == [d EXCEPT !.event = "pending"]
               x == StateChanged(d)
               y == FromServer("session.completed", d, 0)
               t == <<x, y>>
    <2>3. Reply(d, t) \/ Raise(p)
      BY <2>2
    <2>4. WrittenUnder(e) /\ e \in Rows /\ e.state = "completed"
      BY <1>14, <2>1
    <2>5. d = [Checkpointed(e, 0, place, media) EXCEPT !.event = "published"]
      BY DEF Completed
    <2> HIDE DEF e
    <2>6. /\ d.turns = e.turns /\ d.state = "completed"
          /\ p.turns = e.turns /\ p.state = "completed"
      <3> HIDE DEF d
      <3> QED
        BY <2>4, <2>5 DEF Checkpointed, Rows
    <2> HIDE DEF d, p
    <2>7. WrittenUnder(d) /\ WrittenUnder(p)
      BY <2>4, <2>6, UnderTurns
    <2>8. CASE Raise(p)
      BY <1>1, <1>2, <2>6, <2>7, <2>8, RaiseWaits
    <2>9. CASE Reply(d, t)
      <3>1. /\ t \in Seq({x, y}) /\ t # <<>> /\ LastOf(t) = y
            /\ \A n \in DOMAIN t : t[n] = x \/ t[n] = y
        BY ShortReplies
      <3>2. Mute(x) /\ Mute(y) /\ y.sequence = d.sequence
        BY <2>6, MuteReplies
      <3>3. InFlight(<<>>, d) /\ Settled(room, d)
        BY <2>6 DEF InFlight, Settled
      <3>4. Tail(toServer) = <<>>
        BY <1>4, <1>12, <2>1
      <3> HIDE DEF t, x, y
      <3>5. \A n \in DOMAIN t : Mute(t[n])
        BY <3>1, <3>2
      <3> QED
        BY <1>1, <1>2, <1>5, <2>6, <2>7, <2>9, <3>1, <3>2, <3>3, <3>4, <3>5, ReplyWaits
    <2> QED
      BY <2>3, <2>8, <2>9
  <1> QED
    BY <1>6, <1>7, <1>8, <1>9, <1>10, <1>11, <1>13, <1>15, <1>16 DEF Handle

-----------------------------------------------------------------------------
(* The answers of an applicant who waits *)

\* At first nothing is under way.
LEMMA WaitingBegins == RoomInit => Waiting
  <1> SUFFICES ASSUME RoomInit PROVE Waiting
    OBVIOUS
  <1>1. db.turns = <<>> /\ db.state = "preparing" /\ toServer = <<>> /\ socket.state = "closed"
    BY DEF RoomInit, Init, NewSession
  <1> QED
    BY <1>1 DEF Waiting, WrittenUnder, InFlight, Opens, Settling, Closing

\* Who was hasty once, was hasty.
LEMMA HastyStays ==
    ASSUME [RoomNext]_roomVars, ~mishaps'.hasty
    PROVE  ~mishaps.hasty
  <1>1. UNCHANGED mishaps \/ Happens(TRUE) \/ Happens(FALSE)
    <2>1. CASE UNCHANGED roomVars
      BY <2>1 DEF roomVars
    <2>2. \A fine : fine \in BOOLEAN /\ MishapUnless(fine) => UNCHANGED mishaps \/ Happens(FALSE)
      BY DEF MishapUnless, Mishap
    <2>3. CASE StartSession \/ ApplySnapshot \/ Write \/ Leave
      BY <2>3 DEF StartSession, ApplySnapshot, Write, Leave
    <2>4. CASE AskSnapshot
      BY <2>4 DEF AskSnapshot, MishapUnless, Mishap
    <2>5. CASE CompleteAnswer
      BY <2>5 DEF CompleteAnswer
    <2>6. CASE RepeatQuestion
      <3>1. Happens(~Quiet)
        BY <2>6 DEF RepeatQuestion
      <3>2. (~Quiet) = TRUE \/ (~Quiet) = FALSE
        OBVIOUS
      <3> QED
        BY <3>1, <3>2, Zenon
    <2>7. CASE Drop \/ Reload
      BY <2>7 DEF Drop, Reload, Mishap
    <2>8. CASE ReplacedCloses \/ EndConnection \/ Receive \/ RecordChunk \/ Uploaded
      BY <2>8 DEF ReplacedCloses, EndConnection, Receive, RecordChunk, Uploaded
    <2>9. CASE Accept
      BY <2>9 DEF Accept, MishapUnless, Mishap
    <2>10. \A d, messages : Reply(d, messages) => UNCHANGED mishaps
      BY DEF Reply
    <2>11. CASE Handle
      <3>1. CASE HandleStale \/ HandleResume \/ HandleStart \/ HandleRepeat
        BY <2>10, <3>1 DEF HandleStale, HandleResume, HandleStart, HandleRepeat
      <3>2. CASE HandleText
        BY <2>10, <3>2 DEF HandleText
      <3>3. CASE HandleUnverified
        BY <3>3 DEF HandleUnverified, MishapUnless, Mishap
      <3>4. CASE HandleMissing
        BY <2>10, <3>4 DEF HandleMissing
      <3>5. CASE HandleNext
        BY <2>10, <3>5 DEF HandleNext
      <3>6. CASE HandleLast
        BY <2>10, <3>6 DEF HandleLast, Mishap
      <3> QED
        BY <2>11, <3>1, <3>2, <3>3, <3>4, <3>5, <3>6 DEF Handle
    <2> QED
      BY <2>1, <2>3, <2>4, <2>5, <2>6, <2>7, <2>8, <2>9, <2>11 DEF RoomNext
  <1>2. ASSUME NEW b, Happens(b)
        PROVE  ~mishaps.hasty
    <2>1. mishaps' = [number |-> mishaps.number + 1, hasty |-> mishaps.hasty \/ b]
      BY <1>2 DEF Happens
    <2>2. mishaps' = [number |-> mishaps.number + 1, hasty |-> mishaps.hasty \/ b]
             => mishaps'.hasty = (mishaps.hasty \/ b)
      OBVIOUS
    <2> QED
      BY <2>1, <2>2, Zenon
  <1> QED
    BY <1>1, <1>2

\* Every step keeps the invariant of an applicant who waits.
LEMMA RoomNextWaits ==
    ASSUME ~IsFiniteSet(AnswerIds), RoomIInv, WaitingIInv, [RoomNext]_roomVars
    PROVE  WaitingIInv'
  <1> SUFFICES ASSUME ~mishaps'.hasty PROVE Waiting'
    BY DEF WaitingIInv
  <1>1. Waiting
    BY HastyStays DEF WaitingIInv
  <1>2. CASE UNCHANGED roomVars
    <2>1. UNCHANGED <<db, conn, socket, toServer, toRoom, room>>
      BY <1>2 DEF roomVars, vars, page, wire
    <2> QED
      BY <1>1, <2>1, WaitsAlike
  <1>3. CASE StartSession \/ AskSnapshot \/ ApplySnapshot \/ Write \/ CompleteAnswer
                \/ RepeatQuestion \/ Leave
    BY <1>1, <1>3, ButtonsWait
  <1>4. CASE Drop \/ Reload \/ ReplacedCloses \/ Accept \/ EndConnection \/ RecordChunk \/ Uploaded
    BY <1>1, <1>4, ConnectionsWait
  <1>5. CASE Handle
    BY <1>1, <1>5, HandlingWaits
  <1>6. CASE Receive
    BY <1>1, <1>6, ReceiveWaits
  <1> QED
    BY <1>2, <1>3, <1>4, <1>5, <1>6 DEF RoomNext

\* So it holds always.
LEMMA WaitingAlways ==
    ASSUME ~IsFiniteSet(AnswerIds)
    PROVE  RoomSpec => [](RoomIInv /\ WaitingIInv)
  <1> DEFINE I == RoomIInv /\ WaitingIInv
  <1>1. RoomInit => I
    BY RoomBegins, WaitingBegins DEF WaitingIInv
  <1>2. I /\ [RoomNext]_roomVars => I'
    <2> SUFFICES ASSUME RoomIInv, WaitingIInv, [RoomNext]_roomVars
                 PROVE  RoomIInv' /\ WaitingIInv'
      OBVIOUS
    <2> QED
      BY RoomNextKeeps, RoomNextWaits
  <1> HIDE DEF I
  <1>3. RoomSpec => []I
    BY <1>1, <1>2, PTL DEF RoomSpec
  <1> QED
    BY <1>3 DEF I

\* What an applicant who waits wrote under a question stands in the record as the answer to
\* that question, however connections drop and replies that were committed are lost.
THEOREM AnswersMeetTheirQuestions ==
    ASSUME ~IsFiniteSet(AnswerIds)
    PROVE  RoomSpec => []AnswerMeetsItsQuestion
  <1>1. RoomIInv /\ WaitingIInv => AnswerMeetsItsQuestion
    <2> SUFFICES ASSUME WrittenUnder(db), NEW i \in Finals(db)
                 PROVE  LET asked == Max({q \in Questions(db) : q < i})
                        IN  db.turns[i].text = <<db.turns[asked].number>>
      BY DEF AnswerMeetsItsQuestion, AnswersMatch, WaitingIInv, Waiting
    <2> QED
      BY DEF Finals, WrittenUnder, Before
  <1> QED
    BY <1>1, WaitingAlways, PTL

\* When nothing is under way and such an applicant may answer, the session waits for the
\* answer to the question that the page shows.
THEOREM PageIsCurrent ==
    ASSUME ~IsFiniteSet(AnswerIds)
    PROVE  RoomSpec => []AnsweringIsCurrent
  <1>1. RoomIInv /\ WaitingIInv => AnsweringIsCurrent
    <2> SUFFICES ASSUME RoomIInv, WaitingIInv, Quiet, socket.state = "open", CanAnswer,
                        ~mishaps.hasty, db.state # "completed"
                 PROVE  /\ db.state = "awaiting_answer" /\ room.place = LastQuestion(db)
                        /\ Places(db, room.id) \cap Finals(db) = {}
      BY DEF AnsweringIsCurrent
    <2>1. Settled(room, db)
      BY QuietIsSettled DEF WaitingIInv
    <2> QED
      BY <2>1 DEF Settled, CanAnswer, ToLast
  <1> QED
    BY <1>1, WaitingAlways, PTL
=============================================================================
