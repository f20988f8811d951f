---------------------------- MODULE Hiring_proofs ----------------------------
(***************************************************************************)
(* Theorems about Hiring, for every number of requests, positions, keys and *)
(* calls.                                                                   *)
(***************************************************************************)
EXTENDS Hiring, FiniteSetTheorems, SequenceTheorems, TLAPS

-----------------------------------------------------------------------------
(* What is in the tables.  d stands for the rows, s for the sessions.        *)

Columns ==
    [version    |-> {"position", "number", "weighted", "status", "published_at", "row_version"},
     campaign   |-> {"version", "status", "published_at", "issued", "row_version"},
     invitation |-> {"campaign", "state", "exchanged", "applied", "row_version"},
     profile    |-> {"name"},
     consent    |-> {"invitation", "accepted_at"}]

In(d, x) == DOMAIN d[x] # {}

ProfileOf(i) == <<"profile", i[2]>>

PublishedVersion(d, v) == v \in Versions /\ In(d, v) /\ d[v].status = "published" /\ d[v].weighted

PublishedCampaign(d, c) == c \in Campaigns /\ In(d, c) /\ d[c].status = "published"

Typed(d, y) == In(d, y) /\ d[y].name = "typed"

HasConsent(d, i) == \E c \in Consents : In(d, c) /\ d[c].invitation = i

States == {"invited", "identity_verified", "consented"}

\* Whatever is committed rests on something published, and a state that an
\* invitation has reached on what was to be done for it.
RowsAgree(d, s) ==
    /\ \A x \in Places : In(d, x) => DOMAIN d[x] = Columns[x[1]]
    /\ \A v \in Versions : In(d, v) /\ d[v].status = "published" => d[v].weighted
    /\ \A c \in Campaigns : In(d, c) => PublishedVersion(d, d[c].version)
    /\ \A i \in Invitations : In(d, i) =>
          /\ PublishedCampaign(d, d[i].campaign)
          /\ In(d, ProfileOf(i))
          /\ d[i].state \in States
          /\ d[i].state # "invited" => Typed(d, ProfileOf(i)) /\ s[i] > 0
          /\ d[i].state = "consented" => HasConsent(d, i)

-----------------------------------------------------------------------------
(* What is in a transaction t *)

Makes == {<<"create_version", "version">>, <<"create_campaign", "campaign">>,
          <<"issue", "invitation">>, <<"issue", "profile">>, <<"consent", "consent">>}

\* The transaction has made this id.
Fresh(t, x) == \E op \in Operations : t.copy = <<op, x[2]>> /\ <<op, x[1]>> \in Makes

\* An id is made once, and not stored before the transaction that made it commits.
IdsAreApart ==
    /\ \A r \in Requests, x \in Places : Fresh(open[r], x) =>
          ~In(db, x) /\ \A q \in Requests \ {r} : ~Fresh(open[q], x)
    /\ \A op \in Operations, x \in Places : <<op, x[1]>> \in Makes /\ x[2] > calls[op] =>
          ~In(db, x) /\ \A r \in Requests : ~Fresh(open[r], x)

\* What will be there when the transaction commits.
TypedSoon(d, t, y) ==
    \/ Typed(d, y)
    \/ y \in DOMAIN t.dirty /\ "name" \in DOMAIN t.dirty[y] /\ t.dirty[y].name = "typed"
    \/ \E n \in DOMAIN t.plan : t.plan[n] = Merge(y, [name |-> "typed"])

ProfileSoon(d, t, y) ==
    \/ In(d, y)
    \/ y \in DOMAIN t.dirty
    \/ \E n \in DOMAIN t.plan : t.plan[n].place = y /\ DOMAIN t.plan[n].object # {}

ConsentSoon(d, t, i) ==
    \/ HasConsent(d, i)
    \/ \E c \in Consents :
          /\ Fresh(t, c)
          /\ \/ c \in DOMAIN t.dirty /\ t.dirty[c].invitation = i
             \/ \E n \in DOMAIN t.plan : /\ t.plan[n].place = c
                                         /\ DOMAIN t.plan[n].object # {}
                                         /\ t.plan[n].object.invitation = i

\* Columns p that are written over a row that is stored.
Overwrites(d, s, t, x, p) ==
    /\ x \in Versions =>
          /\ "weighted" \in DOMAIN p => p.weighted = d[x].weighted
          /\ "status" \in DOMAIN p => p.status = "published" /\ d[x].weighted
    /\ x \in Campaigns =>
          /\ "version" \in DOMAIN p => p.version = d[x].version
          /\ "status" \in DOMAIN p => p.status = "published"
    /\ x \in Invitations =>
          /\ "campaign" \in DOMAIN p => p.campaign = d[x].campaign
          /\ "state" \in DOMAIN p =>
                /\ p.state \in States
                /\ p.state # "invited" => TypedSoon(d, t, ProfileOf(x)) /\ s[x] > 0
                /\ p.state = "consented" => ConsentSoon(d, t, x)
    /\ x \in Profiles /\ "name" \in DOMAIN p => p.name = "typed"
    /\ x \notin Consents

\* The row p of an id that the transaction has made.
Adds(d, t, x, p) ==
    /\ DOMAIN p = Columns[x[1]]
    /\ x \in Versions => p.status = "draft"
    /\ x \in Campaigns => PublishedVersion(d, p.version)
    /\ x \in Invitations =>
          /\ t.fate = "told" => PublishedCampaign(d, p.campaign)
          /\ ProfileSoon(d, t, ProfileOf(x))
          /\ p.state = "invited"

\* The columns p may be committed with the rest of the transaction.
Fine(d, s, t, x, p) ==
    \/ Fresh(t, x) /\ (DOMAIN p = {} \/ Adds(d, t, x, p))
    \/ In(d, x) /\ DOMAIN p \subseteq Columns[x[1]] /\ Overwrites(d, s, t, x, p)

\* What a merge has found to differ: of a new row everything, and a name unless
\* it is typed already.
Found(d, t) ==
    LET m == Head(t.plan)
    IN  t.phase = "flush" =>
          /\ DOMAIN t.change \subseteq DOMAIN m.object
          /\ Fresh(t, m.place) => DOMAIN t.change = DOMAIN m.object
          /\ \A c \in DOMAIN t.change : t.change[c] = m.object[c]
          /\ m.place \in Profiles /\ m.object = [name |-> "typed"] =>
                Typed(d, m.place) \/ "name" \in DOMAIN t.change

\* A plan is a sequence, of whatever it is made of.
IsPlan(s) == s \in Seq({s[n] : n \in DOMAIN s})

\* The parts of a transaction fit each other.
Ordered(t) ==
    /\ t = [phase |-> t.phase, plan |-> t.plan, fate |-> t.fate, change |-> t.change,
            dirty |-> t.dirty, version |-> t.version, seen |-> t.seen, gone |-> t.gone,
            copy |-> t.copy, inserted |-> t.inserted, token |-> t.token]
    /\ IsPlan(t.plan)
    /\ t.phase \in {"idle", "load", "flush", "told", "refused"}
    /\ t.fate \in {"told", "refused"}
    /\ t.phase \in {"load", "flush"} <=> t.plan # <<>>
    /\ t.phase = "told" => t.fate = "told"
    /\ t.phase = "load" => t.change = NoColumns
    /\ DOMAIN t.dirty \subseteq Places
    /\ \A x \in DOMAIN t.dirty : DOMAIN t.dirty[x] # {}

\* No row is written twice.
Apart(t) ==
    \A n \in DOMAIN t.plan : DOMAIN t.plan[n].object # {} =>
        /\ t.plan[n].place \notin DOMAIN t.dirty
        /\ \A m \in DOMAIN t.plan \ {n} :
              DOMAIN t.plan[m].object # {} => t.plan[m].place # t.plan[n].place

Planned(d, s, t) ==
    \A n \in DOMAIN t.plan :
        /\ t.plan[n] = Merge(t.plan[n].place, t.plan[n].object)
        /\ t.plan[n].place \in Places
        /\ Fine(d, s, t, t.plan[n].place, t.plan[n].object)

Good(d, s, t) ==
    /\ Ordered(t)
    /\ Apart(t)
    /\ Planned(d, s, t)
    /\ Found(d, t)
    /\ \A x \in DOMAIN t.dirty : Fine(d, s, t, x, t.dirty[x])

Shapes ==
    /\ db = [x \in Places |-> db[x]]
    /\ open = [r \in Requests |-> open[r]]
    /\ calls \in [Operations -> Nat]
    /\ sessions \in [Invitations -> Nat]

IInv ==
    /\ Shapes
    /\ RowsAgree(db, sessions)
    /\ IdsAreApart
    /\ \A r \in Requests : Good(db, sessions, open[r])

-----------------------------------------------------------------------------
(* Tables and steps in general *)

\* Ids say which table they are of.
LEMMA Tables ==
    /\ \A x \in Versions : x \in Places /\ x[1] = "version"
    /\ \A x \in Campaigns : x \in Places /\ x[1] = "campaign"
    /\ \A x \in Invitations : x \in Places /\ x[1] = "invitation" /\ ProfileOf(x) \in Profiles
    /\ \A x \in Profiles : x \in Places /\ x[1] = "profile"
    /\ \A x \in Consents : x \in Places /\ x[1] = "consent"
    /\ \A x \in Places : x[2] \in Nat /\ x = <<x[1], x[2]>>
  BY LimitAssumption DEF Places, Versions, Campaigns, Invitations, Profiles, Consents, ProfileOf,
     Operations

\* What later rows e and sessions z keep of earlier ones d and s.
Grows(d, s, e, z) ==
    /\ \A x \in Places : In(d, x) => In(e, x)
    /\ \A v \in Versions : In(d, v) =>
          /\ e[v].weighted = d[v].weighted
          /\ d[v].status = "published" => e[v].status = "published"
    /\ \A c \in Campaigns : In(d, c) =>
          /\ e[c].version = d[c].version
          /\ d[c].status = "published" => e[c].status = "published"
    /\ \A i \in Invitations : In(d, i) => e[i].campaign = d[i].campaign
    /\ \A y \in Profiles : Typed(d, y) => Typed(e, y)
    /\ \A c \in Consents : In(d, c) => e[c].invitation = d[c].invitation
    /\ \A i \in Invitations : s[i] > 0 => z[i] > 0

\* What the transaction u does that t did, for what it carries.
Keeps(d, t, e, u) ==
    /\ u.copy = t.copy /\ u.fate = t.fate
    /\ \A y \in Profiles : TypedSoon(d, t, y) => TypedSoon(e, u, y)
    /\ \A y \in Profiles : ProfileSoon(d, t, y) => ProfileSoon(e, u, y)
    /\ \A i \in Invitations : ConsentSoon(d, t, i) => ConsentSoon(e, u, i)

\* Rows that stay as they are keep everything.
LEMMA GrowsReflexive ==
    ASSUME NEW d, NEW s
    PROVE  Grows(d, s, d, s)
  BY DEF Grows

\* What is published stays published, on what it was.
LEMMA PublishedStays ==
    ASSUME NEW d, NEW s, NEW e, NEW z, Grows(d, s, e, z)
    PROVE  /\ \A v : PublishedVersion(d, v) => PublishedVersion(e, v)
           /\ \A c : PublishedCampaign(d, c) => PublishedCampaign(e, c)
           /\ \A i : HasConsent(d, i) => HasConsent(e, i)
  BY Tables DEF Grows, PublishedVersion, PublishedCampaign, HasConsent

\* A transaction that waits while the rows grow keeps what it does.
LEMMA KeepsWhenGrown ==
    ASSUME NEW d, NEW s, NEW e, NEW z, NEW t, Grows(d, s, e, z)
    PROVE  Keeps(d, t, e, t)
  <1>1. \A y \in Profiles : TypedSoon(d, t, y) => TypedSoon(e, t, y)
    BY DEF Grows, TypedSoon
  <1>2. \A y \in Profiles : ProfileSoon(d, t, y) => ProfileSoon(e, t, y)
    BY Tables DEF Grows, ProfileSoon
  <1>3. \A i \in Invitations : ConsentSoon(d, t, i) => ConsentSoon(e, t, i)
    BY PublishedStays DEF ConsentSoon
  <1> QED
    BY <1>1, <1>2, <1>3 DEF Keeps

\* What may be committed may still be committed when more is.
LEMMA FineGoesOn ==
    ASSUME NEW d, NEW s, NEW e, NEW z, NEW t, NEW u, NEW x \in Places, NEW p,
           Fine(d, s, t, x, p), Grows(d, s, e, z), Keeps(d, t, e, u)
    PROVE  Fine(e, z, u, x, p)
  <1>1. CASE Fresh(t, x) /\ DOMAIN p = {}
    BY <1>1 DEF Fine, Fresh, Keeps
  <1>2. CASE Fresh(t, x) /\ Adds(d, t, x, p)
    <2>1. Adds(e, u, x, p)
      BY <1>2, PublishedStays, Tables DEF Adds, Keeps
    <2> QED
      BY <1>2, <2>1 DEF Fine, Fresh, Keeps
  <1>3. CASE In(d, x) /\ DOMAIN p \subseteq Columns[x[1]] /\ Overwrites(d, s, t, x, p)
    <2>1. In(e, x)
      BY <1>3 DEF Grows
    <2>2. Overwrites(e, z, u, x, p)
      BY <1>3, Tables DEF Overwrites, Keeps, Grows
    <2> QED
      BY <1>3, <2>1, <2>2 DEF Fine
  <1> QED
    BY <1>1, <1>2, <1>3 DEF Fine

\* So does what differs of an object.
LEMMA FineOfPart ==
    ASSUME NEW d, NEW s, NEW t, NEW x \in Places, NEW p, NEW q,
           Fine(d, s, t, x, p), DOMAIN q \subseteq DOMAIN p,
           \A c \in DOMAIN q : q[c] = p[c],
           Fresh(t, x) => DOMAIN q = DOMAIN p
    PROVE  Fine(d, s, t, x, q)
  <1>1. CASE Fresh(t, x) /\ DOMAIN p = {}
    BY <1>1 DEF Fine
  <1>2. CASE Fresh(t, x) /\ Adds(d, t, x, p)
    <2>1. Adds(d, t, x, q)
      BY <1>2, Tables DEF Adds, Columns
    <2> QED
      BY <1>2, <2>1 DEF Fine
  <1>3. CASE In(d, x) /\ DOMAIN p \subseteq Columns[x[1]] /\ Overwrites(d, s, t, x, p)
    <2>1. Overwrites(d, s, t, x, q)
      BY <1>3 DEF Overwrites
    <2> QED
      BY <1>3, <2>1 DEF Fine
  <1> QED
    BY <1>1, <1>2, <1>3 DEF Fine

\* The transaction of a request that waits.
LEMMA GoodGoesOn ==
    ASSUME NEW d, NEW s, NEW e, NEW z, NEW t, Good(d, s, t), Grows(d, s, e, z)
    PROVE  Good(e, z, t)
  <1>1. Keeps(d, t, e, t)
    BY KeepsWhenGrown
  <1>2. Planned(e, z, t)
    BY <1>1, FineGoesOn DEF Good, Planned
  <1>3. Found(e, t)
    BY DEF Good, Found, Grows
  <1>4. \A x \in DOMAIN t.dirty : Fine(e, z, t, x, t.dirty[x])
    BY <1>1, FineGoesOn DEF Good, Ordered
  <1> QED
    BY <1>2, <1>3, <1>4 DEF Good

-----------------------------------------------------------------------------
(* One request moves *)

\* The head and the tail of what a transaction has yet to do.
LEMMA PlanParts ==
    ASSUME NEW s, IsPlan(s), s # <<>>
    PROVE  /\ 1 \in DOMAIN s /\ Head(s) = s[1] /\ Len(s) \in Nat \ {0}
           /\ DOMAIN s = 1..Len(s)
           /\ DOMAIN Tail(s) = 1..(Len(s) - 1)
           /\ \A n \in DOMAIN Tail(s) : n + 1 \in DOMAIN s /\ n + 1 # 1 /\ Tail(s)[n] = s[n + 1]
           /\ \A n \in DOMAIN s : n = 1 \/ (n - 1 \in DOMAIN Tail(s) /\ Tail(s)[n - 1] = s[n])
           /\ Tail(s) = <<>> <=> Len(s) = 1
           /\ IsPlan(Tail(s))
  <1> DEFINE R == {s[n] : n \in DOMAIN s}
  <1>1. s \in Seq(R) /\ Len(s) \in Nat /\ DOMAIN s = 1..Len(s)
    BY LenProperties DEF IsPlan
  <1> HIDE DEF R
  <1>2. Len(s) # 0
    BY <1>1, EmptySeq
  <1>3. Tail(s) \in Seq(R) /\ Len(Tail(s)) = Len(s) - 1 /\ Head(s) = s[1]
        /\ \A n \in 1..(Len(s) - 1) : Tail(s)[n] = s[n + 1]
    BY <1>1, HeadTailProperties
  <1>4. DOMAIN Tail(s) = 1..(Len(s) - 1) /\ Len(s) - 1 \in Nat
    BY <1>1, <1>2, <1>3, LenProperties
  <1>5. Tail(s) = <<>> <=> Len(s) = 1
    BY <1>1, <1>2, <1>3, EmptySeq
  <1>6. IsPlan(Tail(s))
    <2> DEFINE u == Tail(s)
               k == Len(s) - 1
               S == {u[n] : n \in DOMAIN u}
    <2>1. u \in [1..k -> R] /\ k \in Nat /\ DOMAIN u = 1..k
      BY <1>1, <1>3, <1>4, LenProperties
    <2>2. \A n \in 1..k : u[n] \in S
      BY <2>1
    <2> HIDE DEF u, k, S
    <2>3. u \in [1..k -> S]
      BY <2>1, <2>2
    <2>4. u \in Seq(S)
      BY <2>1, <2>3, SeqDef
    <2> QED
      BY <2>4 DEF IsPlan, u, S
  <1>7. \A n \in DOMAIN Tail(s) : n + 1 \in DOMAIN s /\ n + 1 # 1 /\ Tail(s)[n] = s[n + 1]
    BY <1>1, <1>2, <1>3, <1>4
  <1>8. \A n \in DOMAIN s : n = 1 \/ (n - 1 \in DOMAIN Tail(s) /\ Tail(s)[n - 1] = s[n])
    BY <1>1, <1>2, <1>3, <1>4
  <1> QED
    BY <1>1, <1>2, <1>3, <1>4, <1>5, <1>6, <1>7, <1>8

\* A request that made no id makes none.
LEMMA NothingFresh ==
    ASSUME NEW t, NEW x, t.copy = <<>>
    PROVE  ~Fresh(t, x)
  BY DEF Fresh

\* A request at rest carries nothing.
LEMMA RestIsGood ==
    ASSUME NEW d, NEW s
    PROVE  Good(d, s, Rest) /\ Rest.copy = <<>>
  <1>1. Ordered(Rest)
    <2>1. Rest.plan = <<>> /\ Rest.dirty = NoColumns /\ Rest.phase = "idle" /\ Rest.fate = "told"
      BY DEF Rest
    <2>2. IsPlan(<<>>)
      BY EmptySeq DEF IsPlan
    <2>3. DOMAIN NoColumns = {}
      BY DEF NoColumns
    <2>4. Rest = [phase |-> Rest.phase, plan |-> Rest.plan, fate |-> Rest.fate,
                  change |-> Rest.change, dirty |-> Rest.dirty, version |-> Rest.version,
                  seen |-> Rest.seen, gone |-> Rest.gone, copy |-> Rest.copy,
                  inserted |-> Rest.inserted, token |-> Rest.token]
      BY DEF Rest
    <2> QED
      BY <2>1, <2>2, <2>3, <2>4 DEF Ordered
  <1>2. DOMAIN Rest.plan = {} /\ DOMAIN Rest.dirty = {} /\ Rest.phase = "idle" /\ Rest.copy = <<>>
    BY DEF Rest, NoColumns
  <1> QED
    BY <1>1, <1>2 DEF Good, Apart, Planned, Found

\* The invariant is kept when one request moves from its transaction to u, and
\* stores at most what it has made.
LEMMA MoveKeeps ==
    ASSUME IInv, NEW r \in Requests, NEW u,
           open' = [open EXCEPT ![r] = u], calls' = calls,
           Grows(db, sessions, db', sessions'),
           db' = [x \in Places |-> db'[x]], sessions' \in [Invitations -> Nat],
           RowsAgree(db', sessions'), Good(db', sessions', u),
           u.copy \in {open[r].copy, <<>>},
           \A x \in Places : In(db', x) => In(db, x) \/ (Fresh(open[r], x) /\ u.copy = <<>>)
    PROVE  IInv'
  <1>1. open'[r] = u /\ \A q \in Requests \ {r} : open'[q] = open[q]
    BY DEF IInv, Shapes
  <1>2. Shapes'
    BY DEF IInv, Shapes
  <1>3. \A x : Fresh(u, x) => Fresh(open[r], x) /\ u.copy # <<>>
    BY NothingFresh DEF Fresh
  <1>4. ASSUME NEW q \in Requests, NEW x \in Places, Fresh(open'[q], x)
        PROVE  ~In(db', x) /\ \A p \in Requests \ {q} : ~Fresh(open'[p], x)
    <2>1. CASE q = r
      BY <1>1, <1>3, <1>4, <2>1 DEF IInv, IdsAreApart
    <2>2. CASE q # r
      BY <1>1, <1>3, <1>4, <2>2 DEF IInv, IdsAreApart
    <2> QED
      BY <2>1, <2>2
  <1>5. ASSUME NEW op \in Operations, NEW x \in Places, <<op, x[1]>> \in Makes, x[2] > calls'[op]
        PROVE  ~In(db', x) /\ \A q \in Requests : ~Fresh(open'[q], x)
    BY <1>1, <1>3, <1>5 DEF IInv, IdsAreApart
  <1>6. IdsAreApart'
    BY <1>4, <1>5 DEF IdsAreApart, In
  <1>7. ASSUME NEW q \in Requests
        PROVE  Good(db', sessions', open'[q])
    BY <1>1, GoodGoesOn DEF IInv
  <1> QED
    BY <1>2, <1>6, <1>7 DEF IInv

\* A transaction that is rolled back takes nothing with it.
LEMMA RollBackKeeps ==
    ASSUME IInv, NEW r \in Requests, RollBack(r)
    PROVE  IInv'
  BY RestIsGood, GrowsReflexive, MoveKeeps DEF RollBack, IInv, Shapes

-----------------------------------------------------------------------------
(* Load and Flush *)

\* A transaction with the same cargo is as good.
LEMMA SameCargo ==
    ASSUME NEW d, NEW s, NEW t, NEW u, Good(d, s, t), Ordered(u), Found(d, u),
           u.plan = t.plan, u.dirty = t.dirty, u.copy = t.copy, u.fate = t.fate
    PROVE  Good(d, s, u)
  <1>1. Keeps(d, t, d, u)
    BY DEF Keeps, TypedSoon, ProfileSoon, ConsentSoon, Fresh
  <1>2. Grows(d, s, d, s)
    BY GrowsReflexive
  <1>3. Planned(d, s, u)
    BY <1>1, <1>2, FineGoesOn DEF Good, Planned
  <1>4. \A x \in DOMAIN u.dirty : Fine(d, s, u, x, u.dirty[x])
    BY <1>1, <1>2, FineGoesOn DEF Good, Ordered
  <1> QED
    BY <1>3, <1>4 DEF Good, Apart

\* What a merge finds to differ.
LEMMA LoadFinds ==
    ASSUME NEW d, NEW s, NEW t, NEW row, Good(d, s, t), t.plan # <<>>,
           DOMAIN Head(t.plan).object # {},
           \A x \in Places : Fresh(t, x) => ~In(d, x),
           row = IF Head(t.plan).place \in DOMAIN t.dirty
                 THEN Over(d[Head(t.plan).place], t.dirty[Head(t.plan).place])
                 ELSE d[Head(t.plan).place]
    PROVE  LET m == Head(t.plan)
               change == Differing(row, m.object)
           IN  /\ DOMAIN change \subseteq DOMAIN m.object
               /\ \A c \in DOMAIN change : change[c] = m.object[c]
               /\ Fresh(t, m.place) => DOMAIN change = DOMAIN m.object
               /\ m.place \in Profiles /\ m.object = [name |-> "typed"] =>
                     Typed(d, m.place) \/ "name" \in DOMAIN change
  <1> DEFINE m == Head(t.plan)
             change == Differing(row, m.object)
  <1>1. m = t.plan[1] /\ 1 \in DOMAIN t.plan
    BY PlanParts DEF Good, Ordered
  <1>2. m.place \in Places /\ m.place \notin DOMAIN t.dirty
    BY <1>1 DEF Good, Planned, Apart
  <1>3. row = d[m.place]
    BY <1>2
  <1>4. DOMAIN change = {c \in DOMAIN m.object : c \notin DOMAIN row \/ row[c] # m.object[c]}
        /\ \A c \in DOMAIN change : change[c] = m.object[c]
    BY DEF Differing
  <1> HIDE DEF change, m
  <1>5. Fresh(t, m.place) => DOMAIN change = DOMAIN m.object
    BY <1>2, <1>3, <1>4 DEF In
  <1>6. ASSUME m.place \in Profiles, m.object = [name |-> "typed"], "name" \notin DOMAIN change
        PROVE  Typed(d, m.place)
    <2>1. "name" \in DOMAIN m.object /\ m.object["name"] = "typed"
      BY <1>6
    <2>2. "name" \in DOMAIN row /\ row["name"] = "typed"
      BY <1>4, <1>6, <2>1
    <2> QED
      BY <1>3, <2>2 DEF Typed, In
  <1> QED
    BY <1>4, <1>5, <1>6 DEF change, m

\* The SELECT of a merge, or the snapshot of the DELETE, changes no row.
LEMMA LoadKeeps ==
    ASSUME IInv, NEW r \in Requests, Load(r)
    PROVE  IInv'
  <1> DEFINE t == open[r]
             x == Head(t.plan).place
             u == IF OnCriteria(r)
                  THEN [t EXCEPT !.phase = "flush", !.version = x, !.seen = criteria[x]]
                  ELSE [t EXCEPT !.phase = "flush",
                                 !.change = Differing(Written(r, x), Head(t.plan).object)]
  <1>1. open' = [open EXCEPT ![r] = u] /\ db' = db /\ calls' = calls /\ sessions' = sessions
        /\ t.phase = "load"
    BY DEF Load, IInv, Shapes, Now
  <1>2. Good(db, sessions, t) /\ t.plan # <<>>
    BY <1>1 DEF IInv, Good, Ordered
  <1>3. /\ Ordered(t)
        /\ u.plan = t.plan /\ u.dirty = t.dirty /\ u.copy = t.copy /\ u.fate = t.fate
        /\ u.phase = "flush"
        /\ Ordered(u)
    BY <1>1, <1>2 DEF Good, Ordered
  <1>4. Found(db, u)
    <2>1. CASE OnCriteria(r)
      <3>1. u.change = NoColumns
        BY <1>1, <1>3, <2>1 DEF Ordered
      <3>2. DOMAIN Head(t.plan).object = {} /\ DOMAIN [name |-> "typed"] # {}
        BY <2>1 DEF OnCriteria, Now
      <3> HIDE DEF u
      <3> QED
        BY <1>3, <3>1, <3>2 DEF Found, NoColumns
    <2>2. CASE ~OnCriteria(r)
      <3>1. u.change = Differing(Written(r, x), Head(t.plan).object)
        BY <1>3, <2>2 DEF Ordered
      <3>2. DOMAIN Head(t.plan).object # {}
        BY <2>2 DEF OnCriteria, Now
      <3>3. Written(r, x) = IF x \in DOMAIN t.dirty THEN Over(db[x], t.dirty[x]) ELSE db[x]
        BY DEF Written
      <3>4. \A y \in Places : Fresh(t, y) => ~In(db, y)
        BY DEF IInv, IdsAreApart
      <3> HIDE DEF u
      <3>5. /\ DOMAIN u.change \subseteq DOMAIN Head(t.plan).object
            /\ \A c \in DOMAIN u.change : u.change[c] = Head(t.plan).object[c]
            /\ Fresh(t, x) => DOMAIN u.change = DOMAIN Head(t.plan).object
            /\ x \in Profiles /\ Head(t.plan).object = [name |-> "typed"] =>
                     Typed(db, x) \/ "name" \in DOMAIN u.change
        BY SMTT(40), <1>2, <3>1, <3>2, <3>3, <3>4, LoadFinds
      <3> QED
        BY <1>3, <3>5 DEF Found, Fresh
    <2> QED
      BY <2>1, <2>2
  <1> HIDE DEF u
  <1>5. Good(db, sessions, u)
    BY <1>2, <1>3, <1>4, SameCargo
  <1> QED
    BY <1>1, <1>3, <1>5, GrowsReflexive, MoveKeeps DEF IInv, Shapes

\* A flush writes what the merge found to differ, and goes on with the plan.
LEMMA FlushedIsGood ==
    ASSUME NEW d, NEW s, NEW z, NEW t, NEW u, Good(d, s, t), t.phase = "flush",
           Grows(d, s, d, z), Ordered(u), u.phase # "flush",
           u.plan = Tail(t.plan), u.copy = t.copy, u.fate = t.fate,
           IF DOMAIN t.change = {} THEN u.dirty = t.dirty
           ELSE /\ DOMAIN u.dirty = DOMAIN t.dirty \cup {Head(t.plan).place}
                /\ Head(t.plan).place \notin DOMAIN t.dirty =>
                       u.dirty[Head(t.plan).place] = t.change
                /\ \A y \in DOMAIN t.dirty \ {Head(t.plan).place} : u.dirty[y] = t.dirty[y]
    PROVE  Good(d, z, u)
  <1> DEFINE m == Head(t.plan)
  <1>1. /\ 1 \in DOMAIN t.plan /\ m = t.plan[1]
        /\ \A n \in DOMAIN u.plan : n + 1 \in DOMAIN t.plan /\ n + 1 # 1 /\ u.plan[n] = t.plan[n + 1]
        /\ \A n \in DOMAIN t.plan : n = 1 \/ (n - 1 \in DOMAIN u.plan /\ u.plan[n - 1] = t.plan[n])
        /\ \A n \in DOMAIN u.plan : n \in Nat
    BY PlanParts DEF Good, Ordered
  <1>2. /\ DOMAIN t.change \subseteq DOMAIN m.object
        /\ Fresh(t, m.place) => DOMAIN t.change = DOMAIN m.object
        /\ \A c \in DOMAIN t.change : t.change[c] = m.object[c]
        /\ m.place \in Profiles /\ m.object = [name |-> "typed"] =>
              Typed(d, m.place) \/ "name" \in DOMAIN t.change
    BY DEF Good, Found
  <1>3. /\ m.place \in Places /\ Fine(d, s, t, m.place, m.object)
        /\ m = Merge(m.place, m.object)
    BY <1>1 DEF Good, Planned
  <1>4. DOMAIN m.object # {} => m.place \notin DOMAIN t.dirty
    BY <1>1 DEF Good, Apart
  <1> HIDE DEF m
  <1>5. /\ DOMAIN t.dirty \subseteq DOMAIN u.dirty
        /\ \A y \in DOMAIN t.dirty : u.dirty[y] = t.dirty[y]
        /\ DOMAIN t.change # {} => m.place \in DOMAIN u.dirty /\ u.dirty[m.place] = t.change
        /\ \A y \in DOMAIN u.dirty : y \in DOMAIN t.dirty \/ (y = m.place /\ DOMAIN t.change # {})
    BY <1>2, <1>4 DEF m
  <1>6. \A x : Fresh(t, x) <=> Fresh(u, x)
    BY DEF Fresh
  <1>7. ASSUME NEW y \in Profiles, TypedSoon(d, t, y)
        PROVE  TypedSoon(d, u, y)
    <2>1. ASSUME NEW n \in DOMAIN t.plan, t.plan[n] = Merge(y, [name |-> "typed"])
          PROVE  TypedSoon(d, u, y)
      <3>1. CASE n = 1
        <4>1. m.place = y /\ m.object = [name |-> "typed"]
          BY <1>1, <2>1, <3>1 DEF Merge
        <4>2. CASE Typed(d, y)
          BY <4>2 DEF TypedSoon
        <4>3. CASE "name" \in DOMAIN t.change
          <5>1. t.change["name"] = m.object["name"]
            BY <1>2, <4>3
          <5>2. t.change.name = "typed"
            BY <4>1, <5>1
          <5> QED
            BY <1>5, <4>1, <4>3, <5>2 DEF TypedSoon
        <4> QED
          BY <1>2, <4>1, <4>2, <4>3
      <3>2. CASE n # 1
        BY <1>1, <2>1, <3>2 DEF TypedSoon
      <3> QED
        BY <3>1, <3>2
    <2> QED
      BY <1>5, <1>7, <2>1 DEF TypedSoon
  <1>8. ASSUME NEW y \in Profiles, ProfileSoon(d, t, y)
        PROVE  ProfileSoon(d, u, y)
    <2>1. ASSUME NEW n \in DOMAIN t.plan, t.plan[n].place = y, DOMAIN t.plan[n].object # {}
          PROVE  ProfileSoon(d, u, y)
      <3>1. CASE n = 1
        <4>1. m.place = y /\ DOMAIN m.object # {}
          BY <1>1, <2>1, <3>1
        <4> QED
          BY <1>2, <1>3, <1>5, <4>1 DEF ProfileSoon, Fine
      <3>2. CASE n # 1
        BY <1>1, <2>1, <3>2 DEF ProfileSoon
      <3> QED
        BY <3>1, <3>2
    <2> QED
      BY <1>5, <1>8, <2>1 DEF ProfileSoon
  <1>9. ASSUME NEW i \in Invitations, ConsentSoon(d, t, i)
        PROVE  ConsentSoon(d, u, i)
    <2>1. ASSUME NEW c \in Consents, Fresh(t, c), c \in DOMAIN t.dirty, t.dirty[c].invitation = i
          PROVE  ConsentSoon(d, u, i)
      BY <1>5, <1>6, <2>1 DEF ConsentSoon
    <2>2. ASSUME NEW c \in Consents, Fresh(t, c), NEW n \in DOMAIN t.plan,
                 t.plan[n].place = c, DOMAIN t.plan[n].object # {},
                 t.plan[n].object.invitation = i
          PROVE  ConsentSoon(d, u, i)
      <3>1. CASE n = 1
        <4>1. m.place = c /\ DOMAIN m.object # {} /\ m.object.invitation = i
          BY <1>1, <2>2, <3>1
        <4>2. DOMAIN m.object = {"invitation", "accepted_at"}
          BY <1>3, <2>2, <4>1, Tables DEF Fine, Adds, Overwrites, Columns
        <4>3. DOMAIN t.change = DOMAIN m.object /\ t.change["invitation"] = m.object["invitation"]
          BY <1>2, <2>2, <4>1, <4>2
        <4>4. c \in DOMAIN u.dirty /\ u.dirty[c].invitation = i
          BY <1>5, <4>1, <4>3
        <4> QED
          BY <1>6, <2>2, <4>4 DEF ConsentSoon
      <3>2. CASE n # 1
        BY <1>1, <1>6, <2>2, <3>2 DEF ConsentSoon
      <3> QED
        BY <3>1, <3>2
    <2> QED
      BY <1>9, <2>1, <2>2 DEF ConsentSoon
  <1>10. Keeps(d, t, d, u)
    BY <1>7, <1>8, <1>9 DEF Keeps
  <1>11. Planned(d, z, u)
    BY <1>1, <1>10, FineGoesOn DEF Good, Planned
  <1>12. Apart(u)
    <2>1. ASSUME NEW n \in DOMAIN u.plan, DOMAIN u.plan[n].object # {}
          PROVE  u.plan[n].place \notin DOMAIN u.dirty
      <3>1. n + 1 \in DOMAIN t.plan \ {1} /\ u.plan[n] = t.plan[n + 1]
        BY <1>1, <2>1
      <3> QED
        BY <1>1, <1>2, <1>5, <2>1, <3>1 DEF Good, Apart
    <2>2. ASSUME NEW n \in DOMAIN u.plan, DOMAIN u.plan[n].object # {},
                 NEW k \in DOMAIN u.plan \ {n}, DOMAIN u.plan[k].object # {}
          PROVE  u.plan[k].place # u.plan[n].place
      <3>1. /\ n + 1 \in DOMAIN t.plan /\ k + 1 \in DOMAIN t.plan \ {n + 1}
            /\ u.plan[n] = t.plan[n + 1] /\ u.plan[k] = t.plan[k + 1]
        BY <1>1, <2>2
      <3> QED
        BY <2>2, <3>1 DEF Good, Apart
    <2> QED
      BY <2>1, <2>2 DEF Apart
  <1>13. ASSUME NEW y \in DOMAIN u.dirty
         PROVE  Fine(d, z, u, y, u.dirty[y])
    <2>1. CASE y \in DOMAIN t.dirty
      BY <1>5, <1>10, <2>1, FineGoesOn DEF Good, Ordered
    <2>2. CASE y = m.place /\ DOMAIN t.change # {}
      <3>1. Fine(d, s, t, y, t.change)
        BY <1>2, <1>3, <2>2, FineOfPart
      <3> QED
        BY <1>3, <1>5, <1>10, <2>2, <3>1, FineGoesOn
    <2> QED
      BY <1>5, <2>1, <2>2
  <1>14. Found(d, u)
    BY DEF Found
  <1> QED
    BY <1>11, <1>12, <1>13, <1>14 DEF Good

\* The transaction after a flush, w being what it wrote.
LEMMA FlushedFields ==
    ASSUME NEW t, NEW phase, NEW plan, NEW fate, NEW change, NEW dirty, NEW version, NEW seen,
           NEW gone, NEW copy, NEW inserted, NEW token, NEW w, NEW u,
           w = [phase |-> phase, plan |-> plan, fate |-> fate, change |-> change,
                dirty |-> dirty, version |-> version, seen |-> seen, gone |-> gone,
                copy |-> copy, inserted |-> inserted, token |-> token],
           u = Flushed(t, w)
    PROVE  /\ u.plan = Tail(plan) /\ u.copy = copy /\ u.fate = fate
           /\ u.dirty = dirty /\ u.change = NoColumns
           /\ u.version = version /\ u.gone = gone /\ u.inserted = inserted
           /\ u.phase = IF Len(t.plan) = 1 THEN t.fate ELSE "load"
           /\ u = [phase |-> u.phase, plan |-> u.plan, fate |-> u.fate, change |-> u.change,
                   dirty |-> u.dirty, version |-> u.version, seen |-> u.seen,
                   gone |-> u.gone, copy |-> u.copy, inserted |-> u.inserted,
                   token |-> u.token]
  <1> DEFINE k == IF Len(t.plan) = 1 THEN t.fate ELSE "load"
             l == Tail(plan)
  <1>1. u = [w EXCEPT !.plan = Tail(w.plan), !.change = NoColumns, !.phase = k]
    BY DEF Flushed
  <1>2. w.plan = plan
    OBVIOUS
  <1> HIDE DEF k
  <1>3. u = [phase |-> k, plan |-> l, fate |-> fate, change |-> NoColumns,
             dirty |-> dirty, version |-> version, seen |-> seen, gone |-> gone,
             copy |-> copy, inserted |-> inserted, token |-> token]
    <2>1. u = [w EXCEPT !.plan = l, !.change = NoColumns, !.phase = k]
      BY <1>1, <1>2
    <2> HIDE DEF l
    <2> QED
      BY <2>1
  <1> HIDE DEF l
  <1>4. /\ u.phase = k /\ u.plan = l /\ u.fate = fate /\ u.change = NoColumns
        /\ u.dirty = dirty /\ u.version = version /\ u.seen = seen /\ u.gone = gone
        /\ u.copy = copy /\ u.inserted = inserted /\ u.token = token
    BY <1>3
  <1> QED
    BY <1>3, <1>4 DEF k, l

\* What has a transaction's fields and no others.
Whole(w) ==
    w = [phase |-> w.phase, plan |-> w.plan, fate |-> w.fate, change |-> w.change,
         dirty |-> w.dirty, version |-> w.version, seen |-> w.seen, gone |-> w.gone,
         copy |-> w.copy, inserted |-> w.inserted, token |-> w.token]

\* The same, by the fields of what was written.
LEMMA FlushedParts ==
    ASSUME NEW t, NEW w, Whole(w)
    PROVE  \A u : u = Flushed(t, w) =>
               /\ u.plan = Tail(w.plan) /\ u.copy = w.copy /\ u.fate = w.fate
               /\ u.dirty = w.dirty /\ u.change = NoColumns
               /\ u.version = w.version /\ u.gone = w.gone /\ u.inserted = w.inserted
               /\ u.phase = IF Len(t.plan) = 1 THEN t.fate ELSE "load"
               /\ Whole(u)
  <1> SUFFICES ASSUME NEW u, u = Flushed(t, w)
               PROVE  /\ u.plan = Tail(w.plan) /\ u.copy = w.copy /\ u.fate = w.fate
                      /\ u.dirty = w.dirty /\ u.change = NoColumns
                      /\ u.version = w.version /\ u.gone = w.gone /\ u.inserted = w.inserted
                      /\ u.phase = IF Len(t.plan) = 1 THEN t.fate ELSE "load"
                      /\ Whole(u)
    OBVIOUS
  <1>1. u = Flushed(t, w)
    OBVIOUS
  <1>2. \E phase, plan, fate, change, dirty, version, seen, gone, copy, inserted, token :
           w = [phase |-> phase, plan |-> plan, fate |-> fate, change |-> change,
                dirty |-> dirty, version |-> version, seen |-> seen, gone |-> gone,
                copy |-> copy, inserted |-> inserted, token |-> token]
    <2> WITNESS w.phase, w.plan, w.fate, w.change, w.dirty, w.version, w.seen, w.gone,
                w.copy, w.inserted, w.token
    <2> QED
      BY Zenon DEF Whole
  <1>3. PICK phase, plan, fate, change, dirty, version, seen, gone, copy, inserted, token :
           w = [phase |-> phase, plan |-> plan, fate |-> fate, change |-> change,
                dirty |-> dirty, version |-> version, seen |-> seen, gone |-> gone,
                copy |-> copy, inserted |-> inserted, token |-> token]
    BY <1>2, Zenon
  <1>4. /\ w.plan = plan /\ w.copy = copy /\ w.fate = fate /\ w.dirty = dirty
        /\ w.version = version /\ w.gone = gone /\ w.inserted = inserted
    BY <1>3
  <1>5. /\ u.plan = Tail(plan) /\ u.copy = copy /\ u.fate = fate
        /\ u.dirty = dirty /\ u.change = NoColumns
        /\ u.version = version /\ u.gone = gone /\ u.inserted = inserted
        /\ u.phase = IF Len(t.plan) = 1 THEN t.fate ELSE "load"
        /\ u = [phase |-> u.phase, plan |-> u.plan, fate |-> u.fate, change |-> u.change,
                dirty |-> u.dirty, version |-> u.version, seen |-> u.seen, gone |-> u.gone,
                copy |-> u.copy, inserted |-> u.inserted, token |-> u.token]
    BY <1>1, <1>3, FlushedFields
  <1>6. u.plan = Tail(w.plan) /\ u.copy = w.copy /\ u.fate = w.fate /\ u.dirty = w.dirty
        /\ u.version = w.version /\ u.gone = w.gone /\ u.inserted = w.inserted
    BY <1>4, <1>5, Zenon
  <1> QED
    BY <1>5, <1>6, Zenon DEF Whole

\* An UPDATE or INSERT that is flushed is seen by its own transaction only.
LEMMA FlushKeeps ==
    ASSUME IInv, NEW r \in Requests, Flush(r)
    PROVE  IInv'
  <1> DEFINE t == open[r]
             x == Head(t.plan).place
             w == IF OnCriteria(r)
                  THEN [t EXCEPT !.gone = @ \cup (t.seen \cap criteria[x]), !.inserted = TRUE]
                  ELSE IF DOMAIN t.change = {} THEN t
                  ELSE [t EXCEPT !.dirty = Over(@, [y \in {x} |->
                           IF x \in DOMAIN t.dirty THEN Over(t.dirty[x], t.change) ELSE t.change])]
             u == Flushed(t, w)
             z == IF t.token = x /\ t.token # <<>>
                  THEN [sessions EXCEPT ![x] = @ + 1] ELSE sessions
  <1>1. open' = [open EXCEPT ![r] = u] /\ db' = db /\ calls' = calls /\ sessions' = z
        /\ t.phase = "flush"
    BY DEF Flush, Now
  <1>2. Good(db, sessions, t) /\ t.plan # <<>>
    BY <1>1 DEF IInv, Good, Ordered
  <1>3. z \in [Invitations -> Nat] /\ \A i \in Invitations : sessions[i] > 0 => z[i] > 0
    <2>1. sessions \in [Invitations -> Nat]
      BY DEF IInv, Shapes
    <2>2. CASE t.token = x /\ t.token # <<>>
      <3>1. z = [sessions EXCEPT ![x] = @ + 1]
        BY <2>2
      <3>2. \A i \in Invitations : z[i] = IF i = x THEN sessions[i] + 1 ELSE sessions[i]
        BY <2>1, <3>1
      <3>3. z = [i \in Invitations |-> z[i]]
        BY <2>1, <3>1
      <3>4. \A i \in Invitations : z[i] \in Nat /\ (sessions[i] > 0 => z[i] > 0)
        BY <2>1, <3>2
      <3> HIDE DEF z
      <3> QED
        BY <3>3, <3>4
    <2>3. CASE ~(t.token = x /\ t.token # <<>>)
      BY <2>1, <2>3
    <2> QED
      BY <2>2, <2>3
  <1> HIDE DEF z
  <1>4. Grows(db, sessions, db, z)
    BY <1>3 DEF Grows
  <1>5. OnCriteria(r) => DOMAIN t.change = {}
    BY <1>1, <1>2 DEF Good, Found, OnCriteria, Now
  <1>6. /\ w.plan = t.plan /\ w.copy = t.copy /\ w.fate = t.fate
        /\ w = [phase |-> w.phase, plan |-> w.plan, fate |-> w.fate, change |-> w.change,
                dirty |-> w.dirty, version |-> w.version, seen |-> w.seen, gone |-> w.gone,
                copy |-> w.copy, inserted |-> w.inserted, token |-> w.token]
        /\ DOMAIN t.change = {} => w.dirty = t.dirty
        /\ DOMAIN t.change # {} =>
              w.dirty = Over(t.dirty, [y \in {x} |->
                           IF x \in DOMAIN t.dirty THEN Over(t.dirty[x], t.change) ELSE t.change])
    BY <1>2, <1>5 DEF Good, Ordered
  <1> HIDE DEF w
  <1>7. DOMAIN t.change # {} =>
           /\ DOMAIN w.dirty = DOMAIN t.dirty \cup {x}
           /\ x \notin DOMAIN t.dirty => w.dirty[x] = t.change
           /\ \A y \in DOMAIN t.dirty \ {x} : w.dirty[y] = t.dirty[y]
    BY <1>6 DEF Over
  <1>8. /\ u.plan = Tail(t.plan) /\ u.copy = t.copy /\ u.fate = t.fate /\ u.dirty = w.dirty
        /\ u.change = NoColumns
        /\ u.phase = IF Len(t.plan) = 1 THEN t.fate ELSE "load"
        /\ u = [phase |-> u.phase, plan |-> u.plan, fate |-> u.fate, change |-> u.change,
                dirty |-> u.dirty, version |-> u.version, seen |-> u.seen, gone |-> u.gone,
                copy |-> u.copy, inserted |-> u.inserted, token |-> u.token]
    <2>1. u = Flushed(t, w)
      OBVIOUS
    <2>2. w = [phase |-> w.phase, plan |-> w.plan, fate |-> w.fate, change |-> w.change,
               dirty |-> w.dirty, version |-> w.version, seen |-> w.seen, gone |-> w.gone,
               copy |-> w.copy, inserted |-> w.inserted, token |-> w.token]
      BY <1>6
    <2> HIDE DEF u, t, x
    <2>3. /\ u.plan = Tail(w.plan) /\ u.copy = w.copy /\ u.fate = w.fate
          /\ u.dirty = w.dirty /\ u.change = NoColumns
          /\ u.phase = IF Len(t.plan) = 1 THEN t.fate ELSE "load"
          /\ u = [phase |-> u.phase, plan |-> u.plan, fate |-> u.fate, change |-> u.change,
                  dirty |-> u.dirty, version |-> u.version, seen |-> u.seen, gone |-> u.gone,
                  copy |-> u.copy, inserted |-> u.inserted, token |-> u.token]
      <3>1. Whole(w)
        BY <2>2, Zenon DEF Whole
      <3>2. /\ u.plan = Tail(w.plan) /\ u.copy = w.copy /\ u.fate = w.fate
            /\ u.dirty = w.dirty /\ u.change = NoColumns
            /\ u.phase = IF Len(t.plan) = 1 THEN t.fate ELSE "load"
            /\ Whole(u)
        BY <2>1, <3>1, FlushedParts
      <3> QED
        BY <3>2, Zenon DEF Whole
    <2>4. w.plan = t.plan /\ w.copy = t.copy /\ w.fate = t.fate
      BY <1>6
    <2> QED
      BY <2>3, <2>4, Zenon
  <1> HIDE DEF u
  <1>9. Ordered(u)
    <2>1. IsPlan(Tail(t.plan)) /\ (Tail(t.plan) = <<>> <=> Len(t.plan) = 1)
      BY <1>2, PlanParts DEF Good, Ordered
    <2>2. t.fate \in {"told", "refused"} /\ DOMAIN t.dirty \subseteq Places
          /\ \A y \in DOMAIN t.dirty : DOMAIN t.dirty[y] # {}
      BY <1>2 DEF Good, Ordered
    <2>3. x \in Places /\ (DOMAIN t.change # {} => x \notin DOMAIN t.dirty)
      <3>1. 1 \in DOMAIN t.plan /\ Head(t.plan) = t.plan[1]
        BY <1>2, PlanParts DEF Good, Ordered
      <3> QED
        BY <1>1, <1>2, <3>1 DEF Good, Planned, Apart, Found
    <2>4. DOMAIN u.dirty \subseteq Places /\ \A y \in DOMAIN u.dirty : DOMAIN u.dirty[y] # {}
      BY <1>6, <1>7, <1>8, <2>2, <2>3
    <2> QED
      BY <1>8, <2>1, <2>2, <2>4 DEF Ordered
  <1>10. u.phase # "flush"
    BY <1>2, <1>8 DEF Good, Ordered
  <1>11. Good(db, z, u)
    BY <1>1, <1>2, <1>4, <1>6, <1>7, <1>8, <1>9, <1>10, FlushedIsGood
  <1>12. RowsAgree(db, z)
    BY <1>3 DEF IInv, RowsAgree
  <1> QED
    BY <1>1, <1>3, <1>4, <1>8, <1>11, <1>12, MoveKeeps DEF IInv, Shapes

-----------------------------------------------------------------------------
(* Commit *)

\* Columns over a row.
LEMMA Overlaid ==
    ASSUME NEW row, NEW p
    PROVE  /\ DOMAIN Over(row, p) = DOMAIN row \cup DOMAIN p
           /\ \A c \in DOMAIN p : Over(row, p)[c] = p[c]
           /\ \A c \in DOMAIN row \ DOMAIN p : Over(row, p)[c] = row[c]
  BY DEF Over

\* Rows that agree still do once a transaction that is good is committed on top,
\* whatever others committed since it read.
LEMMA CommittedAgrees ==
    ASSUME NEW d, NEW s, NEW e, NEW t, RowsAgree(d, s), Good(d, s, t),
           t.plan = <<>>, t.fate = "told",
           \A x \in Places : Fresh(t, x) => ~In(d, x),
           \A x \in Places : e[x] = IF x \in DOMAIN t.dirty THEN Over(d[x], t.dirty[x]) ELSE d[x]
    PROVE  /\ RowsAgree(e, s)
           /\ Grows(d, s, e, s)
           /\ \A x \in Places : In(e, x) => In(d, x) \/ Fresh(t, x)
  <1> DEFINE p(x) == t.dirty[x]
  <1>1. DOMAIN t.plan = {} /\ DOMAIN t.dirty \subseteq Places
        /\ \A x \in DOMAIN t.dirty : DOMAIN p(x) # {}
    BY DEF Good, Ordered
  <1>2. ASSUME NEW x \in Places, x \notin DOMAIN t.dirty
        PROVE  e[x] = d[x]
    BY <1>2
  <1>3. ASSUME NEW x \in DOMAIN t.dirty
        PROVE  /\ x \in Places
               /\ DOMAIN e[x] = DOMAIN d[x] \cup DOMAIN p(x)
               /\ \A c \in DOMAIN p(x) : e[x][c] = p(x)[c]
               /\ \A c \in DOMAIN d[x] \ DOMAIN p(x) : e[x][c] = d[x][c]
               /\ \/ Fresh(t, x) /\ ~In(d, x) /\ Adds(d, t, x, p(x))
                  \/ In(d, x) /\ DOMAIN p(x) \subseteq Columns[x[1]] /\ Overwrites(d, s, t, x, p(x))
    <2>1. x \in Places /\ e[x] = Over(d[x], t.dirty[x]) /\ DOMAIN p(x) # {}
      BY <1>1
    <2>2. Fine(d, s, t, x, p(x))
      BY DEF Good
    <2> HIDE DEF p
    <2>3. /\ DOMAIN e[x] = DOMAIN d[x] \cup DOMAIN p(x)
          /\ \A c \in DOMAIN p(x) : e[x][c] = p(x)[c]
          /\ \A c \in DOMAIN d[x] \ DOMAIN p(x) : e[x][c] = d[x][c]
      <3>1. /\ DOMAIN Over(d[x], p(x)) = DOMAIN d[x] \cup DOMAIN p(x)
            /\ \A c \in DOMAIN p(x) : Over(d[x], p(x))[c] = p(x)[c]
            /\ \A c \in DOMAIN d[x] \ DOMAIN p(x) : Over(d[x], p(x))[c] = d[x][c]
        BY Overlaid
      <3>2. e[x] = Over(d[x], p(x))
        BY <2>1 DEF p
      <3> QED
        BY <3>1, <3>2
    <2>4. CASE Fresh(t, x)
      BY <2>1, <2>2, <2>3, <2>4 DEF Fine
    <2>5. CASE ~Fresh(t, x)
      BY <2>1, <2>2, <2>3, <2>5 DEF Fine
    <2> QED
      BY <2>4, <2>5
  <1> HIDE DEF p
  <1>4. ASSUME NEW x \in Places
        PROVE  /\ In(d, x) => In(e, x)
               /\ In(e, x) => In(d, x) \/ Fresh(t, x)
               /\ In(e, x) => DOMAIN e[x] = Columns[x[1]]
    <2>1. CASE x \notin DOMAIN t.dirty
      BY <1>2, <2>1 DEF In, RowsAgree
    <2>2. CASE x \in DOMAIN t.dirty
      <3>1. In(d, x) => DOMAIN d[x] = Columns[x[1]]
        BY DEF RowsAgree
      <3> QED
        BY <1>3, <2>2, <3>1 DEF In, Adds
    <2> QED
      BY <2>1, <2>2
  <1>5. ASSUME NEW v \in Versions, In(d, v)
        PROVE  /\ e[v].weighted = d[v].weighted
               /\ d[v].status = "published" => e[v].status = "published"
    <2>1. CASE v \notin DOMAIN t.dirty
      BY <1>2, <2>1, Tables
    <2>2. CASE v \in DOMAIN t.dirty
      <3>1. DOMAIN d[v] = Columns["version"]
        BY <1>5, Tables DEF RowsAgree
      <3>2. "weighted" \in DOMAIN d[v] /\ "status" \in DOMAIN d[v]
        BY <3>1 DEF Columns
      <3>3. Overwrites(d, s, t, v, p(v))
        BY <1>3, <1>5, <2>2
      <3>4. "weighted" \in DOMAIN p(v) => p(v).weighted = d[v].weighted
        BY <3>3 DEF Overwrites
      <3>5. "status" \in DOMAIN p(v) => p(v).status = "published"
        BY <3>3 DEF Overwrites
      <3> QED
        BY <1>3, <2>2, <3>2, <3>4, <3>5
    <2> QED
      BY <2>1, <2>2
  <1>6. ASSUME NEW c \in Campaigns, In(d, c)
        PROVE  /\ e[c].version = d[c].version
               /\ d[c].status = "published" => e[c].status = "published"
    <2>1. CASE c \notin DOMAIN t.dirty
      BY <1>2, <2>1, Tables
    <2>2. CASE c \in DOMAIN t.dirty
      <3>1. DOMAIN d[c] = Columns["campaign"]
        BY <1>6, Tables DEF RowsAgree
      <3>2. "version" \in DOMAIN d[c] /\ "status" \in DOMAIN d[c]
        BY <3>1 DEF Columns
      <3>3. /\ "version" \in DOMAIN p(c) => p(c).version = d[c].version
            /\ "status" \in DOMAIN p(c) => p(c).status = "published"
        BY <1>3, <1>6, <2>2 DEF Overwrites
      <3> QED
        BY <1>3, <2>2, <3>2, <3>3
    <2> QED
      BY <2>1, <2>2
  <1>7. ASSUME NEW i \in Invitations, In(d, i)
        PROVE  e[i].campaign = d[i].campaign
    <2>1. CASE i \notin DOMAIN t.dirty
      BY <1>2, <2>1, Tables
    <2>2. CASE i \in DOMAIN t.dirty
      <3>1. DOMAIN d[i] = Columns["invitation"]
        BY <1>7, Tables DEF RowsAgree
      <3>2. "campaign" \in DOMAIN d[i]
        BY <3>1 DEF Columns
      <3>3. "campaign" \in DOMAIN p(i) => p(i).campaign = d[i].campaign
        BY <1>3, <1>7, <2>2 DEF Overwrites
      <3> QED
        BY <1>3, <2>2, <3>2, <3>3
    <2> QED
      BY <2>1, <2>2
  <1>8. ASSUME NEW y \in Profiles, Typed(d, y)
        PROVE  Typed(e, y)
    <2>1. CASE y \notin DOMAIN t.dirty
      BY <1>2, <1>8, <2>1, Tables DEF Typed, In
    <2>2. CASE y \in DOMAIN t.dirty
      <3>1. DOMAIN d[y] = Columns["profile"] /\ In(d, y)
        BY <1>8, Tables DEF RowsAgree, Typed
      <3>2. "name" \in DOMAIN d[y]
        BY <3>1 DEF Columns
      <3>3. "name" \in DOMAIN p(y) => p(y).name = "typed"
        BY <1>3, <2>2, <3>1 DEF Overwrites
      <3> QED
        BY <1>3, <1>4, <1>8, <2>2, <3>1, <3>2, <3>3, Tables DEF Typed
    <2> QED
      BY <2>1, <2>2
  <1>9. ASSUME NEW c \in Consents, In(d, c)
        PROVE  e[c].invitation = d[c].invitation
    <2>1. c \notin DOMAIN t.dirty
      BY <1>3, <1>9 DEF Overwrites
    <2> QED
      BY <1>2, <2>1, Tables
  <1>10. Grows(d, s, e, s)
    BY <1>4, <1>5, <1>6, <1>7, <1>8, <1>9 DEF Grows
  <1>11. ASSUME NEW y \in Profiles, TypedSoon(d, t, y)
         PROVE  Typed(e, y)
    <2>1. CASE Typed(d, y)
      BY <1>8, <2>1
    <2>2. CASE y \in DOMAIN t.dirty /\ "name" \in DOMAIN p(y) /\ p(y).name = "typed"
      BY <1>3, <2>2 DEF Typed, In
    <2> QED
      BY <1>1, <1>11, <2>1, <2>2 DEF TypedSoon, p
  <1>12. ASSUME NEW y \in Profiles, ProfileSoon(d, t, y)
         PROVE  In(e, y)
    <2>1. CASE In(d, y)
      BY <1>4, <2>1, Tables
    <2>2. CASE y \in DOMAIN t.dirty
      BY <1>1, <1>3, <2>2 DEF In
    <2> QED
      BY <1>1, <1>12, <2>1, <2>2 DEF ProfileSoon
  <1>13. ASSUME NEW i \in Invitations, ConsentSoon(d, t, i)
         PROVE  HasConsent(e, i)
    <2>1. CASE HasConsent(d, i)
      BY <1>10, <2>1, PublishedStays
    <2>2. ASSUME NEW c \in Consents, c \in DOMAIN t.dirty, p(c).invitation = i
          PROVE  HasConsent(e, i)
      <3>1. Adds(d, t, c, p(c))
        BY <1>3, <2>2 DEF Overwrites
      <3>2. "invitation" \in DOMAIN p(c)
        BY <3>1, Tables DEF Adds, Columns
      <3>3. In(e, c) /\ e[c].invitation = i
        BY <1>3, <2>2, <3>2 DEF In
      <3> QED
        BY <3>3 DEF HasConsent
    <2> QED
      BY <1>1, <1>13, <2>1, <2>2 DEF ConsentSoon, p
  <1>14. ASSUME NEW v \in Versions, In(e, v), e[v].status = "published"
         PROVE  e[v].weighted
    <2>1. CASE v \notin DOMAIN t.dirty
      BY <1>2, <1>14, <2>1, Tables DEF In, RowsAgree
    <2>2. CASE v \in DOMAIN t.dirty /\ Adds(d, t, v, p(v))
      <3>1. "status" \in DOMAIN p(v) /\ p(v).status = "draft"
        BY <2>2, Tables DEF Adds, Columns
      <3> QED
        BY <1>3, <1>14, <2>2, <3>1
    <2>3. CASE v \in DOMAIN t.dirty /\ In(d, v) /\ Overwrites(d, s, t, v, p(v))
      <3>1. DOMAIN d[v] = Columns["version"]
        BY <2>3, Tables DEF RowsAgree
      <3>2. "status" \in DOMAIN d[v]
        BY <3>1 DEF Columns
      <3>3. CASE "status" \in DOMAIN p(v)
        BY <1>5, <2>3, <3>3 DEF Overwrites
      <3>4. CASE "status" \notin DOMAIN p(v)
        <4>1. d[v].status = "published"
          BY <1>3, <1>14, <2>3, <3>2, <3>4
        <4> QED
          BY <1>5, <2>3, <4>1 DEF RowsAgree
      <3> QED
        BY <3>3, <3>4
    <2> QED
      BY <1>3, <2>1, <2>2, <2>3
  <1>15. ASSUME NEW c \in Campaigns, In(e, c)
         PROVE  PublishedVersion(e, e[c].version)
    <2>1. CASE In(d, c)
      BY <1>6, <1>10, <2>1, PublishedStays DEF RowsAgree
    <2>2. CASE ~In(d, c)
      <3>1. c \in DOMAIN t.dirty
        BY <1>2, <1>15, <2>2, Tables DEF In
      <3>2. Adds(d, t, c, p(c))
        BY <1>3, <2>2, <3>1
      <3>3. "version" \in DOMAIN p(c) /\ PublishedVersion(d, p(c).version)
        BY <3>2, Tables DEF Adds, Columns
      <3>4. e[c].version = p(c).version
        BY <1>3, <3>1, <3>3
      <3> QED
        BY <1>10, <3>3, <3>4, PublishedStays
    <2> QED
      BY <2>1, <2>2
  <1>16. ASSUME NEW i \in Invitations, In(e, i)
         PROVE  /\ PublishedCampaign(e, e[i].campaign)
                /\ In(e, ProfileOf(i))
                /\ e[i].state \in States
                /\ e[i].state # "invited" => Typed(e, ProfileOf(i)) /\ s[i] > 0
                /\ e[i].state = "consented" => HasConsent(e, i)
    <2>1. CASE ~In(d, i)
      <3>1. i \in DOMAIN t.dirty
        BY <1>2, <1>16, <2>1, Tables DEF In
      <3>2. Adds(d, t, i, p(i))
        BY <1>3, <2>1, <3>1
      <3>3. /\ "campaign" \in DOMAIN p(i) /\ PublishedCampaign(d, p(i).campaign)
            /\ "state" \in DOMAIN p(i) /\ p(i).state = "invited"
            /\ ProfileSoon(d, t, ProfileOf(i))
        BY <3>2, Tables DEF Adds, Columns
      <3>4. e[i].campaign = p(i).campaign /\ e[i].state = "invited"
        BY <1>3, <3>1, <3>3
      <3> QED
        BY <1>10, <1>12, <3>3, <3>4, PublishedStays, Tables DEF States
    <2>2. CASE In(d, i)
      <3>1. /\ PublishedCampaign(e, e[i].campaign) /\ In(e, ProfileOf(i))
        BY <1>4, <1>7, <1>10, <2>2, PublishedStays, Tables DEF RowsAgree
      <3>2. CASE i \in DOMAIN t.dirty /\ "state" \in DOMAIN p(i)
        <4>1. e[i].state = p(i).state
          BY <1>3, <3>2
        <4>2. Overwrites(d, s, t, i, p(i))
          BY <1>3, <2>2, <3>2
        <4> QED
          BY <1>11, <1>13, <3>1, <3>2, <4>1, <4>2, Tables DEF Overwrites
      <3>3. CASE ~(i \in DOMAIN t.dirty /\ "state" \in DOMAIN p(i))
        <4>1. "state" \in DOMAIN d[i]
          BY <2>2, Tables DEF RowsAgree, Columns
        <4>2. e[i].state = d[i].state
          BY <1>2, <1>3, <3>3, <4>1, Tables
        <4> QED
          BY <1>8, <1>10, <2>2, <3>1, <4>2, PublishedStays, Tables DEF RowsAgree
      <3> QED
        BY <3>2, <3>3
    <2> QED
      BY <2>1, <2>2
  <1> QED
    BY <1>4, <1>10, <1>14, <1>15, <1>16 DEF RowsAgree

\* A commit lays the columns that were written over rows that others may have
\* changed since they were read.
LEMMA CommitKeeps ==
    ASSUME IInv, NEW r \in Requests, Commit(r)
    PROVE  IInv'
  <1> DEFINE t == open[r]
  <1>1. /\ open' = [open EXCEPT ![r] = Rest] /\ calls' = calls /\ sessions' = sessions
        /\ db' = [x \in Places |-> IF x \in DOMAIN t.dirty THEN Over(db[x], t.dirty[x]) ELSE db[x]]
        /\ t.phase = "told"
    BY DEF Commit, Written
  <1>2. Good(db, sessions, t) /\ t.plan = <<>> /\ t.fate = "told"
    BY <1>1 DEF IInv, Good, Ordered
  <1>3. \A x \in Places : Fresh(t, x) => ~In(db, x)
    BY DEF IInv, IdsAreApart
  <1>4. \A x \in Places : db'[x] = IF x \in DOMAIN t.dirty THEN Over(db[x], t.dirty[x]) ELSE db[x]
    BY <1>1
  <1>5. /\ RowsAgree(db', sessions)
        /\ Grows(db, sessions, db', sessions)
        /\ \A x \in Places : In(db', x) => In(db, x) \/ Fresh(t, x)
    BY <1>2, <1>3, <1>4, CommittedAgrees DEF IInv
  <1>6. db' = [x \in Places |-> db'[x]] /\ sessions' \in [Invitations -> Nat]
    BY <1>1 DEF IInv, Shapes
  <1> QED
    BY <1>1, <1>5, <1>6, RestIsGood, MoveKeeps

-----------------------------------------------------------------------------
(* Requests begin *)

\* A transaction with a plan and nothing done.
Opened(plan, fate, copy, token) ==
    [phase |-> "load", plan |-> plan, fate |-> fate, change |-> NoColumns, dirty |-> NoColumns,
     version |-> <<>>, seen |-> {}, gone |-> {}, copy |-> copy, inserted |-> FALSE,
     token |-> token]

\* It is good when its plan is.
LEMMA OpenedIsGood ==
    ASSUME NEW d, NEW s, NEW plan, NEW fate, NEW copy, NEW token, NEW u,
           u = Opened(plan, fate, copy, token), IsPlan(plan), plan # <<>>,
           fate \in {"told", "refused"}, Planned(d, s, u),
           \A n, m \in DOMAIN plan : n # m /\ DOMAIN plan[n].object # {}
                                           /\ DOMAIN plan[m].object # {} =>
              plan[m].place # plan[n].place
    PROVE  Good(d, s, u)
  <1>1. /\ u.phase = "load" /\ u.plan = plan /\ u.fate = fate /\ u.change = NoColumns
        /\ u.dirty = NoColumns /\ u.version = <<>> /\ u.seen = {} /\ u.gone = {}
        /\ u.copy = copy /\ u.inserted = FALSE /\ u.token = token
    BY DEF Opened
  <1>2. u = [phase |-> u.phase, plan |-> u.plan, fate |-> u.fate, change |-> u.change,
             dirty |-> u.dirty, version |-> u.version, seen |-> u.seen, gone |-> u.gone,
             copy |-> u.copy, inserted |-> u.inserted, token |-> u.token]
    BY DEF Opened
  <1>3. DOMAIN u.dirty = {}
    BY <1>1 DEF NoColumns
  <1>4. Ordered(u)
    BY <1>1, <1>2, <1>3 DEF Ordered
  <1>5. Apart(u)
    BY <1>1, <1>3 DEF Apart
  <1>6. Found(d, u)
    BY <1>1 DEF Found
  <1> QED
    BY <1>3, <1>4, <1>5, <1>6 DEF Good

\* The place and the object of a merge.
LEMMA MergeParts ==
    ASSUME NEW x, NEW p
    PROVE  /\ Merge(x, p).place = x /\ Merge(x, p).object = p
           /\ Merge(x, p) = Merge(Merge(x, p).place, Merge(x, p).object)
  BY DEF Merge

\* Plans of one, two and three merges.
LEMMA OneMerge ==
    ASSUME NEW d, NEW s, NEW x \in Places, NEW p, NEW fate \in {"told", "refused"},
           NEW copy, NEW token, NEW u, u = Opened(<<Merge(x, p)>>, fate, copy, token),
           Fine(d, s, u, x, p)
    PROVE  Good(d, s, u)
  <1> DEFINE a == Merge(x, p)
             plan == <<a>>
  <1>1. a.place = x /\ a.object = p /\ a = Merge(a.place, a.object)
    BY MergeParts
  <1> HIDE DEF a
  <1>2. DOMAIN plan = {1} /\ plan[1] = a /\ plan # <<>>
    OBVIOUS
  <1>3. IsPlan(plan)
    BY DEF IsPlan
  <1>4. u.plan = plan
    BY DEF Opened, a
  <1> HIDE DEF plan
  <1>5. Planned(d, s, u)
    BY <1>1, <1>2, <1>4 DEF Planned
  <1>6. u = Opened(plan, fate, copy, token)
    BY DEF plan, a
  <1> QED
    BY <1>1, <1>2, <1>3, <1>5, <1>6, OpenedIsGood

\* Of two, which write different rows unless one is of criteria.
LEMMA TwoMerges ==
    ASSUME NEW d, NEW s, NEW x \in Places, NEW p, NEW y \in Places, NEW q,
           NEW fate \in {"told", "refused"}, NEW copy, NEW token, NEW u,
           u = Opened(<<Merge(x, p), Merge(y, q)>>, fate, copy, token),
           Fine(d, s, u, x, p), Fine(d, s, u, y, q), DOMAIN q = {} \/ x # y
    PROVE  Good(d, s, u)
  <1> DEFINE a == Merge(x, p)
             b == Merge(y, q)
             plan == <<a, b>>
  <1>1. /\ a.place = x /\ a.object = p /\ a = Merge(a.place, a.object)
        /\ b.place = y /\ b.object = q /\ b = Merge(b.place, b.object)
    BY MergeParts
  <1> HIDE DEF a, b
  <1>2. DOMAIN plan = {1, 2} /\ plan[1] = a /\ plan[2] = b /\ plan # <<>>
    OBVIOUS
  <1>3. IsPlan(plan)
    BY DEF IsPlan
  <1>4. u.plan = plan
    BY DEF Opened, a, b
  <1> HIDE DEF plan
  <1>5. Planned(d, s, u)
    BY <1>1, <1>2, <1>4 DEF Planned
  <1>6. u = Opened(plan, fate, copy, token)
    BY DEF plan, a, b
  <1> QED
    BY <1>1, <1>2, <1>3, <1>5, <1>6, OpenedIsGood

\* Of three, which write different rows.
LEMMA ThreeMerges ==
    ASSUME NEW d, NEW s, NEW x \in Places, NEW p, NEW y \in Places, NEW q,
           NEW w \in Places, NEW o,
           NEW fate \in {"told", "refused"}, NEW copy, NEW token, NEW u,
           u = Opened(<<Merge(x, p), Merge(y, q), Merge(w, o)>>, fate, copy, token),
           Fine(d, s, u, x, p), Fine(d, s, u, y, q), Fine(d, s, u, w, o),
           x # y, x # w, y # w
    PROVE  Good(d, s, u)
  <1> DEFINE a == Merge(x, p)
             b == Merge(y, q)
             c == Merge(w, o)
             plan == <<a, b, c>>
  <1>1. /\ a.place = x /\ a.object = p /\ a = Merge(a.place, a.object)
        /\ b.place = y /\ b.object = q /\ b = Merge(b.place, b.object)
        /\ c.place = w /\ c.object = o /\ c = Merge(c.place, c.object)
    BY MergeParts
  <1> HIDE DEF a, b, c
  <1>2. DOMAIN plan = {1, 2, 3} /\ plan[1] = a /\ plan[2] = b /\ plan[3] = c /\ plan # <<>>
    OBVIOUS
  <1>3. IsPlan(plan)
    BY DEF IsPlan
  <1>4. u.plan = plan
    BY DEF Opened, a, b, c
  <1> HIDE DEF plan
  <1>5. Planned(d, s, u)
    BY <1>1, <1>2, <1>4 DEF Planned
  <1>6. u = Opened(plan, fate, copy, token)
    BY DEF plan, a, b, c
  <1> QED
    BY <1>1, <1>2, <1>3, <1>5, <1>6, OpenedIsGood

\* The id that a request makes is one that nobody has made.
LEMMA BeginKeeps ==
    ASSUME IInv, NEW r \in Requests, NEW op \in Operations, NEW u,
           open' = [open EXCEPT ![r] = u], calls' = [calls EXCEPT ![op] = @ + 1],
           db' = db, sessions' = sessions,
           u.copy \in {<<op, calls[op] + 1>>, <<>>}, Good(db, sessions, u)
    PROVE  IInv'
  <1>1. open'[r] = u /\ \A q \in Requests \ {r} : open'[q] = open[q]
    BY DEF IInv, Shapes
  <1>2. /\ calls \in [Operations -> Nat] /\ calls' \in [Operations -> Nat]
        /\ calls'[op] = calls[op] + 1 /\ \A o \in Operations \ {op} : calls'[o] = calls[o]
    BY DEF IInv, Shapes
  <1>3. Shapes'
    BY <1>2 DEF IInv, Shapes
  <1>4. ASSUME NEW x \in Places, Fresh(u, x)
        PROVE  <<op, x[1]>> \in Makes /\ x[2] = calls[op] + 1
    BY <1>4 DEF Fresh
  <1>5. ASSUME NEW x \in Places, Fresh(u, x)
        PROVE  ~In(db, x) /\ \A q \in Requests : ~Fresh(open[q], x)
    <2>1. x[2] > calls[op]
      <3>1. x[2] = calls[op] + 1
        BY <1>4, <1>5
      <3>2. calls[op] \in Nat
        BY <1>2
      <3> QED
        BY <3>1, <3>2
    <2> QED
      BY <1>4, <1>5, <2>1 DEF IInv, IdsAreApart
  <1>6. ASSUME NEW q \in Requests, NEW x \in Places, Fresh(open'[q], x)
        PROVE  ~In(db', x) /\ \A p \in Requests \ {q} : ~Fresh(open'[p], x)
    <2>1. CASE q = r
      BY <1>1, <1>5, <1>6, <2>1
    <2>2. CASE q # r
      <3>1. ~In(db, x) /\ \A p \in Requests \ {q} : ~Fresh(open[p], x)
        BY <1>1, <1>6, <2>2 DEF IInv, IdsAreApart
      <3>2. ~Fresh(u, x)
        BY <1>1, <1>5, <1>6, <2>2
      <3> QED
        BY <1>1, <3>1, <3>2
    <2> QED
      BY <2>1, <2>2
  <1>7. ASSUME NEW o \in Operations, NEW x \in Places, <<o, x[1]>> \in Makes, x[2] > calls'[o]
        PROVE  ~In(db', x) /\ \A q \in Requests : ~Fresh(open'[q], x)
    <2>1. x[2] > calls[o]
      BY <1>2, <1>7, Tables
    <2>2. ~In(db, x) /\ \A q \in Requests : ~Fresh(open[q], x)
      BY <1>7, <2>1 DEF IInv, IdsAreApart
    <2>3. ~Fresh(u, x)
      <3>1. SUFFICES ASSUME Fresh(u, x) PROVE FALSE
        OBVIOUS
      <3>2. o = op
        BY <1>4, <1>7, <3>1 DEF Makes
      <3> QED
        BY <1>2, <1>4, <1>7, <3>1, <3>2
    <2> QED
      BY <1>1, <2>2, <2>3
  <1>8. IdsAreApart'
    BY <1>6, <1>7 DEF IdsAreApart, In
  <1>9. \A q \in Requests : Good(db', sessions', open'[q])
    BY <1>1 DEF IInv
  <1> QED
    BY <1>3, <1>8, <1>9 DEF IInv

\* Four fields of a transaction change.
LEMMA FourFields ==
    ASSUME NEW phase, NEW plan, NEW fate, NEW change, NEW dirty, NEW version, NEW seen,
           NEW gone, NEW copy, NEW inserted, NEW token, NEW f, NEW g, NEW h, NEW k,
           NEW w, NEW v,
           v = [w EXCEPT !.phase = f, !.plan = g, !.fate = h, !.copy = k],
           w = [phase |-> phase, plan |-> plan, fate |-> fate, change |-> change,
                dirty |-> dirty, version |-> version, seen |-> seen, gone |-> gone,
                copy |-> copy, inserted |-> inserted, token |-> token]
    PROVE  v = [phase |-> f, plan |-> g, fate |-> h, change |-> change,
                dirty |-> dirty, version |-> version, seen |-> seen, gone |-> gone,
                copy |-> k, inserted |-> inserted, token |-> token]
  OBVIOUS

\* A request begins with the plan of its operation, and nothing done.
LEMMA BeginOpens ==
    ASSUME NEW r, NEW op, NEW plan, NEW fate, Begin(r, op, plan, fate)
    PROVE  /\ open' = [open EXCEPT ![r] = Opened(plan, fate, <<op, calls[op] + 1>>, <<>>)]
           /\ calls' = [calls EXCEPT ![op] = @ + 1]
           /\ db' = db /\ sessions' = sessions /\ criteria' = criteria
  <1> DEFINE k == <<op, calls[op] + 1>>
             u == Opened(plan, fate, k, <<>>)
  <1>1. open' = [open EXCEPT ![r] =
          [Rest EXCEPT !.phase = "load", !.plan = plan, !.fate = fate, !.copy = k]]
        /\ calls' = [calls EXCEPT ![op] = @ + 1] /\ db' = db /\ sessions' = sessions /\ criteria' = criteria
    BY DEF Begin
  <1> HIDE DEF k
  <1>2. [Rest EXCEPT !.phase = "load", !.plan = plan, !.fate = fate, !.copy = k] = u /\ u.copy = k
    <2>1. Rest = [phase |-> "idle", plan |-> <<>>, fate |-> "told", change |-> NoColumns,
                  dirty |-> NoColumns, version |-> <<>>, seen |-> {}, gone |-> {},
                  copy |-> <<>>, inserted |-> FALSE, token |-> <<>>]
      BY DEF Rest
    <2>2. u = [phase |-> "load", plan |-> plan, fate |-> fate, change |-> NoColumns,
               dirty |-> NoColumns, version |-> <<>>, seen |-> {}, gone |-> {},
               copy |-> k, inserted |-> FALSE, token |-> <<>>]
      BY DEF Opened
    <2>3. u.copy = k
      BY <2>2
    <2> DEFINE w == Rest
               v == [w EXCEPT !.phase = "load", !.plan = plan, !.fate = fate, !.copy = k]
    <2>4. v = [w EXCEPT !.phase = "load", !.plan = plan, !.fate = fate, !.copy = k]
      OBVIOUS
    <2> HIDE DEF u, w, v
    <2>5. v = [phase |-> "load", plan |-> plan, fate |-> fate, change |-> NoColumns,
               dirty |-> NoColumns, version |-> <<>>, seen |-> {}, gone |-> {},
               copy |-> k, inserted |-> FALSE, token |-> <<>>]
      BY <2>1, <2>4, FourFields DEF w
    <2> QED
      BY <2>2, <2>3, <2>5 DEF v, w
  <1> HIDE DEF u
  <1> QED
    BY <1>1, <1>2 DEF u, k

\* A request that begins an operation with a plan that is good keeps the invariant.
LEMMA CallKeeps ==
    ASSUME IInv, NEW r \in Requests, NEW op \in Operations, NEW plan, NEW fate,
           Begin(r, op, plan, fate),
           Good(db, sessions, Opened(plan, fate, <<op, calls[op] + 1>>, <<>>))
    PROVE  IInv'
  <1> DEFINE k == <<op, calls[op] + 1>>
             u == Opened(plan, fate, k, <<>>)
  <1>1. open' = [open EXCEPT ![r] = u] /\ calls' = [calls EXCEPT ![op] = @ + 1]
        /\ db' = db /\ sessions' = sessions
    BY ZenonT(40), BeginOpens
  <1>2. u.copy = k
    BY DEF Opened
  <1>3. Good(db, sessions, u)
    BY DEF k
  <1> HIDE DEF u
  <1> QED
    BY <1>1, <1>2, <1>3, BeginKeeps DEF k

-----------------------------------------------------------------------------
(* The operations *)

\* The id that an operation makes is one of its table, and of the transaction.
LEMMA NewIsAPlace ==
    ASSUME IInv, NEW op \in Operations, NEW table, <<op, table>> \in Makes,
           calls[op] < Limit[op]
    PROVE  LET x == New(table, op)
           IN  /\ x \in Places
               /\ x[1] = table
               /\ table = "version" => x \in Versions
               /\ table = "campaign" => x \in Campaigns
               /\ table = "invitation" => x \in Invitations
               /\ table = "profile" => x \in Profiles
               /\ table = "consent" => x \in Consents
               /\ x[2] = calls[op] + 1
  <1> DEFINE x == New(table, op)
  <1>1. calls[op] + 1 \in 1..Limit[op]
    BY LimitAssumption DEF IInv, Shapes
  <1>2. x[1] = table /\ x[2] = calls[op] + 1 /\ x = <<table, calls[op] + 1>>
    BY DEF New
  <1> HIDE DEF x
  <1>3. /\ table = "version" => x \in Versions
        /\ table = "campaign" => x \in Campaigns
        /\ table = "invitation" => x \in Invitations
        /\ table = "profile" => x \in Profiles
        /\ table = "consent" => x \in Consents
    BY <1>1, <1>2 DEF Makes, Versions, Campaigns, Invitations, Profiles, Consents
  <1>4. x \in Places
    BY <1>3, Tables DEF Makes
  <1> QED
    BY <1>2, <1>3, <1>4 DEF x

\* The transaction that is opened has made that id.
LEMMA NewIsFresh ==
    ASSUME NEW op \in Operations, NEW table, <<op, table>> \in Makes, NEW plan, NEW fate
    PROVE  LET u == Opened(plan, fate, <<op, calls[op] + 1>>, <<>>)
           IN  Fresh(u, New(table, op)) /\ u.plan = plan /\ u.fate = fate
  <1> DEFINE x == New(table, op)
             u == Opened(plan, fate, <<op, calls[op] + 1>>, <<>>)
  <1>1. x[1] = table /\ x[2] = calls[op] + 1
    BY DEF New
  <1>2. u.copy = <<op, calls[op] + 1>> /\ u.plan = plan /\ u.fate = fate
    BY DEF Opened
  <1> HIDE DEF x, u
  <1> QED
    BY <1>1, <1>2 DEF Fresh, x, u

\* Criteria are never a row.
LEMMA NoColumnsAreFine ==
    ASSUME NEW d, NEW s, NEW t, NEW v \in Versions, In(d, v) \/ Fresh(t, v)
    PROVE  Fine(d, s, t, v, NoColumns)
  <1>1. DOMAIN NoColumns = {}
    BY DEF NoColumns
  <1>2. v \notin Profiles /\ v \notin Consents /\ v \notin Invitations /\ v \notin Campaigns
    BY Tables
  <1> QED
    BY <1>1, <1>2 DEF Fine, Overwrites

\* A new version is a draft.
LEMMA CreateVersionKeeps ==
    ASSUME IInv, NEW r \in Requests, CreateVersion(r)
    PROVE  IInv'
  <1>1. PICK p \in Positions, weighted \in BOOLEAN :
           Begin(r, "create_version",
                 <<Merge(New("version", "create_version"), CompetencyModelVersion(p, weighted)),
                   ReplaceCriteria(New("version", "create_version"))>>, "told")
    BY DEF CreateVersion
  <1> DEFINE op == "create_version"
             v == New("version", "create_version")
             object == CompetencyModelVersion(p, weighted)
             plan == <<Merge(v, object), Merge(v, NoColumns)>>
             u == Opened(plan, "told", <<op, calls[op] + 1>>, <<>>)
  <1>2. op \in Operations /\ <<op, "version">> \in Makes /\ calls[op] < Limit[op]
    BY <1>1 DEF Operations, Makes, Begin
  <1>3. v \in Versions /\ v \in Places /\ Fresh(u, v) /\ v[1] = "version"
    BY <1>2, NewIsAPlace, NewIsFresh
  <1>4. DOMAIN object = Columns["version"] /\ object.status = "draft"
    BY DEF CompetencyModelVersion, Columns
  <1>5. ReplaceCriteria(v) = Merge(v, NoColumns)
    BY DEF ReplaceCriteria, Merge
  <1>6. DOMAIN NoColumns = {}
    BY DEF NoColumns
  <1>7. u = Opened(<<Merge(v, object), Merge(v, NoColumns)>>, "told", <<op, calls[op] + 1>>, <<>>)
    OBVIOUS
  <1>8. Begin(r, op, plan, "told")
    BY <1>1, <1>5
  <1> HIDE DEF v, object, u, op
  <1>9. Fine(db, sessions, u, v, object)
    BY <1>3, <1>4, Tables DEF Fine, Adds
  <1>10. Fine(db, sessions, u, v, NoColumns)
    BY <1>3, NoColumnsAreFine
  <1>11. Good(db, sessions, u)
    BY ZenonT(40), <1>3, <1>6, <1>7, <1>9, <1>10, TwoMerges
  <1> QED
    BY <1>2, <1>7, <1>8, <1>11, CallKeeps

\* Publishing a row keeps the rest of it.
LEMMA PublishParts ==
    ASSUME NEW row, NEW op
    PROVE  /\ DOMAIN Publish(row, op) = DOMAIN row
           /\ "status" \in DOMAIN row => Publish(row, op).status = "published"
           /\ "weighted" \in DOMAIN row => Publish(row, op).weighted = row.weighted
           /\ "version" \in DOMAIN row => Publish(row, op).version = row.version
  BY DEF Publish

\* A version is published with weights that add up, which no operation changes.
LEMMA PublishVersionKeeps ==
    ASSUME IInv, NEW r \in Requests, PublishVersion(r)
    PROVE  IInv'
  <1>1. PICK v \in Stored(Versions) :
          /\ Publishable(db[v])
          /\ Begin(r, "publish_version",
                   <<Merge(v, Publish(db[v], "publish_version")), ReplaceCriteria(v)>>, "told")
    BY DEF PublishVersion
  <1> DEFINE op == "publish_version"
             object == Publish(db[v], op)
             plan == <<Merge(v, object), Merge(v, NoColumns)>>
             u == Opened(plan, "told", <<op, calls[op] + 1>>, <<>>)
  <1>2. op \in Operations
    BY DEF Operations
  <1>3. v \in Versions /\ In(db, v) /\ v \in Places /\ v[1] = "version"
    BY Tables DEF Stored, In
  <1>4. DOMAIN db[v] = Columns["version"]
    BY <1>3 DEF IInv, RowsAgree
  <1>5. /\ DOMAIN object = Columns["version"]
        /\ object.status = "published" /\ object.weighted = db[v].weighted
    BY <1>4, PublishParts DEF Columns
  <1>6. db[v].weighted
    BY <1>1, <1>3 DEF IInv, RowsAgree, Publishable
  <1>7. ReplaceCriteria(v) = Merge(v, NoColumns)
    BY DEF ReplaceCriteria, Merge
  <1>8. DOMAIN NoColumns = {}
    BY DEF NoColumns
  <1>9. u = Opened(<<Merge(v, object), Merge(v, NoColumns)>>, "told", <<op, calls[op] + 1>>, <<>>)
    OBVIOUS
  <1>10. Begin(r, op, plan, "told")
    BY <1>1, <1>7
  <1> HIDE DEF object, u, op
  <1>11. v \notin Profiles /\ v \notin Consents /\ v \notin Invitations /\ v \notin Campaigns
    BY <1>3, Tables
  <1>12. Fine(db, sessions, u, v, object)
    BY <1>3, <1>5, <1>6, <1>11 DEF Fine, Overwrites
  <1>13. Fine(db, sessions, u, v, NoColumns)
    BY <1>3, NoColumnsAreFine
  <1>14. Good(db, sessions, u)
    <2> DEFINE k == <<op, calls[op] + 1>>
    <2>1. u = Opened(<<Merge(v, object), Merge(v, NoColumns)>>, "told", k, <<>>)
      BY <1>9
    <2>2. v \in Places
      BY <1>3
    <2>3. "told" \in {"told", "refused"}
      OBVIOUS
    <2> DEFINE fate == "told"
               none == NoColumns
               token == <<>>
    <2> HIDE DEF k, plan, fate, none, token
    <2>4. fate \in {"told", "refused"} /\ u = Opened(<<Merge(v, object), Merge(v, none)>>, fate, k, token)
      BY <2>1, <2>3 DEF fate, none, token
    <2>5. DOMAIN none = {} /\ Fine(db, sessions, u, v, none)
      BY <1>8, <1>13 DEF none
    <2> QED
      BY <1>12, <2>2, <2>4, <2>5, TwoMerges
  <1> QED
    BY <1>2, <1>9, <1>10, <1>14, CallKeeps

\* A campaign is created on a version that is published.
LEMMA CreateCampaignKeeps ==
    ASSUME IInv, NEW r \in Requests, CreateCampaign(r)
    PROVE  IInv'
  <1>1. PICK v \in Stored(Versions) :
          /\ db[v].status = "published"
          /\ Begin(r, "create_campaign",
                   <<Merge(New("campaign", "create_campaign"), Campaign(v))>>, "told")
    BY DEF CreateCampaign
  <1> DEFINE op == "create_campaign"
             c == New("campaign", "create_campaign")
             object == Campaign(v)
             plan == <<Merge(c, object)>>
             u == Opened(plan, "told", <<op, calls[op] + 1>>, <<>>)
  <1>2. op \in Operations /\ <<op, "campaign">> \in Makes /\ calls[op] < Limit[op]
    BY <1>1 DEF Operations, Makes, Begin
  <1>3. c \in Campaigns /\ c \in Places /\ Fresh(u, c) /\ c[1] = "campaign"
    BY <1>2, NewIsAPlace, NewIsFresh
  <1>4. DOMAIN object = Columns["campaign"] /\ object.version = v
    BY DEF Campaign, Columns
  <1>5. PublishedVersion(db, v)
    BY <1>1, Tables DEF IInv, RowsAgree, PublishedVersion, Stored, In
  <1>6. u = Opened(<<Merge(c, object)>>, "told", <<op, calls[op] + 1>>, <<>>)
    OBVIOUS
  <1>7. Begin(r, op, plan, "told")
    BY <1>1
  <1> HIDE DEF c, object, u, op
  <1>8. Fine(db, sessions, u, c, object)
    BY <1>3, <1>4, <1>5, Tables DEF Fine, Adds
  <1>9. Good(db, sessions, u)
    BY <1>3, <1>6, <1>8, OneMerge
  <1> QED
    BY <1>2, <1>6, <1>7, <1>9, CallKeeps

\* Publishing a campaign leaves its version as it is.
LEMMA PublishCampaignKeeps ==
    ASSUME IInv, NEW r \in Requests, PublishCampaign(r)
    PROVE  IInv'
  <1>1. PICK c \in Stored(Campaigns) :
          Begin(r, "publish_campaign", <<Merge(c, Publish(db[c], "publish_campaign"))>>, "told")
    BY DEF PublishCampaign
  <1> DEFINE op == "publish_campaign"
             object == Publish(db[c], op)
             plan == <<Merge(c, object)>>
             u == Opened(plan, "told", <<op, calls[op] + 1>>, <<>>)
  <1>2. op \in Operations
    BY DEF Operations
  <1>3. c \in Campaigns /\ In(db, c) /\ c \in Places /\ c[1] = "campaign"
    BY Tables DEF Stored, In
  <1>4. DOMAIN db[c] = Columns["campaign"]
    BY <1>3 DEF IInv, RowsAgree
  <1>5. /\ DOMAIN object = Columns["campaign"]
        /\ object.status = "published" /\ object.version = db[c].version
    BY <1>4, PublishParts DEF Columns
  <1>6. u = Opened(<<Merge(c, object)>>, "told", <<op, calls[op] + 1>>, <<>>)
    OBVIOUS
  <1>7. Begin(r, op, plan, "told")
    BY <1>1
  <1> HIDE DEF object, u, op
  <1>8. c \notin Profiles /\ c \notin Consents /\ c \notin Invitations /\ c \notin Versions
    BY <1>3, Tables
  <1>9. Fine(db, sessions, u, c, object)
    BY <1>3, <1>5, <1>8 DEF Fine, Overwrites
  <1>10. Good(db, sessions, u)
    BY <1>3, <1>6, <1>9, OneMerge
  <1> QED
    BY <1>2, <1>6, <1>7, <1>10, CallKeeps

\* A merge that leaves an invitation's campaign and state as they are.
LEMMA SameInvitation ==
    ASSUME IInv, NEW i \in Invitations, In(db, i), NEW t, NEW p,
           DOMAIN p = DOMAIN db[i], p.campaign = db[i].campaign, p.state = db[i].state
    PROVE  Fine(db, sessions, t, i, p)
  <1>1. /\ DOMAIN p = Columns[i[1]]
        /\ db[i].state \in States
        /\ db[i].state # "invited" => Typed(db, ProfileOf(i)) /\ sessions[i] > 0
        /\ db[i].state = "consented" => HasConsent(db, i)
    BY Tables DEF IInv, RowsAgree
  <1>2. i \notin Profiles /\ i \notin Consents /\ i \notin Campaigns /\ i \notin Versions
    BY Tables
  <1> QED
    BY <1>1, <1>2 DEF Fine, Overwrites, TypedSoon, ConsentSoon

\* Three fields of a transaction change.
LEMMA TokenFields ==
    ASSUME NEW phase, NEW plan, NEW fate, NEW change, NEW dirty, NEW version, NEW seen,
           NEW gone, NEW copy, NEW inserted, NEW token, NEW f, NEW g, NEW h,
           NEW w, NEW v,
           v = [w EXCEPT !.phase = f, !.token = h, !.plan = g],
           w = [phase |-> phase, plan |-> plan, fate |-> fate, change |-> change,
                dirty |-> dirty, version |-> version, seen |-> seen, gone |-> gone,
                copy |-> copy, inserted |-> inserted, token |-> token]
    PROVE  v = [phase |-> f, plan |-> g, fate |-> fate, change |-> change,
                dirty |-> dirty, version |-> version, seen |-> seen, gone |-> gone,
                copy |-> copy, inserted |-> inserted, token |-> h]
  OBVIOUS

\* A token that is exchanged leaves the state and the campaign as they were read.
LEMMA ExchangeTokenKeeps ==
    ASSUME IInv, NEW r \in Requests, ExchangeToken(r)
    PROVE  IInv'
  <1>1. PICK i \in Stored(Invitations) :
        /\ calls' = [calls EXCEPT !["exchange"] = @ + 1]
        /\ open' = [open EXCEPT ![r] =
              [Rest EXCEPT !.phase = "load", !.token = i,
                           !.plan = <<Merge(i, [db[i] EXCEPT !.exchanged = TRUE])>>]]
        /\ db' = db /\ sessions' = sessions
    BY DEF ExchangeToken
  <1> DEFINE object == [db[i] EXCEPT !.exchanged = TRUE]
             plan == <<Merge(i, object)>>
             u == Opened(plan, "told", <<>>, i)
             w == Rest
             v == [w EXCEPT !.phase = "load", !.token = i, !.plan = plan]
  <1>2. i \in Invitations /\ In(db, i) /\ i \in Places
    BY Tables DEF Stored, In
  <1>3. {"campaign", "state"} \subseteq DOMAIN db[i]
    BY <1>2, Tables DEF IInv, RowsAgree, Columns
  <1>4. DOMAIN object = DOMAIN db[i] /\ object.campaign = db[i].campaign
        /\ object.state = db[i].state
    BY <1>3
  <1>5. open' = [open EXCEPT ![r] = v]
    BY <1>1
  <1>6. u.copy = <<>>
    BY DEF Opened
  <1> HIDE DEF object
  <1>7. Fine(db, sessions, u, i, object)
    BY <1>2, <1>4, SameInvitation
  <1>8. Good(db, sessions, u)
    BY <1>2, <1>7, OneMerge
  <1> HIDE DEF plan
  <1>9. v = u
    <2>1. w = [phase |-> "idle", plan |-> <<>>, fate |-> "told", change |-> NoColumns,
               dirty |-> NoColumns, version |-> <<>>, seen |-> {}, gone |-> {},
               copy |-> <<>>, inserted |-> FALSE, token |-> <<>>]
      BY DEF Rest
    <2>2. v = [w EXCEPT !.phase = "load", !.token = i, !.plan = plan]
      OBVIOUS
    <2> HIDE DEF w, v
    <2>3. v = [phase |-> "load", plan |-> plan, fate |-> "told", change |-> NoColumns,
               dirty |-> NoColumns, version |-> <<>>, seen |-> {}, gone |-> {},
               copy |-> <<>>, inserted |-> FALSE, token |-> i]
      BY <2>1, <2>2, TokenFields
    <2> QED
      BY <2>3 DEF Opened
  <1> HIDE DEF u, v
  <1> QED
    BY <1>1, <1>5, <1>6, <1>8, <1>9, BeginKeeps DEF Operations

\* What an invitation becomes, and its columns.
LEMMA MovedParts ==
    ASSUME NEW row, NEW k, NEW state, {"campaign", "state"} \subseteq DOMAIN row
    PROVE  LET p == Moved(row, k, state)
           IN  /\ DOMAIN p = DOMAIN row /\ p.campaign = row.campaign
               /\ \/ p.state = row.state
                  \/ p.state = state /\ (MayMove(row, k, state) => state \in Allowed[row.state])
  BY DEF Moved, MayMove

\* A command of an applicant writes what it is about, and then the transition.
LEMMA AccessKeeps ==
    ASSUME IInv, NEW r \in Requests, NEW op \in Operations, NEW i \in Invitations, In(db, i),
           NEW k, NEW x \in Places, x \notin Invitations, NEW p, NEW state \in States,
           Access(r, op, i, k, Merge(x, p), state),
           \A plan, fate :
              LET u == Opened(plan, fate, <<op, calls[op] + 1>>, <<>>)
              IN  /\ Fine(db, sessions, u, x, p)
                  /\ plan # <<>> /\ plan[1] = Merge(x, p) /\ 1 \in DOMAIN plan
                     /\ state \in Allowed[db[i].state] /\ sessions[i] > 0 =>
                        /\ state # "invited" => TypedSoon(db, u, ProfileOf(i))
                        /\ state = "consented" => ConsentSoon(db, u, i)
    PROVE  IInv'
  <1> DEFINE copy == <<op, calls[op] + 1>>
             object == Moved(db[i], k, state)
             one == <<Merge(x, p)>>
             two == <<Merge(x, p), Merge(i, object)>>
  <1>1. sessions[i] > 0
    BY DEF Access
  <1>2. CASE Begin(r, op, one, "refused")
    <2> DEFINE u == Opened(one, "refused", copy, <<>>)
    <2>1. Fine(db, sessions, u, x, p)
      OBVIOUS
    <2> HIDE DEF copy
    <2>2. Good(db, sessions, u)
      BY <2>1, OneMerge
    <2> QED
      BY <1>2, <2>2, CallKeeps DEF copy
  <1>3. CASE MayMove(db[i], k, state) /\ Begin(r, op, two, "told")
    <2> DEFINE u == Opened(two, "told", copy, <<>>)
    <2>1. Fine(db, sessions, u, x, p)
      OBVIOUS
    <2>2. two # <<>> /\ two[1] = Merge(x, p) /\ 1 \in DOMAIN two
      OBVIOUS
    <2>3. state \in Allowed[db[i].state] =>
             /\ state # "invited" => TypedSoon(db, u, ProfileOf(i))
             /\ state = "consented" => ConsentSoon(db, u, i)
      <3> HIDE DEF two
      <3> QED
        BY <1>1, <2>2
    <2>4. DOMAIN db[i] = Columns["invitation"]
      BY Tables DEF IInv, RowsAgree
    <2>5. /\ DOMAIN object = DOMAIN db[i] /\ object.campaign = db[i].campaign
          /\ \/ object.state = db[i].state
             \/ object.state = state /\ state \in Allowed[db[i].state]
      <3>1. {"campaign", "state"} \subseteq DOMAIN db[i]
        BY <2>4 DEF Columns
      <3>2. MayMove(db[i], k, state)
        BY <1>3
      <3> QED
        BY <3>1, <3>2, MovedParts
    <2> HIDE DEF object, u
    <2>6. Fine(db, sessions, u, i, object)
      <3>1. CASE object.state = db[i].state
        BY <2>5, <3>1, SameInvitation
      <3>2. CASE object.state = state /\ state \in Allowed[db[i].state]
        <4>1. i \notin Profiles /\ i \notin Consents /\ i \notin Campaigns /\ i \notin Versions
              /\ i[1] = "invitation"
          BY Tables
        <4>2. Overwrites(db, sessions, u, i, object)
          BY <1>1, <2>3, <2>5, <3>2, <4>1 DEF Overwrites
        <4> QED
          BY <2>4, <2>5, <4>1, <4>2 DEF Fine
      <3> QED
        BY <2>5, <3>1, <3>2
    <2>7. x # i /\ i \in Places
      BY Tables
    <2> HIDE DEF copy
    <2>8. u = Opened(<<Merge(x, p), Merge(i, object)>>, "told", copy, <<>>)
      BY DEF u
    <2>9. Good(db, sessions, u)
      BY SMTT(20), <2>1, <2>6, <2>7, <2>8, TwoMerges
    <2> QED
      BY <1>3, <2>8, <2>9, CallKeeps DEF copy
  <1> QED
    BY <1>2, <1>3 DEF Access

\* The name is in the plan of the transaction that verifies the identity.
LEMMA VerifyIdentityKeeps ==
    ASSUME IInv, NEW r \in Requests, VerifyIdentity(r)
    PROVE  IInv'
  <1>1. PICK i \in Stored(Invitations), k \in Keys :
          Access(r, "verify", i, k, Merge(<<"profile", i[2]>>, [name |-> "typed"]),
                 "identity_verified")
    BY DEF VerifyIdentity
  <1> DEFINE x == <<"profile", i[2]>>
             p == [name |-> "typed"]
             op == "verify"
  <1>2. i \in Invitations /\ In(db, i) /\ x = ProfileOf(i)
    BY DEF Stored, In, ProfileOf
  <1>3. x \in Profiles /\ x \in Places /\ x[1] = "profile" /\ In(db, x)
    BY <1>2, Tables DEF IInv, RowsAgree
  <1>4. x \notin Invitations /\ x \notin Consents /\ x \notin Campaigns /\ x \notin Versions
    BY <1>3, Tables
  <1>5. DOMAIN p = Columns["profile"] /\ p.name = "typed"
    BY DEF Columns
  <1>6. \A t : Fine(db, sessions, t, x, p)
    BY <1>3, <1>4, <1>5 DEF Fine, Overwrites
  <1>7. ASSUME NEW plan, NEW fate, 1 \in DOMAIN plan, plan[1] = Merge(x, p)
        PROVE  TypedSoon(db, Opened(plan, fate, <<op, calls[op] + 1>>, <<>>), ProfileOf(i))
    <2> DEFINE u == Opened(plan, fate, <<op, calls[op] + 1>>, <<>>)
    <2>1. u.plan = plan
      BY DEF Opened
    <2> HIDE DEF u
    <2>2. \E n \in DOMAIN u.plan : u.plan[n] = Merge(x, p)
      BY <1>7, <2>1
    <2> QED
      BY <1>2, <2>2 DEF TypedSoon, u
  <1>8. op \in Operations /\ "identity_verified" \in States
    BY DEF Operations, States
  <1> HIDE DEF x, p
  <1>9. Access(r, op, i, k, Merge(x, p), "identity_verified")
    BY <1>1 DEF x, p
  <1> HIDE DEF op
  <1> QED
    BY <1>2, <1>3, <1>4, <1>6, <1>7, <1>8, <1>9, AccessKeeps

\* The consent row is in the plan of the transaction that records the consent, and
\* whoever may consent has typed a name.
LEMMA RecordConsentKeeps ==
    ASSUME IInv, NEW r \in Requests, RecordConsent(r)
    PROVE  IInv'
  <1>1. PICK i \in Stored(Invitations), k \in Keys :
          Access(r, "consent", i, k, Merge(New("consent", "consent"), ConsentRecord(i)), "consented")
    BY DEF RecordConsent
  <1> DEFINE c == New("consent", "consent")
             p == ConsentRecord(i)
             op == "consent"
  <1>2. i \in Invitations /\ In(db, i)
    BY DEF Stored, In
  <1>3. op \in Operations /\ <<op, "consent">> \in Makes /\ calls[op] < Limit[op]
        /\ "consented" \in States
    BY <1>1 DEF Operations, Makes, Begin, Access, States
  <1>4. c \in Consents /\ c \in Places /\ c[1] = "consent"
        /\ \A plan, fate : Fresh(Opened(plan, fate, <<op, calls[op] + 1>>, <<>>), c)
    BY <1>3, NewIsAPlace, NewIsFresh
  <1>5. c \notin Invitations /\ c \notin Campaigns /\ c \notin Versions
    BY <1>4, Tables
  <1>6. DOMAIN p = Columns["consent"] /\ p.invitation = i /\ DOMAIN p # {}
    BY DEF ConsentRecord, Columns
  <1>7. Access(r, op, i, k, Merge(c, p), "consented")
    BY <1>1
  <1> HIDE DEF c, p
  <1>8. ASSUME NEW plan, NEW fate
        PROVE  Fine(db, sessions, Opened(plan, fate, <<op, calls[op] + 1>>, <<>>), c, p)
    <2> DEFINE u == Opened(plan, fate, <<op, calls[op] + 1>>, <<>>)
    <2>1. Fresh(u, c)
      BY <1>4
    <2> HIDE DEF u
    <2>2. Adds(db, u, c, p)
      BY <1>4, <1>5, <1>6 DEF Adds
    <2>3. Fine(db, sessions, u, c, p)
      BY <2>1, <2>2 DEF Fine
    <2> QED
      BY <2>3 DEF u
  <1>9. ASSUME NEW plan, NEW fate, 1 \in DOMAIN plan, plan[1] = Merge(c, p)
        PROVE  ConsentSoon(db, Opened(plan, fate, <<op, calls[op] + 1>>, <<>>), i)
    <2> DEFINE u == Opened(plan, fate, <<op, calls[op] + 1>>, <<>>)
    <2>1. u.plan = plan
      BY DEF Opened
    <2>2. Fresh(u, c)
      BY <1>4
    <2> HIDE DEF u
    <2>3. \E n \in DOMAIN u.plan : u.plan[n].place = c /\ u.plan[n].object = p
      BY <1>9, <2>1, MergeParts
    <2>4. ConsentSoon(db, u, i)
      BY <1>4, <1>6, <2>2, <2>3 DEF ConsentSoon
    <2> QED
      BY <2>4 DEF u
  <1>10. "consented" \in Allowed[db[i].state] => db[i].state = "identity_verified"
    BY <1>2 DEF IInv, RowsAgree, States, Allowed
  <1>11. db[i].state = "identity_verified" => Typed(db, ProfileOf(i))
    BY <1>2 DEF IInv, RowsAgree
  <1>12. ASSUME NEW plan, NEW fate
         PROVE  LET u == Opened(plan, fate, <<op, calls[op] + 1>>, <<>>)
                IN  "consented" \in Allowed[db[i].state] => TypedSoon(db, u, ProfileOf(i))
    BY <1>10, <1>11 DEF TypedSoon
  <1> HIDE DEF op
  <1> QED
    BY <1>2, <1>3, <1>4, <1>5, <1>7, <1>8, <1>9, <1>12, AccessKeeps

\* One more merge at the end of two.
LEMMA Appended ==
    ASSUME NEW a, NEW b, NEW c
    PROVE  <<a, b>> \o <<c>> = <<a, b, c>>
  <1> DEFINE S == {a, b, c}
             s == <<a, b>>
             t == <<c>>
             u == <<a, b, c>>
  <1>1. s \in Seq(S) /\ Len(s) = 2 /\ s[1] = a /\ s[2] = b
    OBVIOUS
  <1>2. t \in Seq(S) /\ Len(t) = 1 /\ t[1] = c
    OBVIOUS
  <1>3. u \in Seq(S) /\ Len(u) = 3 /\ u[1] = a /\ u[2] = b /\ u[3] = c
    OBVIOUS
  <1> HIDE DEF S, s, t, u
  <1>4. /\ s \o t \in Seq(S) /\ Len(s \o t) = 3
        /\ (s \o t)[1] = a /\ (s \o t)[2] = b /\ (s \o t)[3] = c
    <2>1. /\ s \o t \in Seq(S) /\ Len(s \o t) = Len(s) + Len(t)
          /\ \A n \in 1..Len(s) + Len(t) :
                (s \o t)[n] = IF n <= Len(s) THEN s[n] ELSE t[n - Len(s)]
      BY <1>1, <1>2, ConcatProperties
    <2> DEFINE v == s \o t
    <2> HIDE DEF v
    <2>2. \A n \in 1..3 : v[n] = IF n <= 2 THEN s[n] ELSE t[n - 2]
      BY <1>1, <1>2, <2>1 DEF v
    <2>3. v[1] = s[1] /\ v[2] = s[2]
      BY <2>2
    <2>4. v[3] = t[3 - 2]
      BY <2>2
    <2>5. 3 - 2 = 1
      OBVIOUS
    <2> QED
      BY <1>1, <1>2, <2>1, <2>3, <2>4, <2>5 DEF v
  <1>5. \A n \in 1..3 : (s \o t)[n] = u[n]
    BY <1>3, <1>4
  <1>6. s \o t = u
    BY <1>3, <1>4, <1>5, SeqEqual
  <1> QED
    BY <1>6 DEF s, t, u

\* An invitation with its profile, under a campaign that may be published or not.
LEMMA IssueInvitationsKeeps ==
    ASSUME IInv, NEW r \in Requests, IssueInvitations(r)
    PROVE  IInv'
  <1>1. PICK c \in Stored(Campaigns) :
          Begin(r, "issue",
                <<Merge(New("invitation", "issue"), Invitation(c)),
                  Merge(New("profile", "issue"), [name |-> "given"])>> \o MarkIssued(c),
                IF MarkIssued(c) = <<>> THEN "refused" ELSE "told")
    BY DEF IssueInvitations
  <1> DEFINE op == "issue"
             i == New("invitation", "issue")
             y == New("profile", "issue")
             p == Invitation(c)
             q == [name |-> "given"]
             o == IF db[c].issued THEN db[c]
                  ELSE [db[c] EXCEPT !.issued = TRUE, !.row_version = @ + 1]
             copy == <<op, calls[op] + 1>>
  <1>2. op \in Operations /\ <<op, "invitation">> \in Makes /\ <<op, "profile">> \in Makes
        /\ calls[op] < Limit[op]
    BY <1>1 DEF Operations, Makes, Begin
  <1>3. /\ i \in Invitations /\ i \in Places /\ y \in Profiles /\ y \in Places
        /\ i[1] = "invitation" /\ y[1] = "profile"
        /\ i[2] = calls[op] + 1
    <2>1. i \in Invitations /\ i \in Places /\ i[1] = "invitation" /\ i[2] = calls[op] + 1
      BY <1>2, NewIsAPlace
    <2>2. y \in Profiles /\ y \in Places /\ y[1] = "profile"
      BY <1>2, NewIsAPlace
    <2> QED
      BY <2>1, <2>2
  <1>4. \A plan, fate : LET u == Opened(plan, fate, copy, <<>>)
                        IN  Fresh(u, i) /\ Fresh(u, y) /\ u.plan = plan /\ u.fate = fate
    BY <1>2, NewIsFresh
  <1>5. y = ProfileOf(i)
    BY <1>3 DEF New, ProfileOf
  <1>6. c \in Campaigns /\ In(db, c) /\ c \in Places /\ c[1] = "campaign"
    BY Tables DEF Stored, In
  <1>7. DOMAIN db[c] = Columns["campaign"]
    BY <1>6 DEF IInv, RowsAgree
  <1>8. DOMAIN o = DOMAIN db[c] /\ o.version = db[c].version /\ o.status = db[c].status
    BY <1>7 DEF Columns
  <1>9. DOMAIN p = Columns["invitation"] /\ p.state = "invited" /\ p.campaign = c
    BY DEF Invitation, Columns
  <1>10. DOMAIN q = Columns["profile"] /\ DOMAIN q # {}
    BY DEF Columns
  <1>11. i # y /\ i # c /\ y # c
    BY <1>3, <1>6
  <1>12. /\ db[c].status # "published" => MarkIssued(c) = <<>>
         /\ db[c].status = "published" => MarkIssued(c) = <<Merge(c, o)>>
    BY DEF MarkIssued
  <1> HIDE DEF i, y, p, q, o, copy
  <1> DEFINE a == Merge(i, p)
             b == Merge(y, q)
  <1>13. Begin(r, op, <<a, b>> \o MarkIssued(c), IF MarkIssued(c) = <<>> THEN "refused" ELSE "told")
    BY <1>1 DEF i, y, p, q
  <1>14. ASSUME NEW u, Fresh(u, y)
         PROVE  Fine(db, sessions, u, y, q)
    <2>1. y \notin Invitations /\ y \notin Consents /\ y \notin Campaigns /\ y \notin Versions
      BY <1>3, Tables
    <2> QED
      BY <1>3, <1>10, <1>14, <2>1 DEF Fine, Adds
  <1>15. ASSUME NEW u, Fresh(u, i), 2 \in DOMAIN u.plan, u.plan[2] = b,
                u.fate = "told" => PublishedCampaign(db, c)
         PROVE  Fine(db, sessions, u, i, p)
    <2>1. ProfileSoon(db, u, ProfileOf(i))
      BY <1>5, <1>10, <1>15, MergeParts DEF ProfileSoon
    <2>2. i \notin Profiles /\ i \notin Consents /\ i \notin Campaigns /\ i \notin Versions
      BY <1>3, Tables
    <2> QED
      BY <1>3, <1>9, <1>15, <2>1, <2>2 DEF Fine, Adds
  <1>16. CASE db[c].status # "published"
    <2> DEFINE plan == <<a, b>>
               u == Opened(plan, "refused", copy, <<>>)
    <2>1. <<a, b>> \o <<>> = plan
      OBVIOUS
    <2>2. Begin(r, op, plan, "refused")
      BY <1>12, <1>13, <1>16, <2>1
    <2>3. 2 \in DOMAIN plan /\ plan[2] = b
      OBVIOUS
    <2>4. Fresh(u, i) /\ Fresh(u, y) /\ u.plan = plan /\ u.fate = "refused"
      BY <1>4
    <2> HIDE DEF u
    <2>5. Fine(db, sessions, u, i, p) /\ Fine(db, sessions, u, y, q)
      BY <1>14, <1>15, <2>3, <2>4
    <2>6. u = Opened(<<Merge(i, p), Merge(y, q)>>, "refused", copy, <<>>)
      BY DEF u
    <2>7. Good(db, sessions, u)
      <3>1. i \in Places /\ y \in Places /\ i # y
        BY <1>3, <1>11
      <3> QED
        BY <2>5, <2>6, <3>1, TwoMerges
    <2> QED
      BY <1>2, <2>2, <2>7, CallKeeps DEF u, copy
  <1>17. CASE db[c].status = "published"
    <2> DEFINE plan == <<a, b, Merge(c, o)>>
               u == Opened(plan, "told", copy, <<>>)
    <2>1. <<a, b>> \o <<Merge(c, o)>> = plan
      BY Appended
    <2>2. <<Merge(c, o)>> # <<>>
      OBVIOUS
    <2>3. Begin(r, op, plan, "told")
      BY <1>12, <1>13, <1>17, <2>1, <2>2
    <2>4. 2 \in DOMAIN plan /\ plan[2] = b
      OBVIOUS
    <2>5. Fresh(u, i) /\ Fresh(u, y) /\ u.plan = plan
      BY <1>4
    <2> HIDE DEF u
    <2>6. PublishedCampaign(db, c)
      BY <1>6, <1>17 DEF PublishedCampaign
    <2>7. Fine(db, sessions, u, i, p) /\ Fine(db, sessions, u, y, q)
      BY <1>14, <1>15, <2>4, <2>5, <2>6
    <2>8. Fine(db, sessions, u, c, o)
      <3>1. c \notin Profiles /\ c \notin Consents /\ c \notin Invitations /\ c \notin Versions
        BY <1>6, Tables
      <3> QED
        BY <1>6, <1>7, <1>8, <1>17, <3>1 DEF Fine, Overwrites
    <2>9. u = Opened(<<Merge(i, p), Merge(y, q), Merge(c, o)>>, "told", copy, <<>>)
      BY DEF u
    <2>10. Good(db, sessions, u)
      BY <1>3, <1>6, <1>11, <2>7, <2>8, <2>9, ThreeMerges
    <2> QED
      BY <1>2, <2>3, <2>10, CallKeeps DEF u, copy
  <1> QED
    BY <1>16, <1>17

-----------------------------------------------------------------------------
(* The invariant *)

\* Nothing is stored, and nobody has begun.
LEMMA InitEstablishes == Init => IInv
  <1> SUFFICES ASSUME Init PROVE IInv
    OBVIOUS
  <1>1. \A x \in Places : ~In(db, x)
    BY DEF Init, In, NoColumns
  <1>2. \A r \in Requests : open[r] = Rest
    BY DEF Init
  <1>3. Shapes
    BY DEF Init, Shapes
  <1>4. RowsAgree(db, sessions)
    BY <1>1, Tables DEF RowsAgree
  <1>5. \A r \in Requests : \A x : ~Fresh(open[r], x)
    BY <1>2, RestIsGood, NothingFresh
  <1>6. IdsAreApart
    BY <1>1, <1>5 DEF IdsAreApart
  <1> QED
    BY <1>2, <1>3, <1>4, <1>6, RestIsGood DEF IInv

\* Every step keeps the invariant.
LEMMA NextKeeps == IInv /\ [Next]_vars => IInv'
  <1> SUFFICES ASSUME IInv, [Next]_vars PROVE IInv'
    OBVIOUS
  <1>1. ASSUME NEW r \in Requests, CreateVersion(r) PROVE IInv'
    BY <1>1, CreateVersionKeeps
  <1>2. ASSUME NEW r \in Requests, PublishVersion(r) PROVE IInv'
    BY <1>2, PublishVersionKeeps
  <1>3. ASSUME NEW r \in Requests, CreateCampaign(r) PROVE IInv'
    BY <1>3, CreateCampaignKeeps
  <1>4. ASSUME NEW r \in Requests, PublishCampaign(r) PROVE IInv'
    BY <1>4, PublishCampaignKeeps
  <1>5. ASSUME NEW r \in Requests, IssueInvitations(r) PROVE IInv'
    BY <1>5, IssueInvitationsKeeps
  <1>6. ASSUME NEW r \in Requests, ExchangeToken(r) PROVE IInv'
    BY <1>6, ExchangeTokenKeeps
  <1>7. ASSUME NEW r \in Requests, VerifyIdentity(r) PROVE IInv'
    BY <1>7, VerifyIdentityKeeps
  <1>8. ASSUME NEW r \in Requests, RecordConsent(r) PROVE IInv'
    BY <1>8, RecordConsentKeeps
  <1>9. ASSUME NEW r \in Requests, Load(r) PROVE IInv'
    BY <1>9, LoadKeeps
  <1>10. ASSUME NEW r \in Requests, Flush(r) PROVE IInv'
    BY <1>10, FlushKeeps
  <1>11. ASSUME NEW r \in Requests, Commit(r) PROVE IInv'
    BY <1>11, CommitKeeps
  <1>12. ASSUME NEW r \in Requests, RollBack(r) PROVE IInv'
    BY <1>12, RollBackKeeps
  <1>13. CASE UNCHANGED vars
    BY <1>13 DEF vars, IInv, Shapes, IdsAreApart, RowsAgree, Good, In
  <1> QED
    BY <1>1, <1>2, <1>3, <1>4, <1>5, <1>6, <1>7, <1>8, <1>9, <1>10, <1>11, <1>12, <1>13 DEF Next

\* The tables agree, and every transaction at work can only keep it so.
THEOREM Inductive == Spec => []IInv
  BY InitEstablishes, NextKeeps, PTL DEF Spec

\* Whatever requests run side by side and however late they merge what they read,
\* every stored invitation is of a published campaign, on a published version
\* whose weights add up.
THEOREM InvitedIsPublished == Spec => []InvitedUnderPublished
  <1>1. IInv => InvitedUnderPublished
    BY DEF IInv, RowsAgree, InvitedUnderPublished, Stored, In, PublishedCampaign,
       PublishedVersion
  <1> QED
    BY <1>1, Inductive, PTL

\* Every stored invitation that is consented has a consent row, an applicant who
\* typed a name and a session that was handed out.
THEOREM ConsentedIsConsented == Spec => []ConsentedHasConsent
  <1>1. ASSUME IInv, NEW i \in Stored(Invitations), db[i].state = "consented"
        PROVE  /\ ConsentsOf(i) # {}
               /\ db[<<"profile", i[2]>>].name = "typed"
               /\ sessions[i] > 0
    <2>1. i \in Invitations /\ In(db, i)
      BY DEF Stored, In
    <2>2. HasConsent(db, i) /\ Typed(db, ProfileOf(i)) /\ sessions[i] > 0
      BY <1>1, <2>1 DEF IInv, RowsAgree
    <2> QED
      BY <2>2 DEF HasConsent, ConsentsOf, Stored, In, Typed, ProfileOf
  <1>2. IInv => ConsentedHasConsent
    BY <1>1 DEF ConsentedHasConsent
  <1> QED
    BY <1>2, Inductive, PTL

-----------------------------------------------------------------------------
(* Numbers and criteria.  The rest of the module is about versions: d stands *)
(* for the rows, k for the copies of criteria, t for a transaction.          *)

HasNumber(row) == {"position", "number"} \subseteq DOMAIN row

Numbers(d, p) == {d[v].number : v \in {v \in Versions : In(d, v) /\ d[v].position = p}}

\* The number follows one that is stored.
Follows(d, p, n) == n \in Nat \ {0} /\ (n = 1 \/ n - 1 \in Numbers(d, p))

\* The numbers of a position are 1, 2, ... and no two versions have the same.
Counted(d) ==
    /\ \A v \in Versions : In(d, v) => HasNumber(d[v])
    /\ \A p \in Positions : \E n \in Nat : Numbers(d, p) = 1..n
    /\ \A v, w \in Versions :
          In(d, v) /\ In(d, w) /\ d[v].position = d[w].position /\ d[v].number = d[w].number => v = w

OneCopy(d, k) ==
    /\ DOMAIN k = Versions
    /\ \A v \in Versions : IF In(d, v) THEN \E x : k[v] = {x} ELSE k[v] = {}

MadeVersion(t, v) == t.copy = <<"create_version", v[2]>>

\* The object that is to be merged into v.
ToMerge(d, t, v, o) ==
    /\ HasNumber(o)
    /\ In(d, v) => o.position = d[v].position /\ o.number = d[v].number
    /\ ~In(d, v) => MadeVersion(t, v) /\ Follows(d, o.position, o.number)

\* What differs of it.
Differs(d, t, v, o) ==
    /\ In(d, v) => DOMAIN t.change \cap {"position", "number"} = {}
    /\ ~In(d, v) => /\ HasNumber(t.change)
                    /\ t.change.position = o.position /\ t.change.number = o.number

\* What the transaction has written of v.
Wrote(d, t, v) ==
    /\ DOMAIN t.dirty \subseteq {v}
    /\ In(d, v) => \A x \in DOMAIN t.dirty : DOMAIN t.dirty[x] \cap {"position", "number"} = {}
    /\ ~In(d, v) =>
          /\ MadeVersion(t, v) /\ v \in DOMAIN t.dirty /\ HasNumber(t.dirty[v])
          /\ Follows(d, t.dirty[v].position, t.dirty[v].number)
          /\ t.dirty[v].number \notin Numbers(d, t.dirty[v].position)

\* A transaction that creates or publishes v merges its row, then replaces its criteria.
OnVersion(d, k, t, v) ==
    \/ \E o \in {t.plan[n].object : n \in DOMAIN t.plan} :
          /\ t.plan = <<Merge(v, o), ReplaceCriteria(v)>>
          /\ ToMerge(d, t, v, o)
          /\ DOMAIN t.dirty = {} /\ ~t.inserted
          /\ t.phase = "flush" => Differs(d, t, v, o)
    \/ /\ t.plan = <<ReplaceCriteria(v)>>
       /\ Wrote(d, t, v) /\ ~t.inserted
       /\ t.phase = "flush" => t.version = v
    \/ /\ t.plan = <<>>
       /\ Wrote(d, t, v) /\ t.inserted
       /\ t.version = v /\ k[v] \subseteq t.gone

\* Another one leaves versions alone.
Elsewhere(t) ==
    /\ \A n \in DOMAIN t.plan : t.plan[n].place \notin Versions /\ DOMAIN t.plan[n].object # {}
    /\ \A x \in DOMAIN t.dirty : x \notin Versions
    /\ ~t.inserted

Works(d, k, t) == Elsewhere(t) \/ \E v \in Versions : OnVersion(d, k, t, v)

\* Two transactions insert neither the same number nor copies for the same version.
NoClash(d, t, u) ==
    /\ t.inserted /\ u.inserted => t.version # u.version
    /\ \A v \in DOMAIN t.dirty \cap Versions, w \in DOMAIN u.dirty \cap Versions :
          ~In(d, v) /\ ~In(d, w) =>
              t.dirty[v].position # u.dirty[w].position \/ t.dirty[v].number # u.dirty[w].number

Numbering ==
    /\ Counted(db)
    /\ OneCopy(db, criteria)
    /\ \A r \in Requests : Works(db, criteria, open[r])
    /\ \A q, r \in Requests : q # r => NoClash(db, open[q], open[r])

-----------------------------------------------------------------------------
(* Numbers in general *)

\* Stored versions keep their position and their number.
Kept(d, e) ==
    \A v \in Versions : In(d, v) =>
        In(e, v) /\ e[v].position = d[v].position /\ e[v].number = d[v].number

LEMMA NumbersGrow ==
    ASSUME NEW d, NEW e, Kept(d, e), NEW p
    PROVE  /\ Numbers(d, p) \subseteq Numbers(e, p)
           /\ \A n : Follows(d, p, n) => Follows(e, p, n)
  <1>1. Numbers(d, p) \subseteq Numbers(e, p)
    BY DEF Kept, Numbers
  <1> QED
    BY <1>1 DEF Follows

\* The next number is the one that follows the greatest.
LEMMA NextFollows ==
    ASSUME Counted(db), NEW p \in Positions
    PROVE  Follows(db, p, NextNumber(p))
  <1>1. NumbersOf(p) = Numbers(db, p)
    BY DEF NumbersOf, Numbers, Stored, In
  <1>2. PICK n \in Nat : Numbers(db, p) = 1..n
    BY DEF Counted
  <1> DEFINE S == {0} \cup NumbersOf(p)
  <1>3. n \in S /\ \A x \in S : n >= x
    BY <1>1, <1>2
  <1>4. \A m \in S : (\A x \in S : m >= x) => m = n
    BY <1>1, <1>2
  <1> HIDE DEF S
  <1>5. Max(S) = n
    BY <1>3, <1>4 DEF Max
  <1>6. NextNumber(p) = 1 + n
    BY <1>5 DEF NextNumber, S
  <1> QED
    BY <1>2, <1>6 DEF Follows

\* A stored number is a positive one, so the next is never stored already unless it is counted.
LEMMA NumberAdded ==
    ASSUME NEW n \in Nat, NEW k, k \in Nat \ {0}, k = 1 \/ k - 1 \in 1..n, k \notin 1..n
    PROVE  k = n + 1
  OBVIOUS

-----------------------------------------------------------------------------
(* Transactions that leave the rows of versions as they are *)

LEMMA ClashIsMutual ==
    ASSUME NEW d, NEW t, NEW u, NoClash(d, t, u)
    PROVE  NoClash(d, u, t)
  BY DEF NoClash

\* One request's transaction becomes u.
LEMMA TurnKeeps ==
    ASSUME IInv, Numbering, NEW r \in Requests, NEW u, open' = [open EXCEPT ![r] = u],
           db' = db, criteria' = criteria, Works(db, criteria, u),
           \A q \in Requests \ {r} : NoClash(db, u, open[q])
    PROVE  Numbering'
  <1>1. open'[r] = u /\ \A q \in Requests \ {r} : open'[q] = open[q]
    BY DEF IInv, Shapes
  <1>2. \A q \in Requests : Works(db, criteria, open'[q])
    BY <1>1 DEF Numbering
  <1>3. \A p, q \in Requests : p # q => NoClash(db, open'[p], open'[q])
    BY <1>1, ClashIsMutual DEF Numbering
  <1> QED
    BY <1>2, <1>3 DEF Numbering

LEMMA RestWorks ==
    ASSUME NEW d, NEW k, NEW t
    PROVE  Works(d, k, Rest) /\ NoClash(d, Rest, t)
  <1>1. DOMAIN Rest.plan = {} /\ DOMAIN Rest.dirty = {} /\ Rest.inserted = FALSE
    BY DEF Rest, NoColumns
  <1> QED
    BY <1>1 DEF Works, Elsewhere, NoClash

LEMMA RollBackCounts ==
    ASSUME IInv, Numbering, NEW r \in Requests, RollBack(r)
    PROVE  Numbering'
  BY RestWorks, TurnKeeps DEF RollBack

\* What is loaded or begun writes nothing.
LEMMA SameWrites ==
    ASSUME IInv, Numbering, NEW r \in Requests, NEW u, open' = [open EXCEPT ![r] = u],
           db' = db, criteria' = criteria, Works(db, criteria, u), ~u.inserted,
           u.dirty = open[r].dirty \/ DOMAIN u.dirty = {}
    PROVE  Numbering'
  <1>1. \A q \in Requests \ {r} : NoClash(db, u, open[q])
    BY DEF Numbering, NoClash
  <1> QED
    BY <1>1, TurnKeeps

\* A plan of two.
LEMMA PlanOfTwo ==
    ASSUME NEW a, NEW b
    PROVE  /\ <<a, b>> # <<>> /\ Len(<<a, b>>) = 2 /\ DOMAIN <<a, b>> = {1, 2}
           /\ <<a, b>>[1] = a /\ <<a, b>>[2] = b
           /\ Head(<<a, b>>) = a /\ Tail(<<a, b>>) = <<b>>
           /\ <<b>> # <<>> /\ Len(<<b>>) = 1 /\ Head(<<b>>) = b /\ Tail(<<b>>) = <<>>
           /\ DOMAIN <<b>> = {1} /\ <<b>>[1] = b
  OBVIOUS

-----------------------------------------------------------------------------
(* Requests that begin on something else than a version *)

\* A row of another table.
Outside(m) == m.place \notin Versions /\ DOMAIN m.object # {}

LEMMA OutsideCounts ==
    ASSUME IInv, Numbering, NEW r \in Requests, NEW u, open' = [open EXCEPT ![r] = u],
           db' = db, criteria' = criteria, DOMAIN u.dirty = {}, ~u.inserted,
           \A n \in DOMAIN u.plan : Outside(u.plan[n])
    PROVE  Numbering'
  <1>1. Works(db, criteria, u)
    BY DEF Outside, Works, Elsewhere
  <1> QED
    BY <1>1, SameWrites

LEMMA OutsideBegins ==
    ASSUME IInv, Numbering, NEW r \in Requests, NEW op, NEW plan, NEW fate,
           Begin(r, op, plan, fate), \A n \in DOMAIN plan : Outside(plan[n])
    PROVE  Numbering'
  <1> DEFINE u == Opened(plan, fate, <<op, calls[op] + 1>>, <<>>)
  <1>1. open' = [open EXCEPT ![r] = u] /\ db' = db /\ criteria' = criteria
    BY ZenonT(40), BeginOpens
  <1>2. u.dirty = NoColumns /\ u.inserted = FALSE /\ u.plan = plan
    BY DEF Opened
  <1> HIDE DEF u
  <1>3. DOMAIN u.dirty = {}
    BY <1>2 DEF NoColumns
  <1> QED
    BY <1>1, <1>2, <1>3, OutsideCounts

LEMMA OtherTables ==
    /\ \A c \in Campaigns : c \notin Versions
    /\ \A n : <<"campaign", n>> \notin Versions /\ <<"invitation", n>> \notin Versions
                  /\ <<"profile", n>> \notin Versions /\ <<"consent", n>> \notin Versions
    /\ \A i \in Invitations : i \notin Versions
  BY DEF Versions, Campaigns, Invitations

LEMMA CreateCampaignCounts ==
    ASSUME IInv, Numbering, NEW r \in Requests, CreateCampaign(r)
    PROVE  Numbering'
  <1>1. PICK v \in Versions :
           Begin(r, "create_campaign", <<Merge(New("campaign", "create_campaign"), Campaign(v))>>, "told")
    BY DEF CreateCampaign, Stored
  <1> DEFINE a == Merge(New("campaign", "create_campaign"), Campaign(v))
  <1>2. Outside(a)
    BY OtherTables DEF Outside, Merge, New, Campaign
  <1> HIDE DEF a
  <1>3. \A n \in DOMAIN <<a>> : Outside(<<a>>[n])
    BY <1>2
  <1> QED
    BY <1>1, <1>3, OutsideBegins DEF a

LEMMA PublishCampaignCounts ==
    ASSUME IInv, Numbering, NEW r \in Requests, PublishCampaign(r)
    PROVE  Numbering'
  <1>1. PICK c \in Stored(Campaigns) :
           Begin(r, "publish_campaign", <<Merge(c, Publish(db[c], "publish_campaign"))>>, "told")
    BY DEF PublishCampaign
  <1> DEFINE p == Publish(db[c], "publish_campaign")
             a == Merge(c, p)
  <1>2. DOMAIN p # {} /\ c \notin Versions
    BY PublishParts, OtherTables DEF Stored
  <1> HIDE DEF p
  <1>3. Outside(a)
    BY <1>2, MergeParts DEF Outside
  <1> HIDE DEF a
  <1>4. \A n \in DOMAIN <<a>> : Outside(<<a>>[n])
    BY <1>3
  <1> QED
    BY <1>1, <1>4, OutsideBegins DEF a, p

LEMMA ExchangeTokenCounts ==
    ASSUME IInv, Numbering, NEW r \in Requests, ExchangeToken(r)
    PROVE  Numbering'
  <1>1. PICK i \in Stored(Invitations) :
        /\ open' = [open EXCEPT ![r] =
              [Rest EXCEPT !.phase = "load", !.token = i,
                           !.plan = <<Merge(i, [db[i] EXCEPT !.exchanged = TRUE])>>]]
        /\ db' = db /\ criteria' = criteria
    BY DEF ExchangeToken
  <1> DEFINE p == [db[i] EXCEPT !.exchanged = TRUE]
             a == Merge(i, p)
             u == [Rest EXCEPT !.phase = "load", !.token = i, !.plan = <<a>>]
  <1>2. DOMAIN p # {} /\ i \notin Versions
    BY OtherTables DEF Stored
  <1> HIDE DEF p
  <1>3. Outside(a)
    BY <1>2, MergeParts DEF Outside
  <1> HIDE DEF a
  <1>4. u.plan = <<a>> /\ u.dirty = NoColumns /\ u.inserted = FALSE
    BY DEF Rest
  <1>5. open' = [open EXCEPT ![r] = u]
    BY <1>1 DEF a, p
  <1> HIDE DEF u
  <1>6. DOMAIN u.dirty = {} /\ \A n \in DOMAIN u.plan : Outside(u.plan[n])
    BY <1>3, <1>4 DEF NoColumns
  <1> QED
    BY <1>1, <1>4, <1>5, <1>6, OutsideCounts

LEMMA AccessCounts ==
    ASSUME IInv, Numbering, NEW r \in Requests, NEW op, NEW i \in Stored(Invitations), NEW k,
           NEW first, Outside(first), NEW state, Access(r, op, i, k, first, state)
    PROVE  Numbering'
  <1> DEFINE p == Moved(db[i], k, state)
             a == Merge(i, p)
  <1>1. Begin(r, op, <<first, a>>, "told") \/ Begin(r, op, <<first>>, "refused")
    BY DEF Access
  <1>2. DOMAIN p # {} /\ i \notin Versions
    BY OtherTables DEF Stored, Moved
  <1> HIDE DEF p
  <1>3. Outside(a)
    BY <1>2, MergeParts DEF Outside
  <1> HIDE DEF a
  <1>4. /\ \A n \in DOMAIN <<first, a>> : Outside(<<first, a>>[n])
        /\ \A n \in DOMAIN <<first>> : Outside(<<first>>[n])
    BY <1>3
  <1> QED
    BY <1>1, <1>4, OutsideBegins

LEMMA ApplicantsCount ==
    ASSUME IInv, Numbering, NEW r \in Requests, VerifyIdentity(r) \/ RecordConsent(r)
    PROVE  Numbering'
  <1>1. CASE VerifyIdentity(r)
    <2>1. PICK i \in Stored(Invitations), k \in Keys :
        Access(r, "verify", i, k, Merge(<<"profile", i[2]>>, [name |-> "typed"]), "identity_verified")
      BY <1>1 DEF VerifyIdentity
    <2>2. Outside(Merge(<<"profile", i[2]>>, [name |-> "typed"]))
      BY OtherTables DEF Outside, Merge
    <2> QED
      BY <2>1, <2>2, AccessCounts
  <1>2. CASE RecordConsent(r)
    <2>1. PICK i \in Stored(Invitations), k \in Keys :
        Access(r, "consent", i, k, Merge(New("consent", "consent"), ConsentRecord(i)), "consented")
      BY <1>2 DEF RecordConsent
    <2>2. Outside(Merge(New("consent", "consent"), ConsentRecord(i)))
      BY OtherTables DEF Outside, Merge, New, ConsentRecord
    <2> QED
      BY <2>1, <2>2, AccessCounts
  <1> QED
    BY <1>1, <1>2

LEMMA IssueInvitationsCounts ==
    ASSUME IInv, Numbering, NEW r \in Requests, IssueInvitations(r)
    PROVE  Numbering'
  <1>1. PICK c \in Stored(Campaigns) :
          Begin(r, "issue",
                <<Merge(New("invitation", "issue"), Invitation(c)),
                  Merge(New("profile", "issue"), [name |-> "given"])>> \o MarkIssued(c),
                IF MarkIssued(c) = <<>> THEN "refused" ELSE "told")
    BY DEF IssueInvitations
  <1> DEFINE a == Merge(New("invitation", "issue"), Invitation(c))
             b == Merge(New("profile", "issue"), [name |-> "given"])
             p == IF db[c].issued THEN db[c]
                  ELSE [db[c] EXCEPT !.issued = TRUE, !.row_version = @ + 1]
             m == Merge(c, p)
             fate == IF MarkIssued(c) = <<>> THEN "refused" ELSE "told"
  <1>2. Outside(a) /\ Outside(b)
    <2>1. Outside(a)
      BY OtherTables DEF Outside, Merge, New, Invitation
    <2>2. Outside(b)
      BY OtherTables DEF Outside, Merge, New
    <2> QED
      BY <2>1, <2>2
  <1>3. DOMAIN p # {} /\ c \notin Versions
    BY OtherTables DEF Stored
  <1>4. MarkIssued(c) = <<>> \/ MarkIssued(c) = <<m>>
    BY DEF MarkIssued
  <1> HIDE DEF p
  <1>5. Outside(m)
    BY <1>3, MergeParts DEF Outside
  <1> HIDE DEF a, b, m, fate
  <1>6. <<a, b>> \o <<>> = <<a, b>>
    OBVIOUS
  <1>7. <<a, b>> \o <<m>> = <<a, b, m>>
    BY Appended
  <1>8. /\ \A n \in DOMAIN <<a, b>> : Outside(<<a, b>>[n])
        /\ \A n \in DOMAIN <<a, b, m>> : Outside(<<a, b, m>>[n])
    BY <1>2, <1>5
  <1>9. Begin(r, "issue", <<a, b>> \o MarkIssued(c), fate)
    BY <1>1 DEF a, b, fate
  <1> QED
    BY <1>4, <1>6, <1>7, <1>8, <1>9, OutsideBegins

-----------------------------------------------------------------------------
(* Requests about a version *)

\* The plan of a transaction about v that has yet to merge the object o.
LEMMA VersionBegins ==
    ASSUME IInv, Numbering, NEW r \in Requests, NEW op, NEW v \in Versions, NEW o,
           Begin(r, op, <<Merge(v, o), ReplaceCriteria(v)>>, "told"),
           \A t : t.copy = <<op, calls[op] + 1>> => ToMerge(db, t, v, o)
    PROVE  Numbering'
  <1> DEFINE plan == <<Merge(v, o), ReplaceCriteria(v)>>
             u == Opened(plan, "told", <<op, calls[op] + 1>>, <<>>)
  <1>1. open' = [open EXCEPT ![r] = u] /\ db' = db /\ criteria' = criteria
    BY ZenonT(40), BeginOpens
  <1>2. plan[1] = Merge(v, o) /\ 1 \in DOMAIN plan
    OBVIOUS
  <1>3. u.dirty = NoColumns /\ u.inserted = FALSE /\ u.plan = plan /\ u.phase = "load"
        /\ u.copy = <<op, calls[op] + 1>>
    BY DEF Opened
  <1> HIDE DEF u
  <1>4. DOMAIN u.dirty = {} /\ ToMerge(db, u, v, o)
    BY <1>3 DEF NoColumns
  <1>5. o \in {u.plan[n].object : n \in DOMAIN u.plan}
    <2> HIDE DEF plan
    <2> QED
      BY <1>2, <1>3, MergeParts
  <1>6. Works(db, criteria, u)
    BY <1>3, <1>4, <1>5 DEF Works, OnVersion
  <1> QED
    BY <1>1, <1>3, <1>4, <1>6, SameWrites

LEMMA CreateVersionCounts ==
    ASSUME IInv, Numbering, NEW r \in Requests, CreateVersion(r)
    PROVE  Numbering'
  <1> DEFINE v == New("version", "create_version")
  <1>1. PICK p \in Positions, weighted \in BOOLEAN :
           Begin(r, "create_version",
                 <<Merge(v, CompetencyModelVersion(p, weighted)), ReplaceCriteria(v)>>, "told")
    BY DEF CreateVersion
  <1> DEFINE o == CompetencyModelVersion(p, weighted)
  <1>2. /\ "create_version" \in Operations /\ <<"create_version", "version">> \in Makes
        /\ calls["create_version"] < Limit["create_version"]
    BY <1>1 DEF Operations, Makes, Begin
  <1>3. v \in Versions /\ v[2] = calls["create_version"] + 1
    BY <1>2, NewIsAPlace
  <1>4. ~In(db, v)
    <2>1. v \in Places /\ v[1] = "version" /\ calls["create_version"] \in Nat
      BY <1>2, <1>3, Tables DEF IInv, Shapes
    <2>2. v[2] > calls["create_version"]
      BY <1>3, <2>1
    <2> QED
      BY <1>2, <2>1, <2>2 DEF IInv, IdsAreApart
  <1>5. HasNumber(o) /\ o.position = p /\ o.number = NextNumber(p)
    BY DEF CompetencyModelVersion, HasNumber
  <1>6. Follows(db, p, NextNumber(p))
    BY NextFollows DEF Numbering
  <1> HIDE DEF v, o
  <1>7. \A t : t.copy = <<"create_version", calls["create_version"] + 1>> => ToMerge(db, t, v, o)
    BY <1>3, <1>4, <1>5, <1>6 DEF ToMerge, MadeVersion
  <1> QED
    BY <1>1, <1>3, <1>7, VersionBegins DEF o

LEMMA PublishVersionCounts ==
    ASSUME IInv, Numbering, NEW r \in Requests, PublishVersion(r)
    PROVE  Numbering'
  <1>1. PICK v \in Stored(Versions) :
           Begin(r, "publish_version",
                 <<Merge(v, Publish(db[v], "publish_version")), ReplaceCriteria(v)>>, "told")
    BY DEF PublishVersion
  <1> DEFINE o == Publish(db[v], "publish_version")
  <1>2. v \in Versions /\ In(db, v)
    BY DEF Stored, In
  <1>3. DOMAIN db[v] = Columns["version"]
    BY <1>2, Tables DEF IInv, RowsAgree
  <1>4. DOMAIN o = DOMAIN db[v] /\ o.position = db[v].position /\ o.number = db[v].number
    BY <1>3 DEF Publish, Columns
  <1>5. HasNumber(o)
    BY <1>3, <1>4 DEF HasNumber, Columns
  <1> HIDE DEF o
  <1>6. \A t : ToMerge(db, t, v, o)
    BY <1>2, <1>4, <1>5 DEF ToMerge
  <1> QED
    BY <1>1, <1>2, <1>6, VersionBegins DEF o

\* What a merge finds to differ of a version.
LEMMA DifferenceOf ==
    ASSUME NEW d, NEW t, NEW v, NEW o, ToMerge(d, t, v, o), In(d, v) => HasNumber(d[v]),
           NEW u, u.change = Differing(d[v], o)
    PROVE  Differs(d, u, v, o)
  <1> DEFINE p == Differing(d[v], o)
  <1>1. /\ DOMAIN p = {c \in DOMAIN o : c \notin DOMAIN d[v] \/ d[v][c] # o[c]}
        /\ \A c \in DOMAIN p : p[c] = o[c]
    BY DEF Differing
  <1> HIDE DEF p
  <1>2. CASE In(d, v)
    BY <1>1, <1>2 DEF ToMerge, Differs, HasNumber, p
  <1>3. CASE ~In(d, v)
    <2>1. DOMAIN p = DOMAIN o
      BY <1>1, <1>3 DEF In
    <2>2. HasNumber(p) /\ p.position = o.position /\ p.number = o.number
      BY <1>1, <2>1 DEF ToMerge, HasNumber
    <2> QED
      BY <1>3, <2>2 DEF Differs, p
  <1> QED
    BY <1>2, <1>3

LEMMA LoadCounts ==
    ASSUME IInv, Numbering, NEW r \in Requests, Load(r)
    PROVE  Numbering'
  <1> DEFINE t == open[r]
             x == Now(r).place
             u == IF OnCriteria(r)
                  THEN [t EXCEPT !.phase = "flush", !.version = x, !.seen = criteria[x]]
                  ELSE [t EXCEPT !.phase = "flush", !.change = Differing(Written(r, x), Now(r).object)]
  <1>1. open' = [open EXCEPT ![r] = u] /\ db' = db /\ criteria' = criteria /\ t.phase = "load"
    BY DEF Load, IInv, Shapes
  <1>2. Ordered(t) /\ t.plan # <<>>
    BY <1>1 DEF IInv, Good, Ordered
  <1>3. /\ u.plan = t.plan /\ u.dirty = t.dirty /\ u.copy = t.copy /\ u.inserted = t.inserted
        /\ u.phase = "flush" /\ u.gone = t.gone
        /\ OnCriteria(r) => u.version = x
        /\ ~OnCriteria(r) => u.change = Differing(Written(r, x), Now(r).object)
    BY <1>2 DEF Ordered
  <1>4. Works(db, criteria, t)
    BY DEF Numbering
  <1> HIDE DEF u
  <1>5. CASE Elsewhere(t)
    <2>1. Elsewhere(u)
      BY <1>3, <1>5 DEF Elsewhere
    <2> QED
      BY <1>1, <1>3, <1>5, <2>1, SameWrites DEF Works, Elsewhere
  <1>6. ASSUME NEW v \in Versions, OnVersion(db, criteria, t, v)
        PROVE  Numbering'
    <2>1. CASE \E o \in {t.plan[n].object : n \in DOMAIN t.plan} :
                  /\ t.plan = <<Merge(v, o), ReplaceCriteria(v)>>
                  /\ ToMerge(db, t, v, o)
                  /\ DOMAIN t.dirty = {} /\ ~t.inserted
      <3>1. PICK o \in {t.plan[n].object : n \in DOMAIN t.plan} :
                  /\ t.plan = <<Merge(v, o), ReplaceCriteria(v)>>
                  /\ ToMerge(db, t, v, o)
                  /\ DOMAIN t.dirty = {} /\ ~t.inserted
        BY <2>1
      <3>2. Now(r) = Merge(v, o)
        BY <3>1, PlanOfTwo DEF Now
      <3>3. x = v /\ Now(r).object = o /\ DOMAIN o # {}
        BY <3>1, <3>2, MergeParts DEF ToMerge, HasNumber
      <3>4. ~OnCriteria(r) /\ Written(r, x) = db[v]
        BY <3>1, <3>3 DEF OnCriteria, Written
      <3>5. In(db, v) => HasNumber(db[v])
        BY Tables DEF IInv, RowsAgree, Columns, HasNumber
      <3>6. Differs(db, u, v, o)
        BY <1>3, <3>1, <3>3, <3>4, <3>5, DifferenceOf
      <3>7. ToMerge(db, u, v, o)
        BY <1>3, <3>1 DEF ToMerge, MadeVersion
      <3>8. OnVersion(db, criteria, u, v)
        BY <1>3, <3>1, <3>6, <3>7 DEF OnVersion
      <3> QED
        BY <1>1, <1>3, <3>1, <3>8, SameWrites DEF Works
    <2>2. CASE t.plan = <<ReplaceCriteria(v)>> /\ Wrote(db, t, v) /\ ~t.inserted
      <3>1. Now(r) = ReplaceCriteria(v)
        BY <2>2 DEF Now
      <3>2. OnCriteria(r) /\ x = v
        BY <3>1 DEF OnCriteria, ReplaceCriteria, NoColumns
      <3>3. Wrote(db, u, v)
        BY <1>3, <2>2 DEF Wrote, MadeVersion
      <3>4. OnVersion(db, criteria, u, v)
        BY <1>3, <2>2, <3>2, <3>3 DEF OnVersion
      <3> QED
        BY <1>1, <1>3, <2>2, <3>4, SameWrites DEF Works
    <2> QED
      BY <1>2, <1>6, <2>1, <2>2 DEF OnVersion
  <1> QED
    BY <1>4, <1>5, <1>6 DEF Works

-----------------------------------------------------------------------------
(* Flush *)

\* What a flush makes of a transaction.
LEMMA FlushedTo ==
    ASSUME IInv, NEW r \in Requests, Flush(r)
    PROVE  \E u :
              /\ open' = [open EXCEPT ![r] = u] /\ db' = db /\ criteria' = criteria
              /\ u.plan = Tail(open[r].plan) /\ u.copy = open[r].copy
              /\ u.version = open[r].version /\ u.phase # "flush"
              /\ OnCriteria(r) =>
                    /\ u.dirty = open[r].dirty /\ u.inserted = TRUE
                    /\ u.gone = open[r].gone \cup (open[r].seen \cap criteria[Now(r).place])
              /\ ~OnCriteria(r) =>
                    /\ u.inserted = open[r].inserted /\ u.gone = open[r].gone
                    /\ DOMAIN open[r].change = {} => u.dirty = open[r].dirty
                    /\ DOMAIN open[r].change # {} =>
                          /\ DOMAIN u.dirty = DOMAIN open[r].dirty \cup {Now(r).place}
                          /\ Now(r).place \notin DOMAIN open[r].dirty =>
                                u.dirty[Now(r).place] = open[r].change
  <1> DEFINE t == open[r]
             x == Now(r).place
             w == IF OnCriteria(r)
                  THEN [t EXCEPT !.gone = @ \cup (t.seen \cap criteria[x]), !.inserted = TRUE]
                  ELSE IF DOMAIN t.change = {} THEN t
                  ELSE [t EXCEPT !.dirty = Over(@, [y \in {x} |->
                           IF x \in DOMAIN t.dirty THEN Over(t.dirty[x], t.change) ELSE t.change])]
             u == Flushed(t, w)
  <1>1. open' = [open EXCEPT ![r] = u] /\ db' = db /\ criteria' = criteria /\ t.phase = "flush"
    BY DEF Flush
  <1>2. Ordered(t)
    BY DEF IInv, Good
  <1>3. /\ w.plan = t.plan /\ w.copy = t.copy /\ w.version = t.version
        /\ w = [phase |-> w.phase, plan |-> w.plan, fate |-> w.fate, change |-> w.change,
                dirty |-> w.dirty, version |-> w.version, seen |-> w.seen, gone |-> w.gone,
                copy |-> w.copy, inserted |-> w.inserted, token |-> w.token]
        /\ OnCriteria(r) =>
              /\ w.dirty = t.dirty /\ w.inserted = TRUE
              /\ w.gone = t.gone \cup (t.seen \cap criteria[x])
        /\ ~OnCriteria(r) =>
              /\ w.inserted = t.inserted /\ w.gone = t.gone
              /\ DOMAIN t.change = {} => w.dirty = t.dirty
              /\ DOMAIN t.change # {} =>
                    w.dirty = Over(t.dirty, [y \in {x} |->
                        IF x \in DOMAIN t.dirty THEN Over(t.dirty[x], t.change) ELSE t.change])
    BY <1>2 DEF Ordered
  <1> HIDE DEF w
  <1>4. ~OnCriteria(r) /\ DOMAIN t.change # {} =>
           /\ DOMAIN w.dirty = DOMAIN t.dirty \cup {x}
           /\ x \notin DOMAIN t.dirty => w.dirty[x] = t.change
    BY <1>3 DEF Over
  <1>5. /\ u.plan = Tail(w.plan) /\ u.copy = w.copy /\ u.dirty = w.dirty
        /\ u.version = w.version /\ u.gone = w.gone /\ u.inserted = w.inserted
        /\ u.phase = IF Len(t.plan) = 1 THEN t.fate ELSE "load"
    <2>1. u = Flushed(t, w)
      OBVIOUS
    <2> HIDE DEF u, t, x
    <2> QED
      BY <1>3, <2>1, FlushedParts DEF Whole
  <1>6. u.phase # "flush"
    BY <1>2, <1>5 DEF Ordered
  <1> HIDE DEF u
  <1> QED
    BY <1>1, <1>3, <1>4, <1>5, <1>6

\* The row of a version is written: nobody has its number, and nobody is about to.
LEMMA RowFlushed ==
    ASSUME IInv, Numbering, NEW r \in Requests, Flush(r), NEW v \in Versions, NEW o,
           open[r].plan = <<Merge(v, o), ReplaceCriteria(v)>>,
           ToMerge(db, open[r], v, o), Differs(db, open[r], v, o),
           DOMAIN open[r].dirty = {}, ~open[r].inserted
    PROVE  Numbering'
  <1> DEFINE t == open[r]
  <1>1. Now(r).place = v /\ Now(r).object = o /\ Tail(t.plan) = <<ReplaceCriteria(v)>>
    BY PlanOfTwo, MergeParts DEF Now
  <1>2. ~OnCriteria(r)
    BY <1>1 DEF OnCriteria, ToMerge, HasNumber
  <1> HIDE DEF t
  <1>3. PICK u :
           /\ open' = [open EXCEPT ![r] = u] /\ db' = db /\ criteria' = criteria
           /\ u.plan = Tail(open[r].plan) /\ u.copy = open[r].copy
           /\ u.version = open[r].version /\ u.phase # "flush"
           /\ OnCriteria(r) =>
                 /\ u.dirty = open[r].dirty /\ u.inserted = TRUE
                 /\ u.gone = open[r].gone \cup (open[r].seen \cap criteria[Now(r).place])
           /\ ~OnCriteria(r) =>
                 /\ u.inserted = open[r].inserted /\ u.gone = open[r].gone
                 /\ DOMAIN open[r].change = {} => u.dirty = open[r].dirty
                 /\ DOMAIN open[r].change # {} =>
                       /\ DOMAIN u.dirty = DOMAIN open[r].dirty \cup {Now(r).place}
                       /\ Now(r).place \notin DOMAIN open[r].dirty =>
                             u.dirty[Now(r).place] = open[r].change
    BY FlushedTo, Zenon
  <1>6. /\ u.plan = <<ReplaceCriteria(v)>> /\ u.copy = t.copy /\ u.inserted = t.inserted
        /\ DOMAIN t.change = {} => u.dirty = t.dirty
        /\ DOMAIN t.change # {} => DOMAIN u.dirty = {v} /\ u.dirty[v] = t.change
    BY <1>1, <1>2, <1>3 DEF t
  <1> USE DEF t
  <1>4. CASE In(db, v)
    <2>1. DOMAIN u.dirty \subseteq {v} /\ \A x \in DOMAIN u.dirty : u.dirty[x] = t.change
      BY <1>3, <1>6
    <2>2. Wrote(db, u, v)
      BY <1>4, <2>1 DEF Wrote, Differs
    <2>3. Works(db, criteria, u)
      BY <1>3, <1>6, <2>2 DEF Works, OnVersion
    <2>4. \A q \in Requests \ {r} : NoClash(db, u, open[q])
      BY <1>3, <1>6, <1>4, <2>1 DEF NoClash
    <2> QED
      BY <1>3, <1>6, <2>3, <2>4, TurnKeeps
  <1>5. CASE ~In(db, v)
    <2>1. DOMAIN t.change # {} /\ HasNumber(t.change)
          /\ t.change.position = o.position /\ t.change.number = o.number
      BY <1>5 DEF Differs, HasNumber
    <2>2. DOMAIN u.dirty = {v} /\ u.dirty[v] = t.change
      BY <1>3, <1>6, <2>1
    <2>3. Inserting(r)
      BY <1>1, <1>2, <1>5 DEF Inserting, In
    <2>4. o.number \notin Numbers(db, o.position)
      <3>1. o.number \notin NumbersOf(o.position)
        BY <1>1, <1>2, <2>3 DEF Flush, Collides
      <3> QED
        BY <3>1 DEF NumbersOf, Numbers, Stored, In
    <2>5. Wrote(db, u, v)
      BY <1>3, <1>6, <1>5, <2>1, <2>2, <2>4 DEF Wrote, ToMerge, MadeVersion
    <2>6. Works(db, criteria, u)
      BY <1>3, <1>6, <2>5 DEF Works, OnVersion
    <2>7. ASSUME NEW q \in Requests \ {r}, NEW w \in DOMAIN open[q].dirty \cap Versions, ~In(db, w)
          PROVE  open[q].dirty[w].position # o.position \/ open[q].dirty[w].number # o.number
      <3>1. ~Inserts(q, o.position, o.number)
        BY <1>1, <1>2, <2>3 DEF Flush, Waits
      <3>2. HasNumber(open[q].dirty[w])
        BY <2>7 DEF Numbering, Works, Elsewhere, OnVersion, Wrote
      <3> QED
        BY <2>7, <3>1, <3>2 DEF Inserts, In, HasNumber
    <2>8. \A q \in Requests \ {r} : NoClash(db, u, open[q])
      BY <1>3, <1>6, <2>1, <2>2, <2>7 DEF NoClash
    <2> QED
      BY <1>3, <1>6, <2>6, <2>8, TurnKeeps
  <1> QED
    BY <1>4, <1>5

\* The criteria are replaced: the copies that were read are all there are, and nobody
\* else is replacing them.
LEMMA CriteriaFlushed ==
    ASSUME IInv, Numbering, NEW r \in Requests, Flush(r), NEW v \in Versions,
           open[r].plan = <<ReplaceCriteria(v)>>, open[r].version = v,
           Wrote(db, open[r], v), ~open[r].inserted
    PROVE  Numbering'
  <1> DEFINE t == open[r]
  <1>1. Now(r) = ReplaceCriteria(v) /\ Tail(t.plan) = <<>>
    BY DEF Now
  <1>2. OnCriteria(r) /\ Now(r).place = v
    BY <1>1 DEF OnCriteria, ReplaceCriteria, NoColumns
  <1>3. PICK u :
           /\ open' = [open EXCEPT ![r] = u] /\ db' = db /\ criteria' = criteria
           /\ u.plan = Tail(open[r].plan) /\ u.copy = open[r].copy
           /\ u.version = open[r].version /\ u.phase # "flush"
           /\ OnCriteria(r) =>
                 /\ u.dirty = open[r].dirty /\ u.inserted = TRUE
                 /\ u.gone = open[r].gone \cup (open[r].seen \cap criteria[Now(r).place])
           /\ ~OnCriteria(r) =>
                 /\ u.inserted = open[r].inserted /\ u.gone = open[r].gone
                 /\ DOMAIN open[r].change = {} => u.dirty = open[r].dirty
                 /\ DOMAIN open[r].change # {} =>
                       /\ DOMAIN u.dirty = DOMAIN open[r].dirty \cup {Now(r).place}
                       /\ Now(r).place \notin DOMAIN open[r].dirty =>
                             u.dirty[Now(r).place] = open[r].change
    BY FlushedTo, Zenon
  <1>8. /\ u.plan = <<>> /\ u.copy = t.copy /\ u.version = v
        /\ u.dirty = t.dirty /\ u.inserted = TRUE
        /\ u.gone = t.gone \cup (t.seen \cap criteria[v])
    BY <1>1, <1>2, <1>3
  <1>4. criteria[v] \subseteq u.gone
    <2>1. criteria[v] \ t.seen = {}
      BY <1>2 DEF Flush, Collides
    <2> QED
      BY <1>3, <1>8, <2>1
  <1>5. Wrote(db, u, v)
    BY <1>3, <1>8 DEF Wrote, MadeVersion
  <1>6. Works(db, criteria, u)
    BY <1>3, <1>8, <1>4, <1>5 DEF Works, OnVersion
  <1>7. ASSUME NEW q \in Requests \ {r}
        PROVE  NoClash(db, u, open[q])
    <2>1. ~(open[q].inserted /\ open[q].version = v)
      BY <1>2 DEF Flush, Waits
    <2> QED
      BY <1>3, <1>8, <2>1 DEF NoClash, Numbering
  <1> QED
    BY <1>3, <1>8, <1>6, <1>7, TurnKeeps

LEMMA FlushCounts ==
    ASSUME IInv, Numbering, NEW r \in Requests, Flush(r)
    PROVE  Numbering'
  <1> DEFINE t == open[r]
  <1>1. t.phase = "flush" /\ Ordered(t) /\ t.plan # <<>> /\ IsPlan(t.plan)
    BY DEF Flush, IInv, Good, Ordered
  <1>2. Works(db, criteria, t)
    BY DEF Numbering
  <1>3. CASE Elsewhere(t)
    <2>1. /\ 1 \in DOMAIN t.plan /\ Head(t.plan) = t.plan[1]
          /\ \A n \in DOMAIN Tail(t.plan) : n + 1 \in DOMAIN t.plan /\ Tail(t.plan)[n] = t.plan[n + 1]
      BY <1>1, PlanParts
    <2>2. Now(r).place \notin Versions /\ DOMAIN Now(r).object # {}
      BY <1>3, <2>1 DEF Elsewhere, Now
    <2>3. ~OnCriteria(r)
      BY <2>2 DEF OnCriteria
    <2>4. PICK u :
           /\ open' = [open EXCEPT ![r] = u] /\ db' = db /\ criteria' = criteria
           /\ u.plan = Tail(t.plan) /\ u.inserted = t.inserted
           /\ DOMAIN u.dirty \subseteq DOMAIN t.dirty \cup {Now(r).place}
      BY <2>3, FlushedTo
    <2>5. Elsewhere(u)
      BY <1>3, <2>1, <2>2, <2>4 DEF Elsewhere
    <2>6. \A q \in Requests \ {r} : NoClash(db, u, open[q])
      BY <2>5 DEF NoClash, Elsewhere
    <2> QED
      BY <2>4, <2>5, <2>6, TurnKeeps DEF Works
  <1>4. ASSUME NEW v \in Versions, OnVersion(db, criteria, t, v)
        PROVE  Numbering'
    BY <1>1, <1>4, RowFlushed, CriteriaFlushed DEF OnVersion
  <1> QED
    BY <1>2, <1>3, <1>4 DEF Works

-----------------------------------------------------------------------------
(* Commit *)

\* Where versions are added to d and nothing that u counts on is lost, u goes on.
LEMMA OthersGoOn ==
    ASSUME NEW d, NEW e, NEW k, NEW l, NEW u, Works(d, k, u), Kept(d, e),
           \A w \in Versions : In(e, w) /\ ~In(d, w) => ~MadeVersion(u, w),
           \A w \in DOMAIN u.dirty \cap Versions : ~In(d, w) =>
              (u.dirty[w].number \in Numbers(e, u.dirty[w].position) =>
                  u.dirty[w].number \in Numbers(d, u.dirty[w].position)),
           \A w \in Versions : u.inserted /\ u.version = w => l[w] = k[w]
    PROVE  Works(e, l, u)
  <1>1. CASE Elsewhere(u)
    BY <1>1 DEF Works
  <1>2. ASSUME NEW v \in Versions, OnVersion(d, k, u, v)
        PROVE  OnVersion(e, l, u, v)
    <2>1. \A p, n : Follows(d, p, n) => Follows(e, p, n)
      BY NumbersGrow
    <2>2. ASSUME NEW o, ToMerge(d, u, v, o)
          PROVE  /\ ToMerge(e, u, v, o)
                 /\ Differs(d, u, v, o) => Differs(e, u, v, o)
      BY <2>1, <2>2 DEF ToMerge, Differs, Kept
    <2>3. Wrote(d, u, v) => Wrote(e, u, v)
      BY <2>1 DEF Wrote, Kept
    <2> QED
      BY <1>2, <2>2, <2>3 DEF OnVersion
  <1> QED
    BY <1>1, <1>2 DEF Works

\* What a commit makes of versions.
LEMMA CommittedVersions ==
    ASSUME IInv, Numbering, NEW r \in Requests, Commit(r)
    PROVE  LET t == open[r]
               written == DOMAIN t.dirty \cap Versions
           IN  /\ \A v \in Versions \ written : db'[v] = db[v]
               /\ \A v \in written :
                     /\ In(db', v) /\ HasNumber(db'[v]) /\ t.inserted /\ t.version = v
                     /\ In(db, v) => /\ db'[v].position = db[v].position
                                     /\ db'[v].number = db[v].number
                     /\ ~In(db, v) =>
                           /\ db'[v].position = t.dirty[v].position
                           /\ db'[v].number = t.dirty[v].number
                           /\ MadeVersion(t, v)
                           /\ Follows(db, t.dirty[v].position, t.dirty[v].number)
                           /\ t.dirty[v].number \notin Numbers(db, t.dirty[v].position)
               /\ t.inserted => /\ t.version \in Versions /\ In(db', t.version)
                                /\ criteria[t.version] \subseteq t.gone
  <1> DEFINE t == open[r]
             written == DOMAIN t.dirty \cap Versions
  <1>1. t.plan = <<>> /\ \A x \in DOMAIN t.dirty : DOMAIN t.dirty[x] # {}
    BY DEF Commit, IInv, Good, Ordered
  <1>2. \A v \in Versions : db'[v] = IF v \in DOMAIN t.dirty THEN Over(db[v], t.dirty[v]) ELSE db[v]
    BY Tables DEF Commit, Written
  <1>3. Elsewhere(t) \/ \E v \in Versions :
           Wrote(db, t, v) /\ t.inserted /\ t.version = v /\ criteria[v] \subseteq t.gone
    <2>1. \A a, b : <<a, b>> # <<>> /\ <<b>> # <<>>
      OBVIOUS
    <2> QED
      BY <1>1, <2>1 DEF Numbering, Works, OnVersion
  <1>4. ASSUME NEW v \in written
        PROVE  /\ In(db', v)
               /\ \A c \in {"position", "number"} :
                     /\ c \in DOMAIN t.dirty[v] => c \in DOMAIN db'[v] /\ db'[v][c] = t.dirty[v][c]
                     /\ c \notin DOMAIN t.dirty[v] /\ c \in DOMAIN db[v] =>
                           c \in DOMAIN db'[v] /\ db'[v][c] = db[v][c]
    BY <1>1, <1>2 DEF Over, In
  <1>5. ASSUME NEW v \in written
        PROVE  /\ Wrote(db, t, v) /\ t.inserted /\ t.version = v
    BY <1>3 DEF Elsewhere, Wrote
  <1>6. ASSUME NEW v \in written, In(db, v)
        PROVE  /\ HasNumber(db'[v])
               /\ db'[v].position = db[v].position /\ db'[v].number = db[v].number
    <2>1. HasNumber(db[v]) /\ DOMAIN t.dirty[v] \cap {"position", "number"} = {}
      BY <1>5, <1>6 DEF Wrote, Numbering, Counted
    <2> QED
      BY <1>4, <2>1 DEF HasNumber
  <1>7. ASSUME NEW v \in written, ~In(db, v)
        PROVE  /\ HasNumber(db'[v])
               /\ db'[v].position = t.dirty[v].position /\ db'[v].number = t.dirty[v].number
               /\ MadeVersion(t, v)
               /\ Follows(db, t.dirty[v].position, t.dirty[v].number)
               /\ t.dirty[v].number \notin Numbers(db, t.dirty[v].position)
    <2>1. Wrote(db, t, v)
      BY <1>5
    <2>2. HasNumber(t.dirty[v])
      BY <1>7, <2>1 DEF Wrote
    <2>3. /\ HasNumber(db'[v])
          /\ db'[v].position = t.dirty[v].position /\ db'[v].number = t.dirty[v].number
      BY <1>4, <2>2 DEF HasNumber
    <2> QED
      BY <1>7, <2>1, <2>3 DEF Wrote
  <1>8. t.inserted => /\ t.version \in Versions /\ In(db', t.version)
                      /\ criteria[t.version] \subseteq t.gone
    <2>1. SUFFICES ASSUME NEW v \in Versions, Wrote(db, t, v), t.version = v
                   PROVE  In(db', v)
      BY <1>3 DEF Elsewhere
    <2>2. CASE v \in DOMAIN t.dirty
      BY <1>4, <2>2
    <2>3. CASE v \notin DOMAIN t.dirty
      BY <1>2, <2>1, <2>3 DEF Wrote, In
    <2> QED
      BY <2>2, <2>3
  <1> HIDE DEF t
  <1> QED
    BY <1>2, <1>4, <1>5, <1>6, <1>7, <1>8 DEF t

\* A version that is committed takes the number after the last.
LEMMA CommitCounts ==
    ASSUME IInv, Numbering, NEW r \in Requests, Commit(r)
    PROVE  Numbering'
  <1> DEFINE t == open[r]
             written == DOMAIN t.dirty \cap Versions
             e == db'
             l == criteria'
  <1>1. /\ \A v \in Versions \ written : e[v] = db[v]
        /\ \A v \in written :
              /\ In(e, v) /\ HasNumber(e[v]) /\ t.inserted /\ t.version = v
              /\ In(db, v) => e[v].position = db[v].position /\ e[v].number = db[v].number
              /\ ~In(db, v) =>
                    /\ e[v].position = t.dirty[v].position /\ e[v].number = t.dirty[v].number
                    /\ MadeVersion(t, v)
                    /\ Follows(db, t.dirty[v].position, t.dirty[v].number)
                    /\ t.dirty[v].number \notin Numbers(db, t.dirty[v].position)
        /\ t.inserted => t.version \in Versions /\ In(e, t.version) /\ criteria[t.version] \subseteq t.gone
    BY CommittedVersions
  <1>2. /\ DOMAIN l = Versions
        /\ \A v \in Versions : l[v] = IF t.inserted /\ t.version = v
                                      THEN (criteria[v] \ t.gone) \cup {t.copy} ELSE criteria[v]
    BY DEF Commit, AfterDelete
  <1>3. open' = [open EXCEPT ![r] = Rest]
    BY DEF Commit
  <1> HIDE DEF t, e, l
  <1>4. \A v, w \in written : v = w
    BY <1>1
  <1>5. Kept(db, e)
    BY <1>1 DEF Kept, In
  <1>6. \A v \in Versions : In(e, v) => In(db, v) \/ v \in written
    BY <1>1 DEF In
  <1>7. ASSUME NEW p
        PROVE  Numbers(e, p) = Numbers(db, p) \cup
                  {t.dirty[v].number : v \in {v \in written : ~In(db, v) /\ t.dirty[v].position = p}}
    <2>1. \A n \in Numbers(e, p) : n \in Numbers(db, p) \/
             \E v \in written : ~In(db, v) /\ t.dirty[v].position = p /\ n = t.dirty[v].number
      <3> SUFFICES ASSUME NEW v \in Versions, In(e, v), e[v].position = p
                   PROVE  e[v].number \in Numbers(db, p) \/
                          \E w \in written : ~In(db, w) /\ t.dirty[w].position = p /\ e[v].number = t.dirty[w].number
        BY DEF Numbers
      <3>1. CASE In(db, v)
        BY <1>5, <3>1 DEF Numbers, Kept
      <3>2. CASE ~In(db, v)
        BY <1>1, <1>6, <3>2
      <3> QED
        BY <3>1, <3>2
    <2>2. Numbers(db, p) \subseteq Numbers(e, p)
      BY <1>5, NumbersGrow
    <2>3. ASSUME NEW v \in written, ~In(db, v), t.dirty[v].position = p
          PROVE  t.dirty[v].number \in Numbers(e, p)
      BY <1>1, <2>3 DEF Numbers
    <2> QED
      BY <2>1, <2>2, <2>3
  <1>8. Counted(e)
    <2>1. \A v \in Versions : In(e, v) => HasNumber(e[v])
      BY <1>1 DEF Numbering, Counted, In
    <2>2. ASSUME NEW p \in Positions
          PROVE  \E n \in Nat : Numbers(e, p) = 1..n
      <3>1. PICK n \in Nat : Numbers(db, p) = 1..n
        BY DEF Numbering, Counted
      <3>2. CASE \E v \in written : ~In(db, v) /\ t.dirty[v].position = p
        <4>1. PICK v \in written : ~In(db, v) /\ t.dirty[v].position = p
          BY <3>2
        <4> DEFINE k == t.dirty[v].number
        <4>2. k = n + 1
          <5>1. k \in Nat \ {0} /\ (k = 1 \/ k - 1 \in 1..n) /\ k \notin 1..n
            BY <1>1, <3>1, <4>1 DEF Follows
          <5> QED
            BY <5>1, NumberAdded
        <4>3. Numbers(e, p) = Numbers(db, p) \cup {k}
          BY <1>4, <1>7, <4>1
        <4> HIDE DEF k
        <4>4. Numbers(e, p) = 1..(n + 1)
          BY <3>1, <4>2, <4>3
        <4> QED
          BY <4>4
      <3>3. CASE ~\E v \in written : ~In(db, v) /\ t.dirty[v].position = p
        BY <1>7, <3>1, <3>3
      <3> QED
        BY <3>2, <3>3
    <2>3. ASSUME NEW v \in Versions, NEW w \in Versions, In(e, v), In(e, w),
                 e[v].position = e[w].position, e[v].number = e[w].number, ~In(db, v), v # w
          PROVE  FALSE
      <3>1. v \in written /\ In(db, w)
        BY <1>4, <1>6, <2>3
      <3>2. e[w].number \in Numbers(db, e[w].position)
        BY <1>5, <3>1 DEF Numbers, Kept
      <3> QED
        BY <1>1, <2>3, <3>1, <3>2
    <2>4. ASSUME NEW v \in Versions, NEW w \in Versions, In(db, v), In(db, w),
                 e[v].position = e[w].position, e[v].number = e[w].number
          PROVE  v = w
      BY <1>5, <2>4 DEF Kept, Numbering, Counted
    <2>5. ASSUME NEW v \in Versions, NEW w \in Versions, In(e, v), In(e, w),
                 e[v].position = e[w].position, e[v].number = e[w].number
          PROVE  v = w
      BY <2>3, <2>4, <2>5
    <2> QED
      BY <2>1, <2>2, <2>5 DEF Counted
  <1>9. OneCopy(e, l)
    <2> SUFFICES ASSUME NEW v \in Versions
                 PROVE  IF In(e, v) THEN \E x : l[v] = {x} ELSE l[v] = {}
      BY <1>2 DEF OneCopy
    <2>1. CASE t.inserted /\ t.version = v
      <3>1. l[v] = {t.copy}
        BY <1>1, <1>2, <2>1
      <3> QED
        BY <1>1, <2>1, <3>1
    <2>2. CASE ~(t.inserted /\ t.version = v)
      <3>1. l[v] = criteria[v] /\ e[v] = db[v]
        BY <1>1, <1>2, <2>2
      <3> QED
        BY <3>1 DEF Numbering, OneCopy, In
    <2> QED
      BY <2>1, <2>2
  <1>10. ASSUME NEW q \in Requests \ {r}
         PROVE  Works(e, l, open[q])
    <2>1. Works(db, criteria, open[q]) /\ NoClash(db, t, open[q])
      BY DEF Numbering, t
    <2>2. ASSUME NEW w \in Versions, In(e, w), ~In(db, w)
          PROVE  ~MadeVersion(open[q], w)
      <3>1. MadeVersion(t, w)
        BY <1>1, <1>6, <2>2
      <3>2. w \in Places /\ w[1] = "version" /\ <<"create_version", "version">> \in Makes
            /\ "create_version" \in Operations
        BY Tables DEF Makes, Operations
      <3>3. Fresh(t, w)
        BY <3>1, <3>2 DEF Fresh, MadeVersion
      <3>4. ~Fresh(open[q], w)
        BY <3>2, <3>3 DEF IInv, IdsAreApart, t
      <3> QED
        BY <3>2, <3>4 DEF Fresh, MadeVersion
    <2>3. ASSUME NEW w \in DOMAIN open[q].dirty \cap Versions, ~In(db, w),
                 open[q].dirty[w].number \in Numbers(e, open[q].dirty[w].position)
          PROVE  open[q].dirty[w].number \in Numbers(db, open[q].dirty[w].position)
      BY <1>7, <2>1, <2>3 DEF NoClash
    <2>4. ASSUME NEW w \in Versions, open[q].inserted, open[q].version = w
          PROVE  l[w] = criteria[w]
      BY <1>2, <2>1, <2>4 DEF NoClash
    <2> QED
      BY <1>5, <2>1, <2>2, <2>3, <2>4, OthersGoOn
  <1>11. \A p, q \in Requests : p # q => NoClash(db, open[p], open[q]) /\ NoClash(e, open[p], open[q])
    BY <1>5 DEF Numbering, NoClash, Kept
  <1>12. open'[r] = Rest /\ \A q \in Requests \ {r} : open'[q] = open[q]
    BY <1>3 DEF IInv, Shapes
  <1>13. \A q \in Requests : Works(e, l, open'[q])
    BY <1>10, <1>12, RestWorks
  <1>14. \A p, q \in Requests : p # q => NoClash(e, open'[p], open'[q])
    BY <1>11, <1>12, RestWorks, ClashIsMutual
  <1> QED
    BY <1>8, <1>9, <1>13, <1>14 DEF Numbering, e, l

-----------------------------------------------------------------------------
(* The numbering is kept *)

LEMMA InitCounts == Init => Numbering
  <1> SUFFICES ASSUME Init PROVE Numbering
    OBVIOUS
  <1>1. \A v \in Versions : ~In(db, v) /\ criteria[v] = {}
    BY DEF Init, In, NoColumns, Places
  <1>2. \A p : Numbers(db, p) = {}
    BY <1>1 DEF Numbers
  <1>3. Counted(db)
    <2>1. 0 \in Nat /\ 1..0 = {}
      OBVIOUS
    <2> QED
      BY <1>1, <1>2, <2>1 DEF Counted
  <1>4. OneCopy(db, criteria)
    BY <1>1 DEF OneCopy, Init
  <1>5. \A r \in Requests : open[r] = Rest
    BY DEF Init
  <1> QED
    BY <1>3, <1>4, <1>5, RestWorks DEF Numbering

LEMMA NextCounts == IInv /\ Numbering /\ [Next]_vars => Numbering'
  <1> SUFFICES ASSUME IInv, Numbering, [Next]_vars PROVE Numbering'
    OBVIOUS
  <1>1. ASSUME NEW r \in Requests, CreateVersion(r) \/ PublishVersion(r) PROVE Numbering'
    BY <1>1, CreateVersionCounts, PublishVersionCounts
  <1>2. ASSUME NEW r \in Requests, CreateCampaign(r) \/ PublishCampaign(r) PROVE Numbering'
    BY <1>2, CreateCampaignCounts, PublishCampaignCounts
  <1>3. ASSUME NEW r \in Requests, IssueInvitations(r) PROVE Numbering'
    BY <1>3, IssueInvitationsCounts
  <1>4. ASSUME NEW r \in Requests, ExchangeToken(r) PROVE Numbering'
    BY <1>4, ExchangeTokenCounts
  <1>5. ASSUME NEW r \in Requests, VerifyIdentity(r) \/ RecordConsent(r) PROVE Numbering'
    BY <1>5, ApplicantsCount
  <1>6. ASSUME NEW r \in Requests, Load(r) PROVE Numbering'
    BY <1>6, LoadCounts
  <1>7. ASSUME NEW r \in Requests, Flush(r) PROVE Numbering'
    BY <1>7, FlushCounts
  <1>8. ASSUME NEW r \in Requests, Commit(r) PROVE Numbering'
    BY <1>8, CommitCounts
  <1>9. ASSUME NEW r \in Requests, RollBack(r) PROVE Numbering'
    BY <1>9, RollBackCounts
  <1>10. CASE UNCHANGED vars
    BY <1>10 DEF vars, Numbering
  <1> QED
    BY <1>1, <1>2, <1>3, <1>4, <1>5, <1>6, <1>7, <1>8, <1>9, <1>10 DEF Next

LEMMA NumberingHolds == Spec => []Numbering
  <1>1. IInv /\ Numbering /\ [Next]_vars => (IInv /\ Numbering)'
    BY NextKeeps, NextCounts
  <1> QED
    BY <1>1, InitEstablishes, InitCounts, PTL DEF Spec

\* A committed version has its criteria exactly once, and one that is not committed
\* has none: publishing deletes every copy and inserts one, and of two requests that
\* do so at once the second waits for the first or collides with it.
THEOREM CriteriaAreWhole == Spec => []CriteriaStayWhole
  <1>1. ASSUME Numbering, NEW v \in Versions
        PROVE  Cardinality(criteria[v]) = IF v \in Stored(Versions) THEN 1 ELSE 0
    <2>1. IF In(db, v) THEN \E x : criteria[v] = {x} ELSE criteria[v] = {}
      BY <1>1 DEF Numbering, OneCopy
    <2>2. v \in Stored(Versions) <=> In(db, v)
      BY DEF Stored, In
    <2> QED
      BY <2>1, <2>2, FS_Singleton, FS_EmptySet
  <1>2. Numbering => CriteriaStayWhole
    BY <1>1 DEF CriteriaStayWhole
  <1> QED
    BY <1>2, NumberingHolds, PTL

\* The versions of a position are numbered 1, 2, ... without a gap or a repetition,
\* however many requests count at the same time and fail.
THEOREM NumbersAreDense == Spec => []VersionNumbersDense
  <1>1. ASSUME Numbering, NEW p \in Positions
        PROVE  LET own == {v \in Stored(Versions) : db[v].position = p}
               IN  NumbersOf(p) = 1..Cardinality(own)
    <2> DEFINE own == {v \in Stored(Versions) : db[v].position = p}
    <2>1. own = {v \in Versions : In(db, v) /\ db[v].position = p}
      BY DEF Stored, In
    <2>2. PICK n \in Nat : Numbers(db, p) = 1..n
      BY <1>1 DEF Numbering, Counted
    <2>3. NumbersOf(p) = 1..n
      BY <2>2 DEF NumbersOf, Numbers, Stored, In
    <2>4. \A k \in 1..n : \E v \in own : db[v].number = k
      BY <2>1, <2>2 DEF Numbers
    <2>5. \A v \in own : db[v].number \in 1..n
      BY <2>1, <2>2 DEF Numbers
    <2>6. \A v, w \in own : db[v].number = db[w].number => v = w
      BY <1>1, <2>1 DEF Numbering, Counted
    <2> HIDE DEF own
    <2> DEFINE at == [k \in 1..n |-> CHOOSE v \in own : db[v].number = k]
    <2>7. \A k \in 1..n : at[k] \in own /\ db[at[k]].number = k
      BY <2>4
    <2>8. at \in [1..n -> own]
      BY <2>7
    <2> HIDE DEF at
    <2>9. ASSUME NEW j \in 1..n, NEW k \in 1..n, at[j] = at[k]
          PROVE  j = k
      BY <2>7, <2>9
    <2>10. \A v \in own : \E k \in 1..n : at[k] = v
      BY <2>5, <2>6, <2>7
    <2>11. at \in Bijection(1..n, own)
      BY <2>8, <2>9, <2>10 DEF Bijection, Injection, Surjection, IsInjective
    <2>12. Cardinality(own) = n
      BY <2>2, <2>11, FS_CountingElements DEF ExistsBijection
    <2> QED
      BY <2>3, <2>12 DEF own
  <1>2. Numbering => VersionNumbersDense
    BY <1>1 DEF VersionNumbersDense
  <1> QED
    BY <1>2, NumberingHolds, PTL

=============================================================================
