-------------------------- MODULE RecordingUpload_proofs --------------------------
(***************************************************************************)
(* Theorems about RecordingUpload.                                          *)
(***************************************************************************)
EXTENDS RecordingUpload, WellFoundedInduction, FiniteSetTheorems, SequenceTheorems, TLAPS

-----------------------------------------------------------------------------
(* Types *)

Chunks == [content : Nat, start : Nat, end : Nat]

\* What maps finitely many sequences to chunks: the database, and a recorder's memory.
ChunkMaps == UNION {[S -> Chunks] : S \in {S \in SUBSET Nat : IsFiniteSet(S)}}

Recorders == [phase : {"retrying", "recording", "unavailable"}, sequence : Nat, start : Nat,
              memory : ChunkMaps]

\* A chunk that is to be retried.
Pieces == [sequence : Nat, chunk : Chunks]

Steps == {"idle", "hash", "intent", "put", "remove"}

Chains == [kind : {"none", "chunk", "first", "open"}, step : Steps, of : Nat, sequence : Nat,
           chunk : Chunks, rest : Seq(Pieces), stored : BOOLEAN]

Rows == [chunk : Chunks, status : {"issued", "verified"}]

\* What a chain of each kind may be doing.
ChainSound(t) ==
    /\ t.step = "idle" <=> t.kind = "none"
    /\ t.step # "idle" => t.of \in DOMAIN recorder
    /\ t.step = "hash" => t.kind = "chunk"
    /\ t.kind = "chunk" => t.rest = <<>>
    /\ t.kind = "none" => t = Idle

TypeOK ==
    /\ page \in [now : Nat, uploaded : Nat, opened : BOOLEAN]
    /\ recorder \in Seq(Recorders)
    /\ database \in ChunkMaps
    /\ upload \in [Uploads -> Chains]
    /\ \A u \in Uploads : ChainSound(upload[u])
    /\ rows \in Seq(Rows)
    /\ objects \subseteq Nat
    /\ captured \in Nat /\ started \in Nat /\ failures \in Nat
    /\ overlapped \in BOOLEAN

-----------------------------------------------------------------------------
(* ChunkMaps *)

LEMMA BufferIs ==
    ASSUME NEW b \in ChunkMaps
    PROVE  /\ DOMAIN b \subseteq Nat /\ IsFiniteSet(DOMAIN b)
           /\ b = [n \in DOMAIN b |-> b[n]]
           /\ \A n \in DOMAIN b : b[n] \in Chunks
  BY DEF ChunkMaps

LEMMA IsBuffer ==
    ASSUME NEW S \in SUBSET Nat, IsFiniteSet(S), NEW b \in [S -> Chunks]
    PROVE  b \in ChunkMaps
  BY DEF ChunkMaps

LEMMA EmptyBuffer == <<>> \in ChunkMaps /\ DOMAIN <<>> = {}
  <1>1. <<>> = [n \in {} |-> Chunk(0, 0, 0)] /\ DOMAIN <<>> = {}
    OBVIOUS
  <1>2. <<>> \in [{} -> Chunks]
    BY <1>1
  <1> QED
    BY <1>1, <1>2, IsBuffer, FS_EmptySet

\* A chunk is put under a sequence, or what is there is dropped.
LEMMA WithIs ==
    ASSUME NEW b \in ChunkMaps, NEW n \in Nat, NEW c \in Chunks
    PROVE  /\ With(b, n, c) \in ChunkMaps
           /\ DOMAIN With(b, n, c) = DOMAIN b \cup {n}
           /\ With(b, n, c)[n] = c
           /\ \A k \in DOMAIN b : k # n => With(b, n, c)[k] = b[k]
  <1>1. IsFiniteSet(DOMAIN b \cup {n}) /\ DOMAIN b \cup {n} \subseteq Nat
    BY BufferIs, FS_AddElement
  <1>2. With(b, n, c) \in [DOMAIN b \cup {n} -> Chunks]
    BY BufferIs DEF With
  <1> QED
    BY <1>1, <1>2, IsBuffer DEF With

LEMMA WithoutIs ==
    ASSUME NEW b \in ChunkMaps, NEW n \in Nat
    PROVE  /\ Without(b, n) \in ChunkMaps
           /\ DOMAIN Without(b, n) = DOMAIN b \ {n}
           /\ \A k \in DOMAIN b : k # n => Without(b, n)[k] = b[k]
  <1>1. IsFiniteSet(DOMAIN b \ {n}) /\ DOMAIN b \ {n} \subseteq Nat
    BY BufferIs, FS_RemoveElement
  <1>2. Without(b, n) \in [DOMAIN b \ {n} -> Chunks]
    BY BufferIs DEF Without
  <1> QED
    BY <1>1, <1>2, IsBuffer DEF Without

\* pending() gives what the database has, and what only the memory has.
LEMMA LoadedIs ==
    ASSUME NEW memory \in ChunkMaps, database \in ChunkMaps
    PROVE  /\ Loaded(memory) \in ChunkMaps
           /\ DOMAIN Loaded(memory) = DOMAIN memory \cup DOMAIN database
           /\ \A k \in DOMAIN database : Loaded(memory)[k] = database[k]
           /\ \A k \in DOMAIN memory \ DOMAIN database : Loaded(memory)[k] = memory[k]
  <1>1. /\ IsFiniteSet(DOMAIN memory \cup DOMAIN database)
        /\ DOMAIN memory \cup DOMAIN database \subseteq Nat
    BY BufferIs, FS_Union
  <1>2. Loaded(memory) \in [DOMAIN memory \cup DOMAIN database -> Chunks]
    BY BufferIs DEF Loaded
  <1> QED
    BY <1>1, <1>2, IsBuffer DEF Loaded

-----------------------------------------------------------------------------
(* The order of what is retried *)

Increasing(S) ==
    {order \in [1..Cardinality(S) -> S] :
        \A i, j \in DOMAIN order : i < j => order[i] < order[j]}

\* A set without its least number is put in order, and that number before it.
LEMMA LeastFirst ==
    ASSUME NEW S \in SUBSET Nat, IsFiniteSet(S), NEW n \in S, \A k \in S : n <= k,
           Increasing(S \ {n}) # {}
    PROVE  Increasing(S) # {}
  <1>1. PICK order \in Increasing(S \ {n}) : TRUE
    OBVIOUS
  <1> DEFINE all == [i \in 1..Cardinality(S) |-> IF i = 1 THEN n ELSE order[i - 1]]
  <1>2. Cardinality(S) \in Nat /\ Cardinality(S \ {n}) = Cardinality(S) - 1
    BY FS_CardinalityType, FS_RemoveElement
  <1>3. /\ order \in [1..(Cardinality(S) - 1) -> S \ {n}]
        /\ \A i, j \in 1..(Cardinality(S) - 1) : i < j => order[i] < order[j]
    BY <1>1, <1>2 DEF Increasing
  <1>4. ASSUME NEW i \in 1..Cardinality(S), i # 1
        PROVE  i - 1 \in 1..(Cardinality(S) - 1) /\ all[i] = order[i - 1]
    BY <1>2, <1>4
  <1>5. ASSUME NEW i \in 1..Cardinality(S)
        PROVE  all[i] \in S
    BY <1>3, <1>4, <1>5
  <1>6. ASSUME NEW i \in 1..Cardinality(S), NEW j \in 1..Cardinality(S), i < j
        PROVE  all[i] < all[j]
    <2>1. j # 1 /\ all[j] = order[j - 1] /\ order[j - 1] \in S \ {n}
      BY <1>2, <1>3, <1>4, <1>6
    <2>2. CASE i = 1
      <3>1. all[i] = n
        BY <2>2
      <3>2. n \in Nat /\ order[j - 1] \in Nat /\ n # order[j - 1] /\ n <= order[j - 1]
        BY <2>1
      <3> QED
        BY <2>1, <3>1, <3>2
    <2>3. CASE i # 1
      <3>1. i - 1 < j - 1 /\ i - 1 \in 1..(Cardinality(S) - 1) /\ j - 1 \in 1..(Cardinality(S) - 1)
        BY <1>2, <1>4, <1>6, <2>1, <2>3
      <3> QED
        BY <1>3, <1>4, <2>1, <2>3, <3>1
    <2> QED
      BY <2>2, <2>3
  <1>7. all \in [1..Cardinality(S) -> S]
    BY <1>5
  <1> HIDE DEF all
  <1>8. all \in Increasing(S)
    BY <1>6, <1>7 DEF Increasing
  <1> QED
    BY <1>8

\* Every finite set of sequences can be put in order.
LEMMA CanOrder ==
    ASSUME NEW S \in SUBSET Nat, IsFiniteSet(S)
    PROVE  Increasing(S) # {}
  <1> DEFINE Bad == {T \in FiniteSubsetsOf(S) : Increasing(T) = {}}
  <1>1. SUFFICES ASSUME Bad # {} PROVE FALSE
    BY DEF FiniteSubsetsOf
  <1>2. Bad \subseteq FiniteSubsetsOf(S)
    OBVIOUS
  <1> HIDE DEF Bad
  <1>3. PICK T \in Bad : \A U \in Bad : ~(<<U, T>> \in StrictSubsetOrdering(S))
    BY <1>1, <1>2, FS_StrictSubsetOrderingWellFounded, WFMin
  <1>4. T \subseteq Nat /\ T \subseteq S /\ IsFiniteSet(T) /\ Increasing(T) = {}
    BY <1>3 DEF Bad, FiniteSubsetsOf
  <1>5. CASE T = {}
    <2>1. Cardinality(T) = 0
      BY <1>5, FS_EmptySet
    <2>2. <<>> \in Increasing(T)
      BY <2>1 DEF Increasing
    <2> QED
      BY <1>4, <2>2
  <1>6. CASE T # {}
    <2>1. PICK n \in T : \A k \in T : ~(<<k, n>> \in OpToRel(<, Nat))
      BY <1>4, <1>6, NatLessThanWellFounded, WFMin
    <2>2. ASSUME NEW k \in T
          PROVE  n <= k
      <3>1. n \in Nat /\ k \in Nat
        BY <1>4
      <3>2. ~(k < n)
        BY <2>1, <3>1 DEF OpToRel
      <3> QED
        BY <3>1, <3>2
    <2>3. IsFiniteSet(T \ {n})
      BY <1>4, FS_RemoveElement
    <2>4. T \ {n} \in FiniteSubsetsOf(S) /\ <<T \ {n}, T>> \in StrictSubsetOrdering(S)
      BY <1>4, <2>3 DEF FiniteSubsetsOf, StrictSubsetOrdering
    <2>5. Increasing(T \ {n}) # {}
      BY <1>3, <2>4 DEF Bad
    <2> QED
      BY <1>4, <2>2, <2>5, LeastFirst
  <1> QED
    BY <1>5, <1>6

\* Ordered lists a set from its least number, and leaves none out.
LEMMA OrderedIs ==
    ASSUME NEW S \in SUBSET Nat, IsFiniteSet(S)
    PROVE  /\ Ordered(S) \in Seq(S)
           /\ \A i, j \in DOMAIN Ordered(S) : i < j => Ordered(S)[i] < Ordered(S)[j]
           /\ \A n \in S : \E i \in DOMAIN Ordered(S) : Ordered(S)[i] = n
  <1>1. Ordered(S) \in Increasing(S)
    BY CanOrder DEF Ordered, Increasing
  <1> DEFINE order == Ordered(S)
             size == Cardinality(S)
  <1> HIDE DEF order
  <1>2. size \in Nat
    BY FS_CardinalityType
  <1>3. order \in [1..size -> S] /\ \A i, j \in 1..size : i < j => order[i] < order[j]
    BY <1>1 DEF Increasing, order
  <1>4. order \in Seq(S)
    BY <1>2, <1>3
  <1>5. ASSUME NEW i \in 1..size, NEW j \in 1..size, order[i] = order[j]
        PROVE  i = j
    <2>1. order[i] \in Nat
      BY <1>3
    <2>2. ~(i < j) /\ ~(j < i)
      BY <1>3, <1>5, <2>1
    <2> QED
      BY <1>2, <2>2
  <1>6. order \in Injection(1..size, S)
    BY <1>3, <1>5 DEF Injection, IsInjective
  <1>7. Cardinality(1..size) = size
    BY <1>2, FS_Interval
  <1>8. order \in Surjection(1..size, S)
    BY <1>6, <1>7, FS_Injection
  <1> QED
    BY <1>3, <1>4, <1>8 DEF Surjection, order

\* What is listed of a buffer are its chunks.
LEMMA ListedIs ==
    ASSUME NEW memory \in ChunkMaps
    PROVE  /\ Listed(memory) \in Seq(Pieces)
           /\ \A k \in DOMAIN Listed(memory) :
                 /\ Listed(memory)[k].sequence \in DOMAIN memory
                 /\ Listed(memory)[k].chunk = memory[Listed(memory)[k].sequence]
           /\ \A n \in DOMAIN memory :
                 \E k \in DOMAIN Listed(memory) : Listed(memory)[k].sequence = n
  <1> DEFINE order == Ordered(DOMAIN memory)
             list == Listed(memory)
  <1>1. /\ order \in Seq(DOMAIN memory)
        /\ \A n \in DOMAIN memory : \E i \in DOMAIN order : order[i] = n
    BY BufferIs, OrderedIs
  <1>2. list = [k \in DOMAIN order |-> [sequence |-> order[k], chunk |-> memory[order[k]]]]
    BY DEF Listed
  <1> HIDE DEF order, list
  <1>3. Len(order) \in Nat /\ DOMAIN order = 1..Len(order)
        /\ \A k \in DOMAIN order : order[k] \in DOMAIN memory
    BY <1>1
  <1>4. \A k \in DOMAIN order : [sequence |-> order[k], chunk |-> memory[order[k]]] \in Pieces
    BY <1>3, BufferIs DEF Pieces
  <1>5. list \in Seq(Pieces)
    BY <1>2, <1>3, <1>4
  <1> QED
    BY <1>1, <1>2, <1>3, <1>5 DEF list

-----------------------------------------------------------------------------
(* Type correctness *)

LEMMA IdleChain == Idle \in Chains /\ Idle.step = "idle" /\ Idle.kind = "none" /\ Idle.rest = <<>>
  <1>1. Chunk(0, 0, 0) \in Chunks
    BY DEF Chunk, Chunks
  <1>2. <<>> \in Seq(Pieces)
    OBVIOUS
  <1> QED
    BY <1>1, <1>2 DEF Idle, Chains, Steps

\* A retry that has chunks left starts with the first of them; one without is idle.
LEMMA RetryingIs ==
    ASSUME NEW kind, NEW r, NEW chunks \in Seq(Pieces), chunks # <<>>
    PROVE  /\ Retrying(kind, r, chunks).kind = kind
           /\ Retrying(kind, r, chunks).step = "intent"
           /\ Retrying(kind, r, chunks).of = r
           /\ Retrying(kind, r, chunks).sequence = chunks[1].sequence
           /\ Retrying(kind, r, chunks).chunk = chunks[1].chunk
           /\ Retrying(kind, r, chunks).rest = Tail(chunks)
  <1>1. Head(chunks) = chunks[1]
    OBVIOUS
  <1>2. Retrying(kind, r, chunks) =
          [Idle EXCEPT !.kind = kind, !.step = "intent", !.of = r,
                       !.sequence = chunks[1].sequence, !.chunk = chunks[1].chunk,
                       !.rest = Tail(chunks)]
    BY <1>1 DEF Retrying
  <1> QED
    BY <1>2 DEF Idle

LEMMA RetryingNothing ==
    ASSUME NEW kind, NEW r
    PROVE  Retrying(kind, r, <<>>) = Idle
  BY DEF Retrying

LEMMA RetryingChain ==
    ASSUME NEW kind \in {"first", "open"}, NEW r \in Nat, NEW chunks \in Seq(Pieces)
    PROVE  Retrying(kind, r, chunks) \in Chains
  <1>1. CASE chunks = <<>>
    BY <1>1, RetryingNothing, IdleChain
  <1>2. CASE chunks # <<>>
    <2>1. Head(chunks) = chunks[1] /\ chunks[1] \in Pieces /\ Tail(chunks) \in Seq(Pieces)
      BY <1>2
    <2>2. chunks[1].sequence \in Nat /\ chunks[1].chunk \in Chunks
      BY <2>1 DEF Pieces
    <2>3. Retrying(kind, r, chunks) =
            [Idle EXCEPT !.kind = kind, !.step = "intent", !.of = r,
                         !.sequence = chunks[1].sequence, !.chunk = chunks[1].chunk,
                         !.rest = Tail(chunks)]
      BY <1>2, <2>1 DEF Retrying
    <2> QED
      BY <2>1, <2>2, <2>3 DEF Chains, Steps, Idle
  <1> QED
    BY <1>1, <1>2

LEMMA RecorderIs ==
    ASSUME NEW r \in Recorders
    PROVE  /\ r.memory \in ChunkMaps /\ r.sequence \in Nat /\ r.start \in Nat
           /\ \A b \in ChunkMaps : [r EXCEPT !.memory = b] \in Recorders
           /\ [r EXCEPT !.phase = "unavailable"] \in Recorders
  BY DEF Recorders

LEMMA NewRecorderIs ==
    ASSUME NEW memory \in ChunkMaps, NEW now \in Nat
    PROVE  /\ [NewRecorder EXCEPT !.memory = memory] \in Recorders
           /\ [[NewRecorder EXCEPT !.memory = memory] EXCEPT !.phase = "recording", !.start = now]
                \in Recorders
           /\ [NewRecorder EXCEPT !.phase = "unavailable"] \in Recorders
  BY EmptyBuffer DEF NewRecorder, Recorders

LEMMA VerifiedIsFinite ==
    ASSUME rows \in Seq(Rows)
    PROVE  Cardinality(Verified) \in Nat
  <1>1. DOMAIN rows = 1..Len(rows) /\ Len(rows) \in Nat
    OBVIOUS
  <1>2. IsFiniteSet(1..Len(rows)) /\ Verified \subseteq 1..Len(rows)
    BY <1>1, FS_Interval DEF Verified
  <1>3. IsFiniteSet(Verified)
    BY <1>2, FS_Subset
  <1> QED
    BY <1>3, FS_CardinalityType

\* What a recorder that is made finds, and what its first retry takes.
LEMMA StartIs ==
    ASSUME TypeOK, NEW u \in Uploads, NEW earlier \in Seq(Recorders),
           NEW p \in [now : Nat, uploaded : Nat, opened : BOOLEAN], StartRecorder(u, earlier, p)
    PROVE  LET new == recorder'[Len(earlier) + 1]
           IN  /\ page' = p
               /\ started' \in Nat
               /\ overlapped' \in BOOLEAN
               /\ new \in Recorders
               /\ recorder' = Append(earlier, new)
               /\ \/ /\ new.phase = "recording" /\ database = <<>>
                     /\ upload'[u] = Idle
                  \/ /\ new.phase = "retrying"
                     /\ upload'[u] \in Chains
                     /\ upload'[u] = Retrying("first", Len(earlier) + 1, Listed(database))
                     /\ Listed(database) # <<>>
                  \/ /\ new.phase = "unavailable"
                     /\ upload'[u] = IF earlier = <<>> THEN Idle ELSE upload[u]
               /\ new.phase # "unavailable" => new.memory = database /\ new.sequence = 0
               /\ new.phase = "unavailable" => new.memory = <<>>
               /\ DOMAIN upload' = Uploads
               /\ upload' = [v \in Uploads |-> upload'[v]]
               /\ \A v \in Uploads \ {u} :
                     upload'[v] = IF earlier = <<>> THEN Idle ELSE upload[v]
  <1> DEFINE memory == Loaded(<<>>)
             made == [NewRecorder EXCEPT !.memory = memory]
             n == Len(earlier) + 1
  <1>1. memory = database
    <2>1. database \in ChunkMaps
      BY DEF TypeOK
    <2>2. DOMAIN Loaded(<<>>) = DOMAIN database
      BY EmptyBuffer DEF Loaded
    <2>3. Loaded(<<>>) = [k \in DOMAIN database |-> database[k]]
      BY EmptyBuffer DEF Loaded
    <2> QED
      BY <2>1, <2>3, BufferIs
  <1> HIDE DEF memory
  <1>2. database \in ChunkMaps /\ Listed(database) \in Seq(Pieces) /\ n \in Nat
    BY ListedIs DEF TypeOK
  <1>3. (database = <<>>) <=> (Listed(database) = <<>>)
    <2>1. CASE database = <<>>
      <3>1. DOMAIN Listed(database) = {}
        BY <1>2, <2>1, ListedIs, EmptyBuffer
      <3> QED
        BY <1>2, <2>1, <3>1
    <2>2. CASE database # <<>>
      <3>1. DOMAIN database # {}
        BY <1>2, <2>2, BufferIs, EmptyBuffer
      <3>2. DOMAIN Listed(database) # {}
        BY <1>2, <3>1, ListedIs
      <3> QED
        BY <2>2, <3>2, EmptyBuffer
    <2> QED
      BY <2>1, <2>2
  <1>4. \A r \in Recorders : Append(earlier, r)[n] = r
    OBVIOUS
  <1>5. /\ page' = p /\ started' \in Nat /\ overlapped' \in BOOLEAN
    BY DEF StartRecorder, TypeOK
  <1>6. made.memory = database /\ made.sequence = 0 /\ made.phase = "retrying"
    BY <1>1 DEF NewRecorder
  <1>7. /\ Retrying("first", n, Listed(database)) \in Chains
        /\ Listed(database) = <<>> => Retrying("first", n, Listed(database)) = Idle
    BY <1>2, RetryingChain, RetryingNothing
  <1>8. /\ made \in Recorders /\ [made EXCEPT !.phase = "recording", !.start = p.now] \in Recorders
        /\ [NewRecorder EXCEPT !.phase = "unavailable"] \in Recorders
    BY <1>1, <1>2, NewRecorderIs
  <1> DEFINE recording == [made EXCEPT !.phase = "recording", !.start = p.now]
             unavailable == [NewRecorder EXCEPT !.phase = "unavailable"]
  <1>9. /\ recording.phase = "recording" /\ recording.memory = database /\ recording.sequence = 0
        /\ unavailable.phase = "unavailable" /\ unavailable.memory = <<>>
    BY <1>1 DEF NewRecorder
  <1>10. \/ /\ recorder' = Append(earlier, IF memory = <<>> THEN recording ELSE made)
           /\ upload' = [v \in Uploads |->
                    IF v = u THEN Retrying("first", n, Listed(memory))
                    ELSE IF earlier = <<>> THEN Idle ELSE upload[v]]
        \/ /\ recorder' = Append(earlier, unavailable)
           /\ upload' = [v \in Uploads |-> IF earlier = <<>> THEN Idle ELSE upload[v]]
    BY DEF StartRecorder, memory
  <1> HIDE DEF made, recording, unavailable
  <1>11. CASE /\ recorder' = Append(earlier, IF memory = <<>> THEN recording ELSE made)
              /\ upload' = [v \in Uploads |->
                    IF v = u THEN Retrying("first", n, Listed(memory))
                    ELSE IF earlier = <<>> THEN Idle ELSE upload[v]]
    <2>1. CASE database = <<>>
      <3>1. recorder' = Append(earlier, recording) /\ recorder'[n] = recording
        BY <1>1, <1>4, <1>8, <1>11, <2>1 DEF recording
      <3>2. upload'[u] = Idle
        <4>1. upload'[u] = Retrying("first", n, Listed(database))
          BY <1>1, <1>11
        <4>2. Listed(database) = <<>>
          BY <1>3, <2>1
        <4> QED
          BY <1>7, <4>1, <4>2
      <3> QED
        BY <1>5, <1>8, <1>9, <1>11, <2>1, <3>1, <3>2 DEF recording
    <2>2. CASE database # <<>>
      <3>1. recorder' = Append(earlier, made) /\ recorder'[n] = made
        BY <1>1, <1>4, <1>8, <1>11, <2>2
      <3>2. upload'[u] = Retrying("first", n, Listed(database))
        BY <1>1, <1>11
      <3>3. upload'[u] \in Chains
        BY <1>7, <3>2
      <3> QED
        BY <1>3, <1>5, <1>6, <1>8, <1>11, <2>2, <3>1, <3>2, <3>3
    <2> QED
      BY <2>1, <2>2
  <1>12. CASE /\ recorder' = Append(earlier, unavailable)
              /\ upload' = [v \in Uploads |-> IF earlier = <<>> THEN Idle ELSE upload[v]]
    <2>1. recorder'[n] = unavailable
      BY <1>4, <1>8, <1>12 DEF unavailable
    <2> QED
      BY <1>5, <1>8, <1>9, <1>12, <2>1 DEF unavailable
  <1> QED
    BY <1>10, <1>11, <1>12

\* The type of what a step changes, from the type of its parts.
LEMMA ChainsAre ==
    ASSUME TypeOK, NEW u \in Uploads
    PROVE  /\ upload[u] \in Chains /\ ChainSound(upload[u])
           /\ upload[u].sequence \in Nat /\ upload[u].chunk \in Chunks /\ upload[u].rest \in Seq(Pieces)
           /\ upload[u].kind # "none" =>
                 /\ upload[u].of \in DOMAIN recorder
                 /\ recorder[upload[u].of] \in Recorders
  <1>1. upload[u] \in Chains /\ ChainSound(upload[u]) /\ recorder \in Seq(Recorders)
    BY DEF TypeOK
  <1> QED
    BY <1>1 DEF Chains, ChainSound

LEMMA MemoriesAre ==
    ASSUME TypeOK
    PROVE  /\ database \in ChunkMaps
           /\ \A k \in DOMAIN recorder :
                 /\ recorder[k] \in Recorders
                 /\ recorder[k].memory \in ChunkMaps /\ recorder[k].sequence \in Nat
  <1>1. \A k \in DOMAIN recorder : recorder[k] \in Recorders
    BY DEF TypeOK
  <1>2. database \in ChunkMaps
    BY DEF TypeOK
  <1>3. \A r \in Recorders : r.memory \in ChunkMaps /\ r.sequence \in Nat
    BY DEF Recorders
  <1> QED
    BY <1>1, <1>2, <1>3

LEMMA WaitDoes ==
    ASSUME TypeOK, Wait
    PROVE  /\ TypeOK'
           /\ page'.now = page.now + 1 /\ page'.uploaded = page.uploaded
           /\ UNCHANGED <<recorder, database, upload, rows, objects, captured, dropped, overlapped>>
  BY DEF Wait, TypeOK, ChainSound, server, ghosts

LEMMA CaptureDoes ==
    ASSUME TypeOK, NEW u \in Uploads, NEW r \in DOMAIN recorder, Capture(u, r)
    PROVE  LET t == upload'[u]
           IN  /\ TypeOK'
               /\ recorder[r].phase = "recording" /\ upload[u] = Idle
               /\ page'.now = page.now + 1 /\ captured' = captured + 1
               /\ overlapped' = (overlapped \/ Hashing(r) # {})
               /\ t.kind = "chunk" /\ t.step = "hash" /\ t.of = r /\ t.rest = <<>>
               /\ t.sequence = recorder[r].sequence + 1
               /\ t.chunk = Chunk(captured + 1, 0, page.now + 1)
               /\ \A v \in Uploads \ {u} : upload'[v] = upload[v]
               /\ UNCHANGED <<recorder, database, rows, objects, dropped>>
  <1> DEFINE t == [Idle EXCEPT !.kind = "chunk", !.step = "hash", !.of = r,
                       !.sequence = recorder[r].sequence + 1,
                       !.chunk = Chunk(captured + 1, 0, page.now + 1)]
  <1>1. recorder[r] \in Recorders /\ r \in Nat /\ page.now \in Nat /\ captured \in Nat
    BY DEF TypeOK
  <1>2. Chunk(captured + 1, 0, page.now + 1) \in Chunks /\ recorder[r].sequence + 1 \in Nat
    BY <1>1 DEF Chunk, Chunks, Recorders
  <1>3. /\ t \in Chains
        /\ t.kind = "chunk" /\ t.step = "hash" /\ t.of = r /\ t.rest = <<>>
        /\ t.sequence = recorder[r].sequence + 1 /\ t.chunk = Chunk(captured + 1, 0, page.now + 1)
    BY <1>1, <1>2, IdleChain DEF Chains, Idle, Steps
  <1>4. upload' = [upload EXCEPT ![u] = t]
    BY DEF Capture
  <1> HIDE DEF t
  <1>5. /\ upload'[u] = t /\ upload' \in [Uploads -> Chains]
        /\ \A v \in Uploads \ {u} : upload'[v] = upload[v]
    BY <1>3, <1>4 DEF TypeOK
  <1>6. ChainSound(t)
    BY <1>3 DEF ChainSound
  <1>7. UNCHANGED <<recorder, database, rows, objects, started, dropped, failures>>
    BY DEF Capture, server
  <1>8. \A v \in Uploads : ChainSound(upload[v])'
    BY <1>5, <1>6, <1>7 DEF ChainSound, TypeOK
  <1>9. /\ page' = [page EXCEPT !.now = @ + 1] /\ captured' = captured + 1
        /\ overlapped' = (overlapped \/ Hashing(r) # {})
        /\ recorder[r].phase = "recording" /\ upload[u] = Idle
    BY DEF Capture
  <1>10. page' \in [now : Nat, uploaded : Nat, opened : BOOLEAN] /\ page'.now = page.now + 1
    BY <1>9 DEF TypeOK
  <1>11. TypeOK'
    BY <1>5, <1>7, <1>8, <1>9, <1>10 DEF TypeOK
  <1> QED
    BY <1>3, <1>5, <1>7, <1>9, <1>10, <1>11

LEMMA HashedDoes ==
    ASSUME TypeOK, NEW u \in Uploads, Hashed(u)
    PROVE  LET t == upload[u]
               n == t.sequence
               r == t.of
               chunk == [t.chunk EXCEPT !.start = recorder[r].start]
           IN  /\ TypeOK'
               /\ t.step = "hash" /\ t.kind = "chunk" /\ t.rest = <<>>
               /\ upload'[u].kind = t.kind /\ upload'[u].step = "intent" /\ upload'[u].of = r
               /\ upload'[u].sequence = n /\ upload'[u].rest = <<>> /\ upload'[u].chunk = chunk
               /\ chunk \in Chunks /\ chunk.content = t.chunk.content /\ chunk.end = t.chunk.end
               /\ \A v \in Uploads \ {u} : upload'[v] = upload[v]
               /\ r \in DOMAIN recorder /\ DOMAIN recorder' = DOMAIN recorder
               /\ recorder'[r].sequence = n /\ recorder'[r].memory = With(recorder[r].memory, n, chunk)
               /\ recorder'[r].phase = recorder[r].phase
               /\ \A k \in DOMAIN recorder \ {r} : recorder'[k] = recorder[k]
               /\ database' = With(database, n, chunk)
               /\ UNCHANGED <<page, rows, objects, captured, dropped, overlapped>>
  <1> DEFINE t == upload[u]
             n == t.sequence
             r == t.of
             chunk == [t.chunk EXCEPT !.start = recorder[r].start]
             after == [recorder[r] EXCEPT !.start = chunk.end, !.sequence = n,
                                          !.memory = With(@, n, chunk)]
             next == [t EXCEPT !.step = "intent", !.chunk = chunk]
  <1>1. t \in Chains /\ t.step = "hash" /\ t.kind = "chunk" /\ t.rest = <<>> /\ n \in Nat
        /\ r \in DOMAIN recorder /\ recorder[r] \in Recorders /\ t.chunk \in Chunks
    BY ChainsAre DEF Hashed, ChainSound
  <1>2. chunk \in Chunks /\ chunk.content = t.chunk.content /\ chunk.end = t.chunk.end /\ chunk.end \in Nat
    BY <1>1, RecorderIs DEF Chunks
  <1> HIDE DEF chunk
  <1>3. recorder[r].memory \in ChunkMaps /\ With(recorder[r].memory, n, chunk) \in ChunkMaps
        /\ With(database, n, chunk) \in ChunkMaps
    BY <1>1, <1>2, RecorderIs, WithIs DEF TypeOK
  <1>4. /\ after \in Recorders /\ after.sequence = n /\ after.phase = recorder[r].phase
        /\ after.memory = With(recorder[r].memory, n, chunk)
    BY <1>1, <1>2, <1>3 DEF Recorders
  <1>5. /\ next \in Chains /\ next.kind = t.kind /\ next.step = "intent" /\ next.of = r
        /\ next.sequence = n /\ next.rest = <<>> /\ next.chunk = chunk
    BY <1>1, <1>2 DEF Chains, Steps
  <1>6. /\ upload' = [upload EXCEPT ![u] = next]
        /\ recorder' = [recorder EXCEPT ![r] = after]
        /\ database' = With(database, n, chunk)
        /\ UNCHANGED <<page, rows, objects, captured, started, dropped, overlapped, failures>>
    <2>1. upload \in [Uploads -> Chains] /\ recorder \in Seq(Recorders)
      BY DEF TypeOK
    <2>2. /\ upload' = [upload EXCEPT ![u].step = "intent", ![u].chunk = chunk]
          /\ recorder' = [recorder EXCEPT ![r].start = chunk.end, ![r].sequence = n,
                                           ![r].memory = With(@, n, chunk)]
          /\ database' = With(database, n, chunk)
          /\ UNCHANGED <<page, rows, objects, captured, started, dropped, overlapped, failures>>
      BY DEF Hashed, Buffered, chunk, server, ghosts
    <2>3. [upload EXCEPT ![u].step = "intent", ![u].chunk = chunk] = [upload EXCEPT ![u] = next]
      BY <1>1, <2>1
    <2>4. [recorder EXCEPT ![r].start = chunk.end, ![r].sequence = n,
                           ![r].memory = With(@, n, chunk)] = [recorder EXCEPT ![r] = after]
      BY <1>1, <2>1
    <2> QED
      BY <2>2, <2>3, <2>4
  <1> HIDE DEF after, next
  <1>7. /\ upload' \in [Uploads -> Chains] /\ upload'[u] = next
        /\ \A v \in Uploads \ {u} : upload'[v] = upload[v]
    BY <1>5, <1>6 DEF TypeOK
  <1>8. /\ recorder' \in Seq(Recorders) /\ DOMAIN recorder' = DOMAIN recorder /\ recorder'[r] = after
        /\ \A k \in DOMAIN recorder \ {r} : recorder'[k] = recorder[k]
    BY <1>1, <1>4, <1>6 DEF TypeOK
  <1>9. \A v \in Uploads : ChainSound(upload[v])'
    BY <1>1, <1>5, <1>7, <1>8 DEF ChainSound, TypeOK
  <1>10. TypeOK'
    BY <1>3, <1>6, <1>7, <1>8, <1>9 DEF TypeOK
  <1> QED
    BY <1>1, <1>2, <1>4, <1>5, <1>6, <1>7, <1>8, <1>10 DEF chunk

\* A chain that is given up, and its recorder if it never started.
LEMMA RejectedDoes ==
    ASSUME TypeOK, NEW u \in Uploads, upload[u].step # "idle", Rejected(u)
    PROVE  /\ upload' \in [Uploads -> Chains] /\ upload'[u] = Idle
           /\ \A v \in Uploads \ {u} : upload'[v] = upload[v]
           /\ recorder' \in Seq(Recorders) /\ DOMAIN recorder' = DOMAIN recorder
           /\ \A v \in Uploads : ChainSound(upload[v])'
           /\ \A k \in DOMAIN recorder :
                 /\ recorder'[k].memory = recorder[k].memory
                 /\ recorder'[k].sequence = recorder[k].sequence
                 /\ recorder'[k].phase = IF upload[u].kind = "first" /\ k = upload[u].of
                                         THEN "unavailable" ELSE recorder[k].phase
  <1> DEFINE r == upload[u].of
  <1>1. r \in DOMAIN recorder /\ recorder[r] \in Recorders
    BY ChainsAre DEF ChainSound
  <1>2. recorder' = IF upload[u].kind = "first"
                    THEN [recorder EXCEPT ![r] = [@ EXCEPT !.phase = "unavailable"]] ELSE recorder
    BY DEF Rejected
  <1> DEFINE after == [recorder[r] EXCEPT !.phase = "unavailable"]
  <1>3. /\ after \in Recorders /\ after.phase = "unavailable"
        /\ after.memory = recorder[r].memory /\ after.sequence = recorder[r].sequence
    BY <1>1 DEF Recorders
  <1> HIDE DEF after
  <1>4. recorder' = IF upload[u].kind = "first" THEN [recorder EXCEPT ![r] = after] ELSE recorder
    BY <1>2 DEF after
  <1>5. recorder \in Seq(Recorders)
    BY DEF TypeOK
  <1>6. /\ recorder' \in Seq(Recorders) /\ DOMAIN recorder' = DOMAIN recorder
        /\ \A k \in DOMAIN recorder :
                 /\ recorder'[k].memory = recorder[k].memory
                 /\ recorder'[k].sequence = recorder[k].sequence
                 /\ recorder'[k].phase = IF upload[u].kind = "first" /\ k = upload[u].of
                                         THEN "unavailable" ELSE recorder[k].phase
    BY <1>1, <1>3, <1>4, <1>5
  <1>7. /\ upload' \in [Uploads -> Chains] /\ upload'[u] = Idle
        /\ \A v \in Uploads \ {u} : upload'[v] = upload[v]
    BY IdleChain DEF Rejected, TypeOK
  <1>8. \A v \in Uploads : ChainSound(upload[v])'
    BY SMTT(20), <1>6, <1>7, IdleChain DEF ChainSound, TypeOK
  <1> QED
    BY <1>6, <1>7, <1>8

LEMMA IssuedRows ==
    ASSUME TypeOK, NEW chunk \in Chunks, rows' = Append(rows, Row(chunk))
    PROVE  /\ rows' \in Seq(Rows) /\ Len(rows') = Len(rows) + 1
           /\ rows'[Len(rows')] = Row(chunk)
           /\ \A n \in DOMAIN rows : n \in DOMAIN rows' /\ rows'[n] = rows[n]
  <1>1. Row(chunk) \in Rows /\ rows \in Seq(Rows)
    BY DEF Row, Rows, TypeOK
  <1> QED
    BY <1>1

LEMMA RequestIntentDoes ==
    ASSUME TypeOK, NEW u \in Uploads, RequestIntent(u)
    PROVE  LET t == upload[u]
           IN  /\ TypeOK'
               /\ t.step = "intent" /\ t.kind # "none"
               /\ \/ /\ Acceptable(t.sequence, t.chunk) /\ rows' = Append(rows, Row(t.chunk))
                     /\ upload'[u].kind = t.kind /\ upload'[u].step = "put" /\ upload'[u].of = t.of
                     /\ upload'[u].sequence = t.sequence /\ upload'[u].chunk = t.chunk
                     /\ upload'[u].rest = t.rest /\ upload'[u].stored = TRUE
                     /\ \A v \in Uploads \ {u} : upload'[v] = upload[v]
                     /\ UNCHANGED recorder
                  \/ Rejected(u) /\ UNCHANGED rows
               /\ UNCHANGED <<page, database, objects, captured, dropped, overlapped>>
  <1> DEFINE t == upload[u]
             next == [t EXCEPT !.step = "put", !.stored = TRUE]
  <1>1. t \in Chains /\ t.step = "intent" /\ t.kind # "none" /\ t.chunk \in Chunks /\ ChainSound(t)
    BY ChainsAre DEF RequestIntent, ChainSound
  <1>2. UNCHANGED <<page, database, objects, captured, started, dropped, overlapped, failures>>
    BY DEF RequestIntent, ghosts
  <1>3. CASE Acceptable(t.sequence, t.chunk)
    <2>1. /\ next \in Chains
          /\ next.kind = t.kind /\ next.step = "put" /\ next.of = t.of /\ next.chunk = t.chunk
          /\ next.sequence = t.sequence /\ next.rest = t.rest /\ next.stored = TRUE
      BY <1>1 DEF Chains, Steps
    <2>2. /\ upload' = [upload EXCEPT ![u].step = "put", ![u].stored = TRUE]
          /\ rows' = Append(rows, Row(t.chunk)) /\ UNCHANGED recorder
      BY <1>3 DEF RequestIntent
    <2>3. [upload EXCEPT ![u].step = "put", ![u].stored = TRUE] = [upload EXCEPT ![u] = next]
      BY <1>1 DEF TypeOK
    <2> HIDE DEF next
    <2>4. /\ upload' \in [Uploads -> Chains] /\ upload'[u] = next
          /\ \A v \in Uploads \ {u} : upload'[v] = upload[v]
      BY <2>1, <2>2, <2>3 DEF TypeOK
    <2>5. \A v \in Uploads : ChainSound(upload[v])'
      BY <1>1, <2>1, <2>2, <2>4 DEF ChainSound, TypeOK
    <2>6. TypeOK'
      BY <1>1, <1>2, <2>2, <2>4, <2>5, IssuedRows DEF TypeOK
    <2> QED
      BY <1>1, <1>2, <1>3, <2>1, <2>2, <2>4, <2>6
  <1>4. CASE ~Acceptable(t.sequence, t.chunk)
    <2>1. Rejected(u) /\ UNCHANGED rows
      BY <1>4 DEF RequestIntent
    <2>2. TypeOK'
      BY <1>1, <1>2, <2>1, RejectedDoes DEF TypeOK
    <2> QED
      BY <1>1, <1>2, <2>1, <2>2
  <1> QED
    BY <1>3, <1>4

LEMMA IntentFailsDoes ==
    ASSUME TypeOK, NEW u \in Uploads, IntentFails(u)
    PROVE  LET t == upload[u]
           IN  /\ TypeOK'
               /\ t.step = "intent" /\ t.kind # "none" /\ Rejected(u)
               /\ \/ UNCHANGED rows
                  \/ Acceptable(t.sequence, t.chunk) /\ rows' = Append(rows, Row(t.chunk))
               /\ UNCHANGED <<page, database, objects, captured, dropped, overlapped>>
  <1> DEFINE t == upload[u]
  <1>1. t.step = "intent" /\ t.kind # "none" /\ t.chunk \in Chunks
    BY ChainsAre DEF IntentFails, ChainSound
  <1>2. /\ Rejected(u) /\ failures' \in Nat
        /\ UNCHANGED <<page, database, objects, captured, started, dropped, overlapped>>
        /\ \/ UNCHANGED rows
           \/ Acceptable(t.sequence, t.chunk) /\ rows' = Append(rows, Row(t.chunk))
    BY DEF IntentFails, ghosts, Failing, TypeOK
  <1>3. rows' \in Seq(Rows)
    BY <1>1, <1>2, IssuedRows DEF TypeOK
  <1>4. TypeOK'
    BY <1>1, <1>2, <1>3, RejectedDoes DEF TypeOK
  <1> QED
    BY <1>1, <1>2, <1>4

LEMMA IntentNotCommittedDoes ==
    ASSUME TypeOK, NEW u \in Uploads, IntentNotCommitted(u)
    PROVE  LET t == upload[u]
           IN  /\ TypeOK'
               /\ t.step = "intent" /\ t.kind # "none"
               /\ Acceptable(t.sequence, t.chunk)
               /\ upload'[u].kind = t.kind /\ upload'[u].step = "put" /\ upload'[u].of = t.of
               /\ upload'[u].sequence = t.sequence /\ upload'[u].chunk = t.chunk
               /\ upload'[u].rest = t.rest /\ upload'[u].stored = t.stored
               /\ \A v \in Uploads \ {u} : upload'[v] = upload[v]
               /\ dropped' = dropped \cup {t.chunk.content}
               /\ UNCHANGED <<page, recorder, database, rows, objects, captured, overlapped>>
  <1> DEFINE t == upload[u]
             next == [t EXCEPT !.step = "put"]
  <1>1. t \in Chains /\ t.step = "intent" /\ t.kind # "none" /\ ChainSound(t)
    BY ChainsAre DEF IntentNotCommitted, ChainSound
  <1>2. /\ next \in Chains
        /\ next.kind = t.kind /\ next.step = "put" /\ next.of = t.of /\ next.chunk = t.chunk
        /\ next.sequence = t.sequence /\ next.rest = t.rest /\ next.stored = t.stored
    BY <1>1 DEF Chains, Steps
  <1>3. /\ upload' = [upload EXCEPT ![u] = next]
        /\ Acceptable(t.sequence, t.chunk) /\ failures' \in Nat
        /\ dropped' = dropped \cup {t.chunk.content}
        /\ UNCHANGED <<page, recorder, database, rows, objects, captured, started, overlapped>>
    BY DEF IntentNotCommitted, server, Failing, TypeOK
  <1> HIDE DEF next
  <1>4. /\ upload' \in [Uploads -> Chains] /\ upload'[u] = next
        /\ \A v \in Uploads \ {u} : upload'[v] = upload[v]
    BY <1>2, <1>3 DEF TypeOK
  <1>5. \A v \in Uploads : ChainSound(upload[v])'
    BY <1>1, <1>2, <1>3, <1>4 DEF ChainSound, TypeOK
  <1>6. TypeOK'
    BY <1>3, <1>4, <1>5 DEF TypeOK
  <1> QED
    BY <1>1, <1>2, <1>3, <1>4, <1>6

LEMMA PutDoes ==
    ASSUME TypeOK, NEW u \in Uploads, Put(u)
    PROVE  LET t == upload[u]
           IN  /\ TypeOK'
               /\ t.step = "put" /\ t.kind # "none"
               /\ upload'[u].kind = t.kind /\ upload'[u].step = "remove" /\ upload'[u].of = t.of
               /\ upload'[u].sequence = t.sequence /\ upload'[u].chunk = t.chunk
               /\ upload'[u].rest = t.rest /\ upload'[u].stored = t.stored
               /\ \A v \in Uploads \ {u} : upload'[v] = upload[v]
               /\ objects' = IF t.stored THEN objects \cup {t.sequence} ELSE objects
               /\ page'.now = page.now
               /\ UNCHANGED <<recorder, database, rows, captured, dropped, overlapped>>
  <1> DEFINE t == upload[u]
             next == [t EXCEPT !.step = "remove"]
  <1>1. t \in Chains /\ t.step = "put" /\ t.kind # "none" /\ ChainSound(t) /\ t.sequence \in Nat
    BY ChainsAre DEF Put, ChainSound
  <1>2. /\ next \in Chains
        /\ next.kind = t.kind /\ next.step = "remove" /\ next.of = t.of /\ next.chunk = t.chunk
        /\ next.sequence = t.sequence /\ next.rest = t.rest /\ next.stored = t.stored
    BY <1>1 DEF Chains, Steps
  <1>3. /\ upload' = [upload EXCEPT ![u] = next]
        /\ objects' = IF t.stored THEN objects \cup {t.sequence} ELSE objects
        /\ page' = [page EXCEPT !.uploaded = Larger(@, t.sequence)]
        /\ UNCHANGED <<recorder, database, rows, captured, started, dropped, overlapped, failures>>
    BY DEF Put, ghosts
  <1> HIDE DEF next
  <1>4. /\ upload' \in [Uploads -> Chains] /\ upload'[u] = next
        /\ \A v \in Uploads \ {u} : upload'[v] = upload[v]
    BY <1>2, <1>3 DEF TypeOK
  <1>5. \A v \in Uploads : ChainSound(upload[v])'
    BY <1>1, <1>2, <1>3, <1>4 DEF ChainSound, TypeOK
  <1>6. page' \in [now : Nat, uploaded : Nat, opened : BOOLEAN] /\ page'.now = page.now
    BY <1>1, <1>3 DEF TypeOK, Larger
  <1>7. TypeOK'
    BY <1>1, <1>3, <1>4, <1>5, <1>6 DEF TypeOK
  <1> QED
    BY <1>1, <1>2, <1>3, <1>4, <1>6, <1>7

LEMMA PutFailsDoes ==
    ASSUME TypeOK, NEW u \in Uploads, PutFails(u)
    PROVE  LET t == upload[u]
           IN  /\ TypeOK'
               /\ t.step = "put" /\ t.kind # "none" /\ Rejected(u)
               /\ objects' = objects \/ (t.stored /\ objects' = objects \cup {t.sequence})
               /\ UNCHANGED <<page, database, rows, captured, dropped, overlapped>>
  <1> DEFINE t == upload[u]
  <1>1. t.step = "put" /\ t.kind # "none" /\ t.sequence \in Nat
    BY ChainsAre DEF PutFails, ChainSound
  <1>2. /\ Rejected(u) /\ failures' \in Nat
        /\ objects' = objects \/ (t.stored /\ objects' = objects \cup {t.sequence})
        /\ UNCHANGED <<page, database, rows, captured, started, dropped, overlapped>>
    BY DEF PutFails, ghosts, Failing, TypeOK
  <1>3. TypeOK'
    BY <1>1, <1>2, RejectedDoes DEF TypeOK
  <1> QED
    BY <1>1, <1>2, <1>3

LEMMA CompleteAnswerDoes ==
    ASSUME TypeOK, CompleteAnswer
    PROVE  /\ TypeOK'
           /\ Len(rows') = Len(rows)
           /\ DOMAIN rows' = DOMAIN rows
           /\ \A n \in DOMAIN rows : rows'[n].chunk = rows[n].chunk
           /\ UNCHANGED <<page, recorder, database, upload, objects, captured, dropped, overlapped>>
  <1> DEFINE row(n) == IF n \in Walked(page.uploaded)
                       THEN [rows[n] EXCEPT !.status = "verified"] ELSE rows[n]
  <1>1. rows \in Seq(Rows) /\ rows' = [n \in DOMAIN rows |-> row(n)]
    BY DEF CompleteAnswer, TypeOK
  <1>2. ASSUME NEW n \in DOMAIN rows
        PROVE  row(n) \in Rows /\ row(n).chunk = rows[n].chunk
    <2>1. rows[n] \in Rows
      BY <1>1
    <2> QED
      BY <2>1 DEF Rows
  <1> HIDE DEF row
  <1>3. rows' \in Seq(Rows) /\ Len(rows') = Len(rows) /\ DOMAIN rows' = DOMAIN rows
    BY <1>1, <1>2
  <1>4. UNCHANGED <<page, recorder, database, upload, objects, captured, started, dropped,
                    overlapped, failures>>
    BY DEF CompleteAnswer, ghosts
  <1>5. TypeOK'
    BY <1>3, <1>4 DEF TypeOK, ChainSound
  <1> QED
    BY <1>1, <1>2, <1>3, <1>4, <1>5

LEMMA DropFromBufferDoes ==
    ASSUME TypeOK, NEW u \in Uploads, DropFromBuffer(u)
    PROVE  LET t == upload[u]
               n == t.sequence
               r == t.of
           IN  /\ TypeOK'
               /\ t.step = "remove" /\ t.kind # "none"
               /\ t.rest = <<>> => upload'[u] = Idle
               /\ t.rest # <<>> =>
                     /\ upload'[u].kind = t.kind /\ upload'[u].step = "intent" /\ upload'[u].of = r
                     /\ upload'[u].sequence = t.rest[1].sequence
                     /\ upload'[u].chunk = t.rest[1].chunk
                     /\ upload'[u].rest = Tail(t.rest)
               /\ \A v \in Uploads \ {u} : upload'[v] = upload[v]
               /\ r \in DOMAIN recorder /\ DOMAIN recorder' = DOMAIN recorder
               /\ recorder'[r].sequence = IF t.kind = "chunk" THEN recorder[r].sequence
                                          ELSE Larger(recorder[r].sequence, n)
               /\ recorder'[r].memory = Without(recorder[r].memory, n)
               /\ recorder'[r].phase = IF t.kind = "first" /\ t.rest = <<>> THEN "recording"
                                       ELSE recorder[r].phase
               /\ \A k \in DOMAIN recorder \ {r} : recorder'[k] = recorder[k]
               /\ database' = Without(database, n)
               /\ UNCHANGED <<page, rows, objects, captured, dropped, overlapped>>
  <1> DEFINE t == upload[u]
             n == t.sequence
             r == t.of
             larger == IF t.kind = "chunk" THEN recorder[r].sequence
                       ELSE Larger(recorder[r].sequence, n)
             after == [recorder[r] EXCEPT !.memory = Without(@, n),
                           !.sequence = IF t.kind = "chunk" THEN @ ELSE Larger(@, n)]
             last == t.kind = "first" /\ t.rest = <<>>
             next == Retrying(t.kind, r, t.rest)
  <1>1. /\ t \in Chains /\ t.step = "remove" /\ t.kind # "none" /\ ChainSound(t) /\ n \in Nat
        /\ r \in DOMAIN recorder /\ r \in Nat /\ recorder[r] \in Recorders /\ t.rest \in Seq(Pieces)
        /\ t.kind \in {"chunk", "first", "open"} /\ (t.kind = "chunk" => t.rest = <<>>)
    BY ChainsAre DEF DropFromBuffer, ChainSound, Chains
  <1>2. recorder[r].memory \in ChunkMaps /\ recorder[r].sequence \in Nat /\ database \in ChunkMaps
    BY <1>1 DEF Recorders, TypeOK
  <1>3. Without(recorder[r].memory, n) \in ChunkMaps /\ Without(database, n) \in ChunkMaps
    BY <1>1, <1>2, WithoutIs
  <1>4. larger \in Nat
    BY <1>1, <1>2 DEF Larger
  <1>5. /\ after \in Recorders /\ after.sequence = larger /\ after.phase = recorder[r].phase
        /\ after.memory = Without(recorder[r].memory, n)
    BY <1>1, <1>2, <1>3, <1>4 DEF Recorders
  <1>6. /\ upload' = [upload EXCEPT ![u] = next]
        /\ recorder' = [recorder EXCEPT ![r] = IF last THEN Recording(after) ELSE after]
        /\ database' = Without(database, n)
        /\ UNCHANGED <<page, rows, objects, captured, started, dropped, overlapped, failures>>
    BY DEF DropFromBuffer, server, ghosts
  <1>7. /\ next \in Chains
        /\ t.rest = <<>> => next = Idle
        /\ t.rest # <<>> =>
              /\ next.kind = t.kind /\ next.step = "intent" /\ next.of = r
              /\ next.sequence = t.rest[1].sequence /\ next.chunk = t.rest[1].chunk
              /\ next.rest = Tail(t.rest)
    <2>1. CASE t.rest = <<>>
      BY <2>1, RetryingNothing, IdleChain
    <2>2. CASE t.rest # <<>>
      <3>1. t.kind \in {"first", "open"}
        BY <1>1, <2>2
      <3>2. next \in Chains
        BY <1>1, <3>1, RetryingChain
      <3>3. t.rest \in Seq(Pieces) /\ t.rest # <<>>
        BY <1>1, <2>2
      <3>4. next.kind = t.kind /\ next.step = "intent" /\ next.of = r
        BY <3>3, RetryingIs
      <3>5. next.sequence = t.rest[1].sequence /\ next.chunk = t.rest[1].chunk
        BY <3>3, RetryingIs
      <3>6. next.rest = Tail(t.rest)
        BY <3>3 DEF Retrying, Idle
      <3> QED
        BY <2>2, <3>2, <3>4, <3>5, <3>6
    <2> QED
      BY <2>1, <2>2
  <1> HIDE DEF after, next, larger
  <1> DEFINE ends == IF last THEN Recording(after) ELSE after
  <1>8. /\ ends \in Recorders /\ ends.sequence = larger
        /\ ends.phase = IF last THEN "recording" ELSE recorder[r].phase
        /\ ends.memory = Without(recorder[r].memory, n)
    <2>1. page.now \in Nat
      BY DEF TypeOK
    <2> QED
      BY <1>5, <2>1 DEF Recorders, Recording
  <1>9. recorder' = [recorder EXCEPT ![r] = ends]
    BY <1>6
  <1> HIDE DEF ends
  <1>10. /\ recorder' \in Seq(Recorders) /\ DOMAIN recorder' = DOMAIN recorder /\ recorder'[r] = ends
         /\ \A k \in DOMAIN recorder \ {r} : recorder'[k] = recorder[k]
    BY <1>1, <1>8, <1>9 DEF TypeOK
  <1>11. /\ upload' \in [Uploads -> Chains] /\ upload'[u] = next
         /\ \A v \in Uploads \ {u} : upload'[v] = upload[v]
    BY <1>6, <1>7 DEF TypeOK
  <1>12. \A v \in Uploads : ChainSound(upload[v])'
    <2>1. ChainSound(upload[u])'
      <3>1. CASE t.rest = <<>>
        BY <1>7, <1>11, <3>1, IdleChain DEF ChainSound
      <3>2. CASE t.rest # <<>>
        BY <1>1, <1>7, <1>10, <1>11, <3>2 DEF ChainSound
      <3> QED
        BY <3>1, <3>2
    <2>2. \A v \in Uploads \ {u} : ChainSound(upload[v])'
      BY <1>10, <1>11 DEF ChainSound, TypeOK
    <2> QED
      BY <2>1, <2>2
  <1>13. TypeOK'
    BY <1>3, <1>6, <1>10, <1>11, <1>12 DEF TypeOK
  <1> QED
    BY <1>1, <1>6, <1>7, <1>8, <1>10, <1>11, <1>13 DEF larger

LEMMA SocketOpensDoes ==
    ASSUME TypeOK, NEW u \in Uploads, SocketOpens(u)
    PROVE  LET memory == Loaded(recorder[Current].memory)
           IN  /\ TypeOK'
               /\ upload[u] = Idle /\ Current \in DOMAIN recorder
               /\ upload'[u] = Retrying("open", Current, Listed(memory))
               /\ memory \in ChunkMaps
               /\ \A v \in Uploads \ {u} : upload'[v] = upload[v]
               /\ DOMAIN recorder' = DOMAIN recorder
               /\ recorder'[Current].memory = memory
               /\ recorder'[Current].phase = recorder[Current].phase
               /\ recorder'[Current].sequence = recorder[Current].sequence
               /\ \A k \in DOMAIN recorder \ {Current} : recorder'[k] = recorder[k]
               /\ page'.now = page.now
               /\ UNCHANGED <<database, rows, objects, captured, dropped, overlapped>>
  <1> DEFINE memory == Loaded(recorder[Current].memory)
             next == Retrying("open", Current, Listed(memory))
             after == [recorder[Current] EXCEPT !.memory = memory]
  <1>1. /\ recorder \in Seq(Recorders) /\ recorder # <<>> /\ Current \in DOMAIN recorder
        /\ Current \in Nat /\ recorder[Current] \in Recorders
    BY DEF TypeOK, SocketOpens, Current
  <1>2. memory \in ChunkMaps
    BY <1>1, LoadedIs DEF TypeOK, Recorders
  <1>3. Listed(memory) \in Seq(Pieces)
    BY <1>2, ListedIs
  <1>4. next \in Chains
    BY <1>1, <1>3, RetryingChain
  <1>5. /\ after \in Recorders /\ after.memory = memory
        /\ after.phase = recorder[Current].phase /\ after.sequence = recorder[Current].sequence
    BY <1>1, <1>2 DEF Recorders
  <1>6. /\ upload' = [upload EXCEPT ![u] = next] /\ upload[u] = Idle
        /\ recorder' = [recorder EXCEPT ![Current] = after]
        /\ page' = [page EXCEPT !.opened = TRUE]
        /\ UNCHANGED <<database, rows, objects, captured, started, dropped, overlapped, failures>>
    BY DEF SocketOpens, server, ghosts
  <1>7. ChainSound(next)
    <2>1. CASE Listed(memory) = <<>>
      BY <2>1, RetryingNothing, IdleChain DEF ChainSound
    <2>2. CASE Listed(memory) # <<>>
      <3>1. next.kind = "open" /\ next.step = "intent" /\ next.of = Current
        BY <1>1, <1>3, <2>2, RetryingIs
      <3> QED
        BY <1>1, <3>1 DEF ChainSound
    <2> QED
      BY <2>1, <2>2
  <1> HIDE DEF after, next, memory
  <1>8. /\ upload' \in [Uploads -> Chains] /\ upload'[u] = next
        /\ \A v \in Uploads \ {u} : upload'[v] = upload[v]
    BY <1>4, <1>6 DEF TypeOK
  <1>9. /\ recorder' \in Seq(Recorders) /\ DOMAIN recorder' = DOMAIN recorder
        /\ recorder'[Current] = after
        /\ \A k \in DOMAIN recorder \ {Current} : recorder'[k] = recorder[k]
    BY <1>1, <1>5, <1>6
  <1>10. \A v \in Uploads : ChainSound(upload[v])'
    BY <1>7, <1>8, <1>9 DEF ChainSound, TypeOK
  <1>11. page' \in [now : Nat, uploaded : Nat, opened : BOOLEAN] /\ page'.now = page.now
    BY <1>6 DEF TypeOK
  <1>12. TypeOK'
    BY <1>6, <1>8, <1>9, <1>10, <1>11 DEF TypeOK
  <1> QED
    BY <1>1, <1>2, <1>5, <1>6, <1>8, <1>9, <1>11, <1>12 DEF memory, next

\* What starts a recorder keeps the types.
LEMMA StartTypes ==
    ASSUME TypeOK, NEW u \in Uploads, NEW earlier \in Seq(Recorders),
           NEW p \in [now : Nat, uploaded : Nat, opened : BOOLEAN], StartRecorder(u, earlier, p),
           earlier = <<>> \/ earlier = recorder
    PROVE  /\ page' \in [now : Nat, uploaded : Nat, opened : BOOLEAN]
           /\ recorder' \in Seq(Recorders) /\ started' \in Nat /\ overlapped' \in BOOLEAN
           /\ upload' \in [Uploads -> Chains]
           /\ \A v \in Uploads : ChainSound(upload[v])'
           /\ DOMAIN recorder' = DOMAIN earlier \cup {Len(earlier) + 1}
           /\ Len(earlier) + 1 \notin DOMAIN earlier
           /\ \A k \in DOMAIN earlier : recorder'[k] = earlier[k]
  <1> DEFINE n == Len(earlier) + 1
             new == recorder'[n]
  <1>1. /\ page' = p /\ started' \in Nat /\ overlapped' \in BOOLEAN
        /\ new \in Recorders /\ recorder' = Append(earlier, new)
        /\ DOMAIN upload' = Uploads /\ upload' = [v \in Uploads |-> upload'[v]]
        /\ \/ upload'[u] = Idle
           \/ /\ upload'[u] \in Chains /\ upload'[u] = Retrying("first", n, Listed(database))
              /\ Listed(database) # <<>>
           \/ earlier # <<>> /\ upload'[u] = upload[u]
        /\ \A v \in Uploads \ {u} : upload'[v] = IF earlier = <<>> THEN Idle ELSE upload[v]
    BY StartIs
  <1> HIDE DEF new
  <1>2. /\ recorder' \in Seq(Recorders) /\ n \in Nat
        /\ DOMAIN recorder' = DOMAIN earlier \cup {n} /\ n \notin DOMAIN earlier
        /\ \A k \in DOMAIN earlier : recorder'[k] = earlier[k]
    BY <1>1
  <1>3. ASSUME NEW v \in Uploads
        PROVE  upload'[v] \in Chains /\ ChainSound(upload[v])'
    <2>1. CASE upload'[v] = Idle
      BY <2>1, IdleChain DEF ChainSound
    <2>2. CASE earlier # <<>> /\ upload'[v] = upload[v]
      BY <1>2, <2>2 DEF ChainSound, TypeOK
    <2>3. CASE /\ upload'[v] \in Chains /\ upload'[v] = Retrying("first", n, Listed(database))
               /\ Listed(database) # <<>>
      <3>1. Listed(database) \in Seq(Pieces)
        BY ListedIs DEF TypeOK
      <3>2. upload'[v].kind = "first" /\ upload'[v].step = "intent" /\ upload'[v].of = n
        BY <1>2, <2>3, <3>1, RetryingIs
      <3> QED
        BY <1>2, <2>3, <3>2 DEF ChainSound
    <2> QED
      BY <1>1, <2>1, <2>2, <2>3
  <1> QED
    BY <1>1, <1>2, <1>3

-----------------------------------------------------------------------------
(* What the browser still has: every place of a chunk in a buffer or a chain *)

\* A recorded chunk and the sequence under which it is kept; its start may still change.
Token(n, c) == [sequence |-> n, content |-> c.content, end |-> c.end]

OfBuffer(b) == {Token(n, b[n]) : n \in DOMAIN b}

OfRest(rest) == {Token(rest[k].sequence, rest[k].chunk) : k \in DOMAIN rest}

OfChain(t) ==
    {x \in {Token(t.sequence, t.chunk)} \cup OfRest(t.rest) : t.kind # "none"}

Tokens ==
    OfBuffer(database)
        \cup (UNION {OfBuffer(recorder[k].memory) : k \in DOMAIN recorder})
        \cup (UNION {OfChain(upload[u]) : u \in Uploads})

LEMMA TokensAre ==
    /\ OfBuffer(database) \subseteq Tokens
    /\ \A k \in DOMAIN recorder : OfBuffer(recorder[k].memory) \subseteq Tokens
    /\ \A u \in Uploads : OfChain(upload[u]) \subseteq Tokens
  BY DEF Tokens

LEMMA TokensFrom ==
    ASSUME NEW All, OfBuffer(database') \subseteq All,
           \A k \in DOMAIN recorder' : OfBuffer(recorder'[k].memory) \subseteq All,
           \A u \in Uploads : OfChain(upload'[u]) \subseteq All
    PROVE  Tokens' \subseteq All
  BY DEF Tokens

LEMMA WithTokens ==
    ASSUME NEW b \in ChunkMaps, NEW n \in Nat, NEW c \in Chunks
    PROVE  OfBuffer(With(b, n, c)) \subseteq OfBuffer(b) \cup {Token(n, c)}
  <1>1. ASSUME NEW k \in DOMAIN With(b, n, c)
        PROVE  Token(k, With(b, n, c)[k]) \in OfBuffer(b) \cup {Token(n, c)}
    <2>1. (k = n /\ With(b, n, c)[k] = c) \/ (k \in DOMAIN b /\ With(b, n, c)[k] = b[k])
      BY <1>1 DEF With
    <2> QED
      BY <2>1 DEF OfBuffer
  <1> QED
    BY <1>1 DEF OfBuffer

LEMMA WithoutTokens ==
    ASSUME NEW b \in ChunkMaps, NEW n \in Nat
    PROVE  OfBuffer(Without(b, n)) \subseteq OfBuffer(b)
  <1>1. ASSUME NEW k \in DOMAIN Without(b, n)
        PROVE  Token(k, Without(b, n)[k]) \in OfBuffer(b)
    BY <1>1, WithoutIs DEF OfBuffer
  <1> QED
    BY <1>1 DEF OfBuffer

LEMMA LoadedTokens ==
    ASSUME NEW memory \in ChunkMaps, database \in ChunkMaps
    PROVE  OfBuffer(Loaded(memory)) \subseteq OfBuffer(memory) \cup OfBuffer(database)
  <1>1. ASSUME NEW k \in DOMAIN Loaded(memory)
        PROVE  Token(k, Loaded(memory)[k]) \in OfBuffer(memory) \cup OfBuffer(database)
    BY <1>1, LoadedIs DEF OfBuffer
  <1> QED
    BY <1>1 DEF OfBuffer

LEMMA IdleTokens == OfChain(Idle) = {}
  BY IdleChain DEF OfChain

\* A retry of a list has in hand what the list has.
LEMMA RetryingTokens ==
    ASSUME NEW kind \in {"first", "open"}, NEW r, NEW chunks \in Seq(Pieces)
    PROVE  OfChain(Retrying(kind, r, chunks)) \subseteq OfRest(chunks)
  <1>1. CASE chunks = <<>>
    BY <1>1, RetryingNothing, IdleTokens
  <1>2. CASE chunks # <<>>
    <2> DEFINE t == Retrying(kind, r, chunks)
    <2>1. t.sequence = chunks[1].sequence /\ t.chunk = chunks[1].chunk /\ 1 \in DOMAIN chunks
      BY <1>2, RetryingIs
    <2>2. t.rest = Tail(chunks)
      BY <1>2 DEF Retrying, Idle
    <2> HIDE DEF t
    <2>3. \A k \in DOMAIN t.rest : k + 1 \in DOMAIN chunks /\ t.rest[k] = chunks[k + 1]
      BY <1>2, <2>2
    <2>4. Token(t.sequence, t.chunk) \in OfRest(chunks)
      BY <2>1 DEF OfRest
    <2>5. OfRest(t.rest) \subseteq OfRest(chunks)
      BY <2>3 DEF OfRest
    <2> QED
      BY <2>4, <2>5 DEF OfChain, t
  <1> QED
    BY <1>1, <1>2

LEMMA ListedTokens ==
    ASSUME NEW memory \in ChunkMaps
    PROVE  OfRest(Listed(memory)) \subseteq OfBuffer(memory)
  BY ListedIs DEF OfRest, OfBuffer

LEMMA TokenTypes ==
    ASSUME TypeOK
    PROVE  \A x \in Tokens : x.sequence \in Nat /\ x.content \in Nat /\ x.end \in Nat
  <1> DEFINE Typed(x) == x.sequence \in Nat /\ x.content \in Nat /\ x.end \in Nat
  <1>1. ASSUME NEW n \in Nat, NEW c \in Chunks
        PROVE  Typed(Token(n, c))
    BY DEF Token, Chunks
  <1>2. ASSUME NEW b \in ChunkMaps, NEW x \in OfBuffer(b)
        PROVE  Typed(x)
    BY <1>1, <1>2, BufferIs DEF OfBuffer
  <1>3. ASSUME NEW u \in Uploads, NEW x \in OfChain(upload[u])
        PROVE  Typed(x)
    <2>1. upload[u].sequence \in Nat /\ upload[u].chunk \in Chunks /\ upload[u].rest \in Seq(Pieces)
      BY ChainsAre
    <2>2. ASSUME NEW k \in DOMAIN upload[u].rest
          PROVE  upload[u].rest[k].sequence \in Nat /\ upload[u].rest[k].chunk \in Chunks
      <3>1. upload[u].rest[k] \in Pieces
        BY <2>1
      <3> QED
        BY <3>1 DEF Pieces
    <2> QED
      BY <1>1, <1>3, <2>1, <2>2 DEF OfChain, OfRest
  <1>4. database \in ChunkMaps /\ \A k \in DOMAIN recorder : recorder[k].memory \in ChunkMaps
    BY MemoriesAre
  <1> HIDE DEF Typed
  <1>5. \A x \in Tokens : Typed(x)
    BY <1>2, <1>3, <1>4 DEF Tokens
  <1> QED
    BY <1>5 DEF Typed

\* What one chain alone leaves of its chunks.
LEMMA OneChainTokens ==
    ASSUME NEW u \in Uploads, UNCHANGED database, DOMAIN recorder' = DOMAIN recorder,
           \A k \in DOMAIN recorder : recorder'[k].memory = recorder[k].memory,
           \A v \in Uploads \ {u} : upload'[v] = upload[v],
           OfChain(upload'[u]) \subseteq OfChain(upload[u])
    PROVE  Tokens' \subseteq Tokens
  <1>1. \A v \in Uploads : OfChain(upload'[v]) \subseteq OfChain(upload[v])
    OBVIOUS
  <1> QED
    BY <1>1, TokensAre, TokensFrom

\* Load and Resume start a recorder with types as they are.
LEMMA LoadDoes ==
    ASSUME TypeOK, NEW u \in Uploads, Load(u)
    PROVE  LET new == recorder'[1]
           IN  /\ TypeOK'
               /\ recorder' = <<new>> /\ DOMAIN recorder' = {1}
               /\ \/ new.phase = "recording" /\ database = <<>> /\ upload'[u] = Idle
                  \/ /\ new.phase = "retrying" /\ Listed(database) # <<>>
                     /\ upload'[u] = Retrying("first", 1, Listed(database))
                  \/ new.phase = "unavailable" /\ upload'[u] = Idle
               /\ new.phase # "unavailable" => new.memory = database /\ new.sequence = 0
               /\ new.phase = "unavailable" => new.memory = <<>>
               /\ \A v \in Uploads \ {u} : upload'[v] = Idle
               /\ page'.now = 0
               /\ dropped' = dropped \cup (1..captured \ Kept({database}))
               /\ overlapped' = overlapped
               /\ UNCHANGED <<database, rows, objects, captured>>
  <1> DEFINE p == NewPage(Cardinality(Verified))
  <1>1. /\ StartRecorder(u, <<>>, p)
        /\ dropped' = dropped \cup (1..captured \ Kept({database}))
        /\ UNCHANGED <<database, rows, objects, captured, failures>>
    BY DEF Load, server
  <1>2. p \in [now : Nat, uploaded : Nat, opened : BOOLEAN] /\ p.now = 0
    BY VerifiedIsFinite DEF NewPage, TypeOK
  <1>3. <<>> \in Seq(Recorders) /\ Len(<<>>) = 0 /\ DOMAIN <<>> = {}
    OBVIOUS
  <1>4. overlapped' = overlapped
    BY <1>1, <1>3 DEF StartRecorder, TypeOK
  <1> HIDE DEF p
  <1>5. /\ page' = p /\ recorder' = Append(<<>>, recorder'[1]) /\ recorder'[1] \in Recorders
        /\ \/ recorder'[1].phase = "recording" /\ database = <<>> /\ upload'[u] = Idle
           \/ /\ recorder'[1].phase = "retrying" /\ Listed(database) # <<>>
              /\ upload'[u] = Retrying("first", 1, Listed(database))
           \/ recorder'[1].phase = "unavailable" /\ upload'[u] = Idle
        /\ recorder'[1].phase # "unavailable" =>
              recorder'[1].memory = database /\ recorder'[1].sequence = 0
        /\ recorder'[1].phase = "unavailable" => recorder'[1].memory = <<>>
        /\ \A v \in Uploads \ {u} : upload'[v] = Idle
    <2> DEFINE n == Len(<<>>) + 1
    <2>1. /\ page' = p /\ recorder' = Append(<<>>, recorder'[n]) /\ recorder'[n] \in Recorders
          /\ \/ recorder'[n].phase = "recording" /\ database = <<>> /\ upload'[u] = Idle
             \/ /\ recorder'[n].phase = "retrying" /\ Listed(database) # <<>>
                /\ upload'[u] = Retrying("first", n, Listed(database))
             \/ recorder'[n].phase = "unavailable" /\ upload'[u] = Idle
          /\ recorder'[n].phase # "unavailable" =>
                recorder'[n].memory = database /\ recorder'[n].sequence = 0
          /\ recorder'[n].phase = "unavailable" => recorder'[n].memory = <<>>
          /\ \A v \in Uploads \ {u} : upload'[v] = Idle
      BY <1>1, <1>2, <1>3, StartIs
    <2>2. n = 1
      BY <1>3
    <2> HIDE DEF n
    <2> QED
      BY <2>1, <2>2
  <1>6. TypeOK'
    <2>1. /\ page' \in [now : Nat, uploaded : Nat, opened : BOOLEAN]
          /\ recorder' \in Seq(Recorders) /\ started' \in Nat /\ overlapped' \in BOOLEAN
          /\ upload' \in [Uploads -> Chains]
          /\ \A v \in Uploads : ChainSound(upload[v])'
      BY <1>1, <1>2, <1>3, StartTypes
    <2> QED
      BY <1>1, <2>1 DEF TypeOK
  <1>7. recorder' = <<recorder'[1]>> /\ DOMAIN recorder' = {1}
    BY <1>5
  <1> QED
    BY <1>1, <1>2, <1>4, <1>5, <1>6, <1>7

LEMMA ResumeDoes ==
    ASSUME TypeOK, NEW u \in Uploads, Resume(u)
    PROVE  LET n == Current + 1
               new == recorder'[n]
           IN  /\ TypeOK'
               /\ upload[u] = Idle
               /\ n \in Nat /\ n \notin DOMAIN recorder /\ Current' = n
               /\ DOMAIN recorder' = DOMAIN recorder \cup {n}
               /\ \A k \in DOMAIN recorder : recorder'[k] = recorder[k]
               /\ \/ new.phase = "recording" /\ database = <<>> /\ upload'[u] = Idle
                  \/ /\ new.phase = "retrying" /\ Listed(database) # <<>>
                     /\ upload'[u] = Retrying("first", n, Listed(database))
                  \/ new.phase = "unavailable" /\ upload'[u] = Idle
               /\ new.phase # "unavailable" => new.memory = database /\ new.sequence = 0
               /\ new.phase = "unavailable" => new.memory = <<>>
               /\ \A v \in Uploads \ {u} : upload'[v] = upload[v]
               /\ page'.now = page.now
               /\ overlapped' = (overlapped \/ \E k \in DOMAIN recorder :
                                                  recorder[k].phase # "unavailable")
               /\ UNCHANGED <<database, rows, objects, captured, dropped>>
  <1> DEFINE p == [page EXCEPT !.uploaded = Cardinality(Verified), !.opened = FALSE]
  <1>1. /\ StartRecorder(u, recorder, p) /\ recorder # <<>> /\ upload[u] = Idle
        /\ UNCHANGED <<database, rows, objects, captured, dropped, failures>>
    BY DEF Resume, server
  <1>2. p \in [now : Nat, uploaded : Nat, opened : BOOLEAN] /\ p.now = page.now
    BY VerifiedIsFinite DEF TypeOK
  <1>3. recorder \in Seq(Recorders)
    BY DEF TypeOK
  <1>4. overlapped' = (overlapped \/ \E k \in DOMAIN recorder : recorder[k].phase # "unavailable")
    BY <1>1 DEF StartRecorder
  <1> HIDE DEF p
  <1> DEFINE n == Current + 1
  <1>5. n = Len(recorder) + 1
    BY DEF Current
  <1>6. /\ page' = p /\ recorder' = Append(recorder, recorder'[n]) /\ recorder'[n] \in Recorders
        /\ \/ recorder'[n].phase = "recording" /\ database = <<>> /\ upload'[u] = Idle
           \/ /\ recorder'[n].phase = "retrying" /\ Listed(database) # <<>>
              /\ upload'[u] = Retrying("first", n, Listed(database))
           \/ recorder'[n].phase = "unavailable" /\ upload'[u] = Idle
        /\ recorder'[n].phase # "unavailable" =>
              recorder'[n].memory = database /\ recorder'[n].sequence = 0
        /\ recorder'[n].phase = "unavailable" => recorder'[n].memory = <<>>
        /\ \A v \in Uploads \ {u} : upload'[v] = upload[v]
    BY <1>1, <1>2, <1>3, <1>5, StartIs
  <1>7. /\ page' \in [now : Nat, uploaded : Nat, opened : BOOLEAN]
        /\ recorder' \in Seq(Recorders) /\ started' \in Nat /\ overlapped' \in BOOLEAN
        /\ upload' \in [Uploads -> Chains]
        /\ \A v \in Uploads : ChainSound(upload[v])'
        /\ DOMAIN recorder' = DOMAIN recorder \cup {n} /\ n \notin DOMAIN recorder
        /\ \A k \in DOMAIN recorder : recorder'[k] = recorder[k]
    BY <1>1, <1>2, <1>3, <1>5, StartTypes
  <1>8. TypeOK'
    BY <1>1, <1>7 DEF TypeOK
  <1>9. n \in Nat /\ Current' = n
    BY <1>3, <1>5, <1>6 DEF Current
  <1> QED
    BY <1>1, <1>2, <1>4, <1>6, <1>7, <1>8, <1>9

LEMMA LoadTokens ==
    ASSUME TypeOK, NEW u \in Uploads, Load(u)
    PROVE  Tokens' \subseteq OfBuffer(database)
  <1>1. database \in ChunkMaps /\ Listed(database) \in Seq(Pieces) /\ OfBuffer(<<>>) = {}
    BY MemoriesAre, ListedIs, EmptyBuffer DEF OfBuffer
  <1>2. OfChain(Retrying("first", 1, Listed(database))) \subseteq OfBuffer(database)
    BY <1>1, RetryingTokens, ListedTokens
  <1>3. OfBuffer(recorder'[1].memory) \subseteq OfBuffer(database) /\ DOMAIN recorder' = {1}
    BY <1>1, LoadDoes
  <1>4. \A v \in Uploads : OfChain(upload'[v]) \subseteq OfBuffer(database)
    BY <1>2, LoadDoes, IdleTokens
  <1>5. database' = database
    BY LoadDoes
  <1> QED
    BY <1>3, <1>4, <1>5, TokensFrom

LEMMA ResumeTokens ==
    ASSUME TypeOK, NEW u \in Uploads, Resume(u)
    PROVE  Tokens' \subseteq Tokens
  <1>1. database \in ChunkMaps /\ Listed(database) \in Seq(Pieces) /\ OfBuffer(<<>>) = {}
    BY MemoriesAre, ListedIs, EmptyBuffer DEF OfBuffer
  <1>2. OfChain(Retrying("first", Current + 1, Listed(database))) \subseteq OfBuffer(database)
    BY <1>1, RetryingTokens, ListedTokens
  <1>3. /\ OfBuffer(recorder'[Current + 1].memory) \subseteq OfBuffer(database)
        /\ DOMAIN recorder' = DOMAIN recorder \cup {Current + 1}
        /\ \A k \in DOMAIN recorder : recorder'[k] = recorder[k]
    BY <1>1, ResumeDoes
  <1>4. \A k \in DOMAIN recorder' : OfBuffer(recorder'[k].memory) \subseteq Tokens
    BY <1>3, TokensAre
  <1>5. OfChain(upload'[u]) \subseteq Tokens
    BY <1>2, ResumeDoes, IdleTokens, TokensAre
  <1>6. \A v \in Uploads : OfChain(upload'[v]) \subseteq Tokens
    BY <1>5, ResumeDoes, TokensAre
  <1>7. database' = database
    BY ResumeDoes
  <1> QED
    BY <1>4, <1>6, <1>7, TokensAre, TokensFrom

LEMMA SocketOpensTokens ==
    ASSUME TypeOK, NEW u \in Uploads, SocketOpens(u)
    PROVE  Tokens' \subseteq Tokens
  <1> DEFINE memory == Loaded(recorder[Current].memory)
  <1>1. /\ Current \in DOMAIN recorder /\ database' = database /\ DOMAIN recorder' = DOMAIN recorder
        /\ upload'[u] = Retrying("open", Current, Listed(memory))
        /\ memory \in ChunkMaps /\ recorder'[Current].memory = memory
        /\ \A v \in Uploads \ {u} : upload'[v] = upload[v]
        /\ \A k \in DOMAIN recorder \ {Current} : recorder'[k] = recorder[k]
    BY SocketOpensDoes
  <1>2. OfBuffer(memory) \subseteq Tokens
    BY <1>1, MemoriesAre, LoadedTokens, TokensAre
  <1> HIDE DEF memory
  <1>3. OfChain(upload'[u]) \subseteq Tokens
    BY <1>1, <1>2, ListedIs, ListedTokens, RetryingTokens
  <1>4. \A k \in DOMAIN recorder' : OfBuffer(recorder'[k].memory) \subseteq Tokens
    BY <1>1, <1>2, TokensAre
  <1>5. \A v \in Uploads : OfChain(upload'[v]) \subseteq Tokens
    BY <1>1, <1>3, TokensAre
  <1> QED
    BY <1>1, <1>4, <1>5, TokensAre, TokensFrom

LEMMA HashedTokens ==
    ASSUME TypeOK, NEW u \in Uploads, Hashed(u)
    PROVE  Tokens' \subseteq Tokens
  <1> DEFINE t == upload[u]
             r == t.of
             chunk == [t.chunk EXCEPT !.start = recorder[r].start]
  <1>1. /\ r \in DOMAIN recorder /\ DOMAIN recorder' = DOMAIN recorder
        /\ chunk \in Chunks /\ chunk.content = t.chunk.content /\ chunk.end = t.chunk.end
        /\ upload'[u].sequence = t.sequence /\ upload'[u].rest = t.rest
        /\ upload'[u].chunk = chunk /\ t.kind # "none"
        /\ recorder'[r].memory = With(recorder[r].memory, t.sequence, chunk)
        /\ database' = With(database, t.sequence, chunk)
        /\ \A v \in Uploads \ {u} : upload'[v] = upload[v]
        /\ \A k \in DOMAIN recorder \ {r} : recorder'[k] = recorder[k]
    BY HashedDoes
  <1> HIDE DEF chunk
  <1>2. Token(t.sequence, chunk) = Token(t.sequence, t.chunk) /\ t.sequence \in Nat
    BY <1>1, ChainsAre DEF Token
  <1>3. Token(t.sequence, t.chunk) \in Tokens
    <2>1. Token(t.sequence, t.chunk) \in OfChain(t)
      BY <1>1 DEF OfChain
    <2> QED
      BY <2>1, TokensAre
  <1>4. OfChain(upload'[u]) \subseteq OfChain(t)
    BY <1>1, <1>2 DEF OfChain
  <1>5. \A v \in Uploads : OfChain(upload'[v]) \subseteq Tokens
    BY <1>1, <1>4, TokensAre
  <1>6. OfBuffer(database') \subseteq Tokens
    BY <1>1, <1>2, <1>3, WithTokens, MemoriesAre, TokensAre
  <1>7. OfBuffer(recorder'[r].memory) \subseteq Tokens
    BY <1>1, <1>2, <1>3, WithTokens, MemoriesAre, TokensAre
  <1>8. \A k \in DOMAIN recorder' : OfBuffer(recorder'[k].memory) \subseteq Tokens
    BY <1>1, <1>7, TokensAre
  <1> QED
    BY <1>5, <1>6, <1>8, TokensFrom

LEMMA DropFromBufferTokens ==
    ASSUME TypeOK, NEW u \in Uploads, DropFromBuffer(u)
    PROVE  /\ Tokens' \subseteq Tokens
           /\ OfChain(upload'[u]) \subseteq OfChain(upload[u])
  <1> DEFINE t == upload[u]
             r == t.of
  <1>1. /\ r \in DOMAIN recorder /\ DOMAIN recorder' = DOMAIN recorder
        /\ t.kind # "none" /\ t.sequence \in Nat /\ t.rest \in Seq(Pieces)
        /\ recorder'[r].memory = Without(recorder[r].memory, t.sequence)
        /\ database' = Without(database, t.sequence)
        /\ \A v \in Uploads \ {u} : upload'[v] = upload[v]
        /\ \A k \in DOMAIN recorder \ {r} : recorder'[k] = recorder[k]
    BY DropFromBufferDoes, ChainsAre
  <1>2. OfChain(upload'[u]) \subseteq OfChain(t)
    <2>1. upload'[u] = Retrying(t.kind, r, t.rest)
      BY DEF DropFromBuffer, TypeOK
    <2>2. CASE t.rest = <<>>
      BY <2>1, <2>2, RetryingNothing, IdleTokens
    <2>3. CASE t.rest # <<>>
      <3>1. t.kind \in {"first", "open"}
        BY <1>1, <2>3, ChainsAre DEF ChainSound, Chains
      <3>2. OfChain(upload'[u]) \subseteq OfRest(t.rest)
        BY <1>1, <2>1, <3>1, RetryingTokens
      <3> QED
        BY <1>1, <3>2 DEF OfChain
    <2> QED
      BY <2>2, <2>3
  <1>3. \A v \in Uploads : OfChain(upload'[v]) \subseteq Tokens
    BY <1>1, <1>2, TokensAre
  <1>4. OfBuffer(database') \subseteq Tokens
    BY <1>1, WithoutTokens, MemoriesAre, TokensAre
  <1>5. OfBuffer(recorder'[r].memory) \subseteq Tokens
    BY <1>1, WithoutTokens, MemoriesAre, TokensAre
  <1>6. \A k \in DOMAIN recorder' : OfBuffer(recorder'[k].memory) \subseteq Tokens
    BY <1>1, <1>5, TokensAre
  <1> QED
    BY <1>2, <1>3, <1>4, <1>6, TokensFrom

\* A chain that goes on with its request, or is given up.
LEMMA RejectedTokens ==
    ASSUME TypeOK, NEW u \in Uploads, upload[u].step # "idle", Rejected(u), UNCHANGED database
    PROVE  Tokens' \subseteq Tokens
  BY RejectedDoes, IdleTokens, OneChainTokens

LEMMA RequestTokens ==
    ASSUME TypeOK, NEW u \in Uploads,
           \/ RequestIntent(u) \/ IntentFails(u) \/ IntentNotCommitted(u) \/ Put(u) \/ PutFails(u)
    PROVE  Tokens' \subseteq Tokens
  <1>1. ASSUME UNCHANGED <<database, recorder>>,
               \A v \in Uploads \ {u} : upload'[v] = upload[v],
               upload'[u].kind = upload[u].kind, upload'[u].sequence = upload[u].sequence,
               upload'[u].chunk = upload[u].chunk, upload'[u].rest = upload[u].rest
        PROVE  Tokens' \subseteq Tokens
    <2>1. OfChain(upload'[u]) = OfChain(upload[u])
      BY <1>1 DEF OfChain
    <2> QED
      BY <1>1, <2>1, OneChainTokens
  <1>2. CASE RequestIntent(u)
    <2>1. CASE Rejected(u)
      BY <1>2, <2>1, RequestIntentDoes, RejectedTokens
    <2>2. CASE ~Rejected(u)
      BY <1>1, <1>2, <2>2, RequestIntentDoes
    <2> QED
      BY <2>1, <2>2
  <1>3. CASE IntentFails(u)
    BY <1>3, IntentFailsDoes, RejectedTokens
  <1>4. CASE IntentNotCommitted(u)
    BY <1>1, <1>4, IntentNotCommittedDoes
  <1>5. CASE Put(u)
    BY <1>1, <1>5, PutDoes
  <1>6. CASE PutFails(u)
    BY <1>6, PutFailsDoes, RejectedTokens
  <1> QED
    BY <1>2, <1>3, <1>4, <1>5, <1>6

\* A capture adds one chunk, under the sequence that its recorder has read.
LEMMA CaptureTokens ==
    ASSUME TypeOK, NEW u \in Uploads, NEW r \in DOMAIN recorder, Capture(u, r)
    PROVE  Tokens' \subseteq Tokens \cup
             {Token(recorder[r].sequence + 1, Chunk(captured + 1, 0, page.now + 1))}
  <1> DEFINE new == Token(recorder[r].sequence + 1, Chunk(captured + 1, 0, page.now + 1))
             All == Tokens \cup {new}
  <1>1. OfChain(upload'[u]) \subseteq {new}
    <2>1. upload'[u].rest = <<>>
      BY CaptureDoes
    <2>2. OfRest(upload'[u].rest) = {}
      BY <2>1 DEF OfRest
    <2> QED
      BY <2>2, CaptureDoes DEF OfChain
  <1> HIDE DEF new
  <1>2. OfBuffer(database') \subseteq All
    BY CaptureDoes, TokensAre
  <1>3. \A k \in DOMAIN recorder' : OfBuffer(recorder'[k].memory) \subseteq All
    BY CaptureDoes, TokensAre
  <1>4. \A v \in Uploads : OfChain(upload'[v]) \subseteq All
    BY <1>1, CaptureDoes, TokensAre
  <1> HIDE DEF All
  <1>5. Tokens' \subseteq All
    BY <1>2, <1>3, <1>4, TokensFrom
  <1> QED
    BY <1>5 DEF All, new

-----------------------------------------------------------------------------
(* The server's record is in capture order *)

Issued == {Token(m, rows[m].chunk) : m \in DOMAIN rows}

\* No two chunks have the same content, so they also have the same end.
Contents ==
    /\ \A x \in Tokens \cup Issued : x.content \in 1..captured
    /\ \A x, y \in Tokens \cup Issued : x.content = y.content => x.end = y.end

\* The server may still take it, under this sequence, or will never.
Past(x) == x.sequence <= Len(rows) + 1

\* Of two chunks the one that was recorded first ends first, or it is the one that
\* comes first, or the server can no longer get it after the other one.
InOrder ==
    \A x, y \in Tokens : x.content < y.content =>
        x.end < y.end \/ x.sequence <= y.sequence \/ Past(x)

AfterRows ==
    \A x \in Tokens, y \in Issued : x.content < y.content =>
        x.end < y.end \/ x.sequence <= Len(rows)

RowsRise ==
    \A m, n \in DOMAIN rows :
        /\ rows[m].chunk.start < rows[m].chunk.end
        /\ m < n => rows[m].chunk.end <= rows[n].chunk.start

RecordInv == Contents /\ InOrder /\ AfterRows /\ RowsRise /\ ChunksInCaptureOrder

LEMMA RowsAre ==
    ASSUME TypeOK
    PROVE  /\ Len(rows) \in Nat /\ DOMAIN rows = 1..Len(rows)
           /\ \A m \in DOMAIN rows : /\ rows[m].chunk \in Chunks
                                     /\ rows[m].chunk.content \in Nat
                                     /\ rows[m].chunk.start \in Nat /\ rows[m].chunk.end \in Nat
  <1>1. rows \in Seq(Rows)
    BY DEF TypeOK
  <1>2. \A m \in DOMAIN rows : rows[m] \in Rows
    BY <1>1
  <1>3. \A row \in Rows : row.chunk \in Chunks
    BY DEF Rows
  <1>4. \A c \in Chunks : c.content \in Nat /\ c.start \in Nat /\ c.end \in Nat
    BY DEF Chunks
  <1> QED
    BY <1>1, <1>2, <1>3, <1>4

\* A step that makes no chunk and issues none.
LEMMA RecordKept ==
    ASSUME TypeOK, RecordInv, Tokens' \subseteq Tokens, captured' = captured,
           Len(rows') = Len(rows), DOMAIN rows' = DOMAIN rows,
           \A m \in DOMAIN rows : rows'[m].chunk = rows[m].chunk
    PROVE  RecordInv'
  <1>1. Issued' = Issued
    BY DEF Issued
  <1>2. Contents'
    BY <1>1 DEF Contents, RecordInv
  <1>3. InOrder'
    BY DEF InOrder, Past, RecordInv
  <1>4. AfterRows'
    BY <1>1 DEF AfterRows, RecordInv
  <1>5. RowsRise' /\ ChunksInCaptureOrder'
    BY DEF RowsRise, ChunksInCaptureOrder, RecordInv
  <1> QED
    BY <1>2, <1>3, <1>4, <1>5 DEF RecordInv

\* A chunk in hand is taken for the next sequence.
LEMMA RecordIssued ==
    ASSUME TypeOK, RecordInv, Tokens' \subseteq Tokens, captured' = captured,
           NEW n \in Nat, NEW chunk \in Chunks, Token(n, chunk) \in Tokens,
           Acceptable(n, chunk), rows' = Append(rows, Row(chunk))
    PROVE  RecordInv'
  <1> DEFINE new == Token(n, chunk)
  <1>1. /\ Len(rows) \in Nat /\ DOMAIN rows = 1..Len(rows)
        /\ n = Len(rows) + 1 /\ Len(rows') = n /\ DOMAIN rows' = 1..n
        /\ rows'[n].chunk = chunk
        /\ \A m \in DOMAIN rows : rows'[m] = rows[m]
    <2>1. n = Len(rows) + 1
      BY DEF Acceptable
    <2>2. rows' \in Seq(Rows) /\ Len(rows') = Len(rows) + 1 /\ rows'[Len(rows')] = Row(chunk)
          /\ \A m \in DOMAIN rows : m \in DOMAIN rows' /\ rows'[m] = rows[m]
      BY IssuedRows
    <2>3. Row(chunk).chunk = chunk
      BY DEF Row
    <2> QED
      BY <2>1, <2>2, <2>3, RowsAre
  <1>2. new.sequence = n /\ new.content = chunk.content /\ new.end = chunk.end
        /\ chunk.content \in Nat /\ chunk.start \in Nat /\ chunk.end \in Nat
    BY DEF Token, Chunks
  <1>3. Issued' \subseteq Issued \cup {new}
    <2>1. ASSUME NEW m \in DOMAIN rows'
          PROVE  Token(m, rows'[m].chunk) \in Issued \cup {new}
      <3>1. CASE m = n
        BY <1>1, <3>1
      <3>2. CASE m # n
        <4>1. m \in DOMAIN rows
          BY <1>1, <2>1, <3>2
        <4> QED
          BY <1>1, <4>1 DEF Issued
      <3> QED
        BY <3>1, <3>2
    <2> QED
      BY <2>1 DEF Issued
  <1>4. new \in Tokens
    OBVIOUS
  <1> HIDE DEF new
  <1>5. Contents'
    BY <1>3, <1>4 DEF Contents, RecordInv
  <1>6. \A x \in Tokens : x.sequence \in Nat /\ x.end \in Nat /\ x.content \in Nat
    BY TokenTypes
  <1>7. InOrder'
    <2>1. SUFFICES ASSUME NEW x \in Tokens, NEW y \in Tokens, x.content < y.content
                   PROVE  x.end < y.end \/ x.sequence <= y.sequence \/ x.sequence <= Len(rows') + 1
      BY DEF InOrder, Past
    <2>2. x.end < y.end \/ x.sequence <= y.sequence \/ x.sequence <= Len(rows) + 1
      BY <2>1 DEF RecordInv, InOrder, Past
    <2> QED
      BY <1>1, <1>6, <2>2
  <1>8. AfterRows'
    <2>1. SUFFICES ASSUME NEW x \in Tokens, NEW y \in Issued \cup {new}, x.content < y.content
                   PROVE  x.end < y.end \/ x.sequence <= Len(rows')
      BY <1>3 DEF AfterRows
    <2>2. CASE y \in Issued
      <3>1. x.end < y.end \/ x.sequence <= Len(rows)
        BY <2>1, <2>2 DEF RecordInv, AfterRows
      <3> QED
        BY <1>1, <1>6, <3>1
    <2>3. CASE y = new
      <3>1. x.end < y.end \/ x.sequence <= y.sequence \/ x.sequence <= Len(rows) + 1
        BY <1>4, <2>1, <2>3 DEF RecordInv, InOrder, Past
      <3> QED
        BY <1>1, <1>2, <2>3, <3>1
    <2> QED
      BY <2>1, <2>2, <2>3
  <1>9. ASSUME NEW m \in DOMAIN rows
        PROVE  /\ rows[m].chunk.end <= chunk.start
               /\ rows[m].chunk.end < chunk.end
    <2>1. rows # <<>> /\ Len(rows) \in DOMAIN rows
      BY <1>1, <1>9
    <2>2. chunk.start < chunk.end /\ rows[Len(rows)].chunk.end <= chunk.start
      <3>1. chunk.start < chunk.end /\ chunk.start >= rows[Len(rows)].chunk.end
        BY <2>1 DEF Acceptable
      <3> QED
        BY <1>2, <2>1, <3>1, RowsAre
    <2>3. CASE m = Len(rows)
      BY <1>2, <2>1, <2>2, <2>3, RowsAre
    <2>4. CASE m # Len(rows)
      <3>1. m < Len(rows)
        BY <1>1, <1>9, <2>4
      <3>2. /\ rows[m].chunk.end <= rows[Len(rows)].chunk.start
            /\ rows[Len(rows)].chunk.start < rows[Len(rows)].chunk.end
        BY <1>9, <2>1, <3>1 DEF RecordInv, RowsRise
      <3>3. /\ rows[m].chunk.end \in Nat
            /\ rows[Len(rows)].chunk.start \in Nat /\ rows[Len(rows)].chunk.end \in Nat
        BY <1>9, <2>1, RowsAre
      <3> QED
        BY <1>2, <2>2, <3>2, <3>3
    <2> QED
      BY <2>3, <2>4
  <1>10. ASSUME NEW m \in DOMAIN rows
         PROVE  rows[m].chunk.content < chunk.content
    <2> DEFINE y == Token(m, rows[m].chunk)
    <2>1. /\ y \in Issued /\ y.content = rows[m].chunk.content /\ y.end = rows[m].chunk.end
          /\ y.content \in Nat /\ y.end \in Nat
      BY <1>10, RowsAre DEF Issued, Token
    <2> HIDE DEF y
    <2>2. y.end < new.end
      BY <1>2, <1>9, <1>10, <2>1
    <2>3. y.content # new.content
      BY <1>2, <1>4, <2>1, <2>2 DEF RecordInv, Contents
    <2>4. ~(new.content < y.content)
      <3>1. SUFFICES ASSUME new.content < y.content PROVE FALSE
        OBVIOUS
      <3>2. new.end < y.end \/ new.sequence <= Len(rows)
        BY <1>4, <2>1, <3>1 DEF RecordInv, AfterRows
      <3> QED
        BY <1>1, <1>2, <2>1, <2>2, <3>2
    <2> QED
      BY <1>2, <2>1, <2>3, <2>4
  <1>11. /\ \A m \in DOMAIN rows : m < n
         /\ DOMAIN rows' = DOMAIN rows \cup {n} /\ n \notin DOMAIN rows
    BY <1>1
  <1>12. chunk.start < chunk.end
    BY DEF Acceptable
  <1>13. RowsRise'
    <2>1. SUFFICES ASSUME NEW m \in DOMAIN rows', NEW k \in DOMAIN rows'
                   PROVE  /\ rows'[m].chunk.start < rows'[m].chunk.end
                          /\ m < k => rows'[m].chunk.end <= rows'[k].chunk.start
      BY DEF RowsRise
    <2>2. rows'[m].chunk.start < rows'[m].chunk.end
      <3>1. CASE m = n
        BY <1>1, <1>12, <3>1
      <3>2. CASE m \in DOMAIN rows
        BY <1>1, <3>2 DEF RecordInv, RowsRise
      <3> QED
        BY <1>11, <3>1, <3>2
    <2>3. ASSUME m < k
          PROVE  rows'[m].chunk.end <= rows'[k].chunk.start
      <3>1. m \in DOMAIN rows
        BY <1>1, <2>3
      <3>2. CASE k = n
        BY <1>1, <1>9, <3>1, <3>2
      <3>3. CASE k \in DOMAIN rows
        BY <1>1, <2>3, <3>1, <3>3 DEF RecordInv, RowsRise
      <3> QED
        BY <1>11, <3>2, <3>3
    <2> QED
      BY <2>2, <2>3
  <1>14. ChunksInCaptureOrder'
    <2>1. SUFFICES ASSUME NEW m \in DOMAIN rows', NEW k \in DOMAIN rows', m < k
                   PROVE  /\ rows'[m].chunk.content < rows'[k].chunk.content
                          /\ rows'[m].chunk.end <= rows'[k].chunk.start
      BY DEF ChunksInCaptureOrder
    <2>2. m \in DOMAIN rows
      BY <1>1, <2>1
    <2>3. CASE k = n
      BY <1>1, <1>9, <1>10, <2>2, <2>3
    <2>4. CASE k \in DOMAIN rows
      BY <1>1, <2>1, <2>2, <2>4 DEF RecordInv, ChunksInCaptureOrder
    <2> QED
      BY <1>11, <2>3, <2>4
  <1> QED
    BY <1>5, <1>7, <1>8, <1>13, <1>14 DEF RecordInv

\* A new chunk ends last, and its recorder has read a sequence that is not below one
\* which the server may still get and which ends as late.
LEMMA RecordCaptured ==
    ASSUME TypeOK, RecordInv, NEW n \in Nat,
           Tokens' \subseteq Tokens \cup {Token(n, Chunk(captured + 1, 0, page.now + 1))},
           captured' = captured + 1, UNCHANGED rows,
           \A x \in Tokens : x.end <= page.now \/ Past(x) \/ x.sequence <= n
    PROVE  RecordInv'
  <1> DEFINE new == Token(n, Chunk(captured + 1, 0, page.now + 1))
  <1>1. new.sequence = n /\ new.content = captured + 1 /\ new.end = page.now + 1
        /\ captured \in Nat /\ page.now \in Nat
    BY DEF Token, Chunk, TypeOK
  <1>2. Tokens' \subseteq Tokens \cup {new} /\ Issued' = Issued
    BY DEF Issued
  <1> HIDE DEF new
  <1>3. \A x \in Tokens \cup Issued : x.content \in 1..captured
    BY DEF RecordInv, Contents
  <1>4. Contents'
    <2>1. \A x \in (Tokens \cup Issued)' : x.content \in 1..captured'
      BY <1>1, <1>2, <1>3
    <2>2. ASSUME NEW x \in (Tokens \cup Issued)', NEW y \in (Tokens \cup Issued)',
                 x.content = y.content
          PROVE  x.end = y.end
      <3>1. x \in Tokens \cup Issued \/ x = new
        BY <1>2, <2>2
      <3>2. y \in Tokens \cup Issued \/ y = new
        BY <1>2, <2>2
      <3>3. \A z \in Tokens \cup Issued : z.content # new.content
        BY <1>1, <1>3
      <3> QED
        BY <2>2, <3>1, <3>2, <3>3 DEF RecordInv, Contents
    <2> QED
      BY <2>1, <2>2 DEF Contents
  <1>5. InOrder'
    <2>1. SUFFICES ASSUME NEW x \in Tokens \cup {new}, NEW y \in Tokens \cup {new},
                          x.content < y.content
                   PROVE  x.end < y.end \/ x.sequence <= y.sequence \/ Past(x)
      BY <1>2 DEF InOrder, Past
    <2>2. x # new
      BY <1>1, <1>3, <2>1
    <2>3. CASE y = new
      <3>1. x.end <= page.now \/ Past(x) \/ x.sequence <= n
        BY <2>1, <2>2
      <3>2. x.end \in Nat
        BY <2>1, <2>2, TokenTypes
      <3> QED
        BY <1>1, <2>3, <3>1, <3>2
    <2>4. CASE y # new
      BY <2>1, <2>2, <2>4 DEF RecordInv, InOrder
    <2> QED
      BY <2>3, <2>4
  <1>6. AfterRows'
    <2>1. SUFFICES ASSUME NEW x \in Tokens \cup {new}, NEW y \in Issued, x.content < y.content
                   PROVE  x.end < y.end \/ x.sequence <= Len(rows)
      BY <1>2 DEF AfterRows
    <2>2. x # new
      BY <1>1, <1>3, <2>1
    <2> QED
      BY <2>1, <2>2 DEF RecordInv, AfterRows
  <1>7. RowsRise' /\ ChunksInCaptureOrder'
    BY DEF RecordInv, RowsRise, ChunksInCaptureOrder
  <1> QED
    BY <1>4, <1>5, <1>6, <1>7 DEF RecordInv

-----------------------------------------------------------------------------
(* Who may hold a chunk that the server can still get, and that ends after now: *)
(* one that an earlier page recorded, whose clock ran further.               *)

Waiting == {x \in Tokens : ~(x.end <= page.now) /\ ~Past(x)}

InDatabase == \A x \in Waiting : x.sequence \in DOMAIN database

\* A recorder takes its next sequence after theirs.
Recordings ==
    \A r \in DOMAIN recorder : recorder[r].phase = "recording" =>
        \A x \in Waiting : x.sequence <= recorder[r].sequence

\* The sequences that a chain has in hand.
Ahead(t) == {t.sequence} \cup {t.rest[k].sequence : k \in DOMAIN t.rest}

LateChain(t) ==
    /\ t.step = "hash" => \A x \in Waiting : x.sequence <= t.sequence
    /\ t.kind = "first" => \A x \in Waiting : \/ x.sequence <= recorder[t.of].sequence
                                              \/ x.sequence \in Ahead(t)
    /\ t.step \in {"put", "remove"} => t.sequence <= Len(rows) + 1

LateInv ==
    /\ InDatabase /\ Recordings
    /\ \A u \in Uploads : LateChain(upload[u])

LEMMA WaitingKept ==
    ASSUME TypeOK, TypeOK', Tokens' \subseteq Tokens, page.now <= page'.now, Len(rows) <= Len(rows')
    PROVE  Waiting' \subseteq Waiting
  <1>1. SUFFICES ASSUME NEW x \in Tokens, ~(x.end <= page'.now), ~(x.sequence <= Len(rows') + 1)
                 PROVE  ~(x.end <= page.now) /\ ~(x.sequence <= Len(rows) + 1)
    BY DEF Waiting, Past
  <1>2. x.end \in Nat /\ x.sequence \in Nat
    BY TokenTypes
  <1>3. page.now \in Nat /\ page'.now \in Nat /\ Len(rows) \in Nat /\ Len(rows') \in Nat
    BY DEF TypeOK
  <1> QED
    BY <1>1, <1>2, <1>3

\* A step of one chain that leaves the recorders ahead of what waits.
LEMMA LateKept ==
    ASSUME TypeOK, TypeOK', LateInv, Waiting' \subseteq Waiting, Len(rows) <= Len(rows'),
           \A x \in Waiting' : x.sequence \in DOMAIN database => x.sequence \in DOMAIN database',
           DOMAIN recorder' = DOMAIN recorder,
           \A k \in DOMAIN recorder : \A x \in Waiting' :
              /\ x.sequence <= recorder[k].sequence => x.sequence <= recorder'[k].sequence
              /\ recorder'[k].phase = "recording" /\ recorder[k].phase # "recording" =>
                    x.sequence <= recorder'[k].sequence,
           NEW u \in Uploads, \A v \in Uploads \ {u} : upload'[v] = upload[v],
           LateChain(upload[u])'
    PROVE  LateInv'
  <1>1. InDatabase'
    BY DEF InDatabase, LateInv
  <1>2. Recordings'
    BY DEF Recordings, LateInv
  <1>3. ASSUME NEW v \in Uploads
        PROVE  LateChain(upload[v])'
    <2>1. CASE v = u
      BY <2>1
    <2>2. CASE v # u
      <3>1. upload'[v] = upload[v] /\ LateChain(upload[v])
        BY <2>2 DEF LateInv
      <3>2. upload[v].step = "hash" => \A x \in Waiting' : x.sequence <= upload[v].sequence
        BY <3>1 DEF LateChain
      <3>3. upload[v].kind = "first" =>
              \A x \in Waiting' : \/ x.sequence <= recorder'[upload[v].of].sequence
                                  \/ x.sequence \in Ahead(upload[v])
        <4>1. SUFFICES ASSUME upload[v].kind = "first"
                       PROVE  \A x \in Waiting' : \/ x.sequence <= recorder'[upload[v].of].sequence
                                                  \/ x.sequence \in Ahead(upload[v])
          OBVIOUS
        <4>2. upload[v].of \in DOMAIN recorder
          BY <4>1, ChainsAre
        <4> QED
          BY <3>1, <4>1, <4>2 DEF LateChain
      <3>4. upload[v].step \in {"put", "remove"} => upload[v].sequence <= Len(rows') + 1
        <4>1. upload[v].sequence \in Nat /\ Len(rows) \in Nat /\ Len(rows') \in Nat
          BY ChainsAre DEF TypeOK
        <4> QED
          BY <3>1, <4>1 DEF LateChain
      <3> QED
        BY <3>1, <3>2, <3>3, <3>4 DEF LateChain
    <2> QED
      BY <2>1, <2>2
  <1> QED
    BY <1>1, <1>2, <1>3 DEF LateInv

LEMMA LateIdle ==
    ASSUME NEW u \in Uploads, upload'[u] = Idle
    PROVE  LateChain(upload[u])'
  BY IdleChain DEF LateChain

\* A retry has in hand all that it is given.
LEMMA AheadOfList ==
    ASSUME NEW list \in Seq(Pieces), list # <<>>, NEW t,
           t.sequence = list[1].sequence, t.rest = Tail(list)
    PROVE  \A k \in DOMAIN list : list[k].sequence \in Ahead(t)
  <1>1. SUFFICES ASSUME NEW k \in DOMAIN list
                 PROVE  list[k].sequence \in Ahead(t)
    OBVIOUS
  <1>2. CASE k = 1
    BY <1>2 DEF Ahead
  <1>3. CASE k # 1
    <2>1. k - 1 \in DOMAIN t.rest /\ t.rest[k - 1] = list[k]
      BY <1>1, <1>3
    <2> QED
      BY <2>1 DEF Ahead
  <1> QED
    BY <1>2, <1>3

\* A first retry that starts has in hand what the database has.
LEMMA LateFirst ==
    ASSUME TypeOK, LateInv, NEW u \in Uploads, NEW r, Listed(database) # <<>>,
           upload'[u] = Retrying("first", r, Listed(database)),
           Waiting' \subseteq Waiting \/ Tokens' \subseteq OfBuffer(database)
    PROVE  LateChain(upload[u])'
  <1> DEFINE list == Listed(database)
             t == upload'[u]
  <1>1. list \in Seq(Pieces) /\ list # <<>>
    BY ListedIs, MemoriesAre
  <1>2. \A n \in DOMAIN database : \E k \in DOMAIN list : list[k].sequence = n
    BY ListedIs, MemoriesAre
  <1> HIDE DEF list
  <1>3. t = Retrying("first", r, list)
    BY DEF list
  <1>4. t.kind = "first" /\ t.step = "intent" /\ t.sequence = list[1].sequence
    BY <1>1, <1>3, RetryingIs
  <1>5. t.rest = Tail(list)
    BY <1>1, <1>3 DEF Retrying, Idle
  <1> HIDE DEF t
  <1>6. \A k \in DOMAIN list : list[k].sequence \in Ahead(t)
    BY <1>1, <1>4, <1>5, AheadOfList
  <1>7. \A x \in Waiting' : x.sequence \in DOMAIN database
    <2>1. CASE Waiting' \subseteq Waiting
      BY <2>1 DEF LateInv, InDatabase
    <2>2. CASE Tokens' \subseteq OfBuffer(database)
      BY <2>2 DEF Waiting, OfBuffer, Token
    <2> QED
      BY <2>1, <2>2
  <1>8. \A x \in Waiting' : x.sequence \in Ahead(t)
    BY <1>2, <1>6, <1>7
  <1> QED
    BY <1>4, <1>8 DEF LateChain, t

LEMMA LoadLate ==
    ASSUME TypeOK, LateInv, NEW u \in Uploads, Load(u)
    PROVE  LateInv'
  <1>1. Tokens' \subseteq OfBuffer(database) /\ database' = database
    BY LoadTokens, LoadDoes
  <1>2. \A x \in Waiting' : x.sequence \in DOMAIN database
    BY <1>1 DEF Waiting, OfBuffer, Token
  <1>3. InDatabase'
    BY <1>1, <1>2 DEF InDatabase
  <1>4. Recordings'
    <2>1. DOMAIN recorder' = {1} /\ (recorder'[1].phase = "recording" => database = <<>>)
      BY LoadDoes
    <2> QED
      BY <1>2, <2>1, EmptyBuffer DEF Recordings
  <1>5. LateChain(upload[u])'
    BY <1>1, LoadDoes, LateIdle, LateFirst
  <1>6. \A v \in Uploads \ {u} : LateChain(upload[v])'
    BY LoadDoes, LateIdle
  <1> QED
    BY <1>3, <1>4, <1>5, <1>6 DEF LateInv

LEMMA ResumeLate ==
    ASSUME TypeOK, LateInv, NEW u \in Uploads, Resume(u)
    PROVE  LateInv'
  <1> DEFINE n == Current + 1
  <1>1. /\ TypeOK' /\ UNCHANGED <<database, rows>> /\ page'.now = page.now
        /\ DOMAIN recorder' = DOMAIN recorder \cup {n}
        /\ \A k \in DOMAIN recorder : recorder'[k] = recorder[k]
        /\ recorder'[n].phase = "recording" => database = <<>>
        /\ \A v \in Uploads \ {u} : upload'[v] = upload[v]
    BY ResumeDoes
  <1>2. Waiting' \subseteq Waiting
    <2>1. page.now <= page'.now /\ Len(rows) <= Len(rows')
      BY <1>1 DEF TypeOK
    <2> QED
      BY <1>1, <2>1, ResumeTokens, WaitingKept
  <1> HIDE DEF n
  <1>3. InDatabase'
    BY <1>1, <1>2 DEF LateInv, InDatabase
  <1>4. Recordings'
    <2>1. database = <<>> => Waiting' = {}
      BY <1>2, EmptyBuffer DEF LateInv, InDatabase
    <2> QED
      BY <1>1, <1>2, <2>1 DEF LateInv, Recordings
  <1>5. LateChain(upload[u])'
    BY <1>2, ResumeDoes, LateIdle, LateFirst
  <1>6. ASSUME NEW v \in Uploads \ {u}
        PROVE  LateChain(upload[v])'
    <2>1. upload'[v] = upload[v] /\ LateChain(upload[v])
      BY <1>1 DEF LateInv
    <2>2. upload[v].kind = "first" => recorder'[upload[v].of] = recorder[upload[v].of]
      BY <1>1, ChainsAre
    <2> QED
      BY <1>1, <1>2, <2>1, <2>2 DEF LateChain
  <1> QED
    BY <1>3, <1>4, <1>5, <1>6 DEF LateInv

LEMMA SocketOpensLate ==
    ASSUME TypeOK, LateInv, NEW u \in Uploads, SocketOpens(u)
    PROVE  LateInv'
  <1> DEFINE list == Listed(Loaded(recorder[Current].memory))
  <1>1. /\ TypeOK' /\ UNCHANGED <<database, rows>> /\ page'.now = page.now
        /\ DOMAIN recorder' = DOMAIN recorder
        /\ \A k \in DOMAIN recorder : /\ recorder'[k].sequence = recorder[k].sequence
                                      /\ recorder'[k].phase = recorder[k].phase
        /\ \A v \in Uploads \ {u} : upload'[v] = upload[v]
        /\ upload'[u] = Retrying("open", Current, list)
        /\ list \in Seq(Pieces)
    BY SocketOpensDoes, ListedIs
  <1> HIDE DEF list
  <1>2. page.now <= page'.now /\ Len(rows) <= Len(rows')
    BY <1>1 DEF TypeOK
  <1>3. Waiting' \subseteq Waiting
    BY <1>1, <1>2, SocketOpensTokens, WaitingKept
  <1>4. LateChain(upload[u])'
    <2>1. CASE list = <<>>
      BY <1>1, <2>1, RetryingNothing, LateIdle
    <2>2. CASE list # <<>>
      <3>1. upload'[u].kind = "open" /\ upload'[u].step = "intent"
        BY <1>1, <2>2, RetryingIs
      <3> QED
        BY <3>1 DEF LateChain
    <2> QED
      BY <2>1, <2>2
  <1> QED
    BY <1>1, <1>2, <1>3, <1>4, LateKept

LEMMA HashedLate ==
    ASSUME TypeOK, LateInv, NEW u \in Uploads, Hashed(u)
    PROVE  LateInv'
  <1> DEFINE n == upload[u].sequence
             r == upload[u].of
             chunk == [upload[u].chunk EXCEPT !.start = recorder[r].start]
  <1>1. /\ TypeOK' /\ UNCHANGED <<page, rows>>
        /\ upload[u].step = "hash" /\ upload[u].kind = "chunk"
        /\ DOMAIN recorder' = DOMAIN recorder /\ recorder'[r].sequence = n
        /\ recorder'[r].phase = recorder[r].phase
        /\ \A k \in DOMAIN recorder \ {r} : recorder'[k] = recorder[k]
        /\ database' = With(database, n, chunk)
        /\ upload'[u].kind = "chunk" /\ upload'[u].step = "intent"
        /\ \A v \in Uploads \ {u} : upload'[v] = upload[v]
    BY HashedDoes
  <1> HIDE DEF chunk
  <1>2. page.now <= page'.now /\ Len(rows) <= Len(rows')
    BY <1>1 DEF TypeOK
  <1>3. Waiting' \subseteq Waiting
    BY <1>1, <1>2, HashedTokens, WaitingKept
  <1>4. \A x \in Waiting' : x.sequence <= n
    BY <1>1, <1>3 DEF LateInv, LateChain
  <1>5. LateChain(upload[u])'
    BY <1>1 DEF LateChain
  <1>6. \A k \in DOMAIN recorder : \A x \in Waiting' :
              /\ x.sequence <= recorder[k].sequence => x.sequence <= recorder'[k].sequence
              /\ recorder'[k].phase = "recording" /\ recorder[k].phase # "recording" =>
                    x.sequence <= recorder'[k].sequence
    BY <1>1, <1>4
  <1>7. DOMAIN database \subseteq DOMAIN database'
    BY <1>1 DEF With
  <1> QED
    BY <1>1, <1>2, <1>3, <1>5, <1>6, <1>7, LateKept

LEMMA CaptureLate ==
    ASSUME TypeOK, LateInv, NEW u \in Uploads, NEW r \in DOMAIN recorder, Capture(u, r)
    PROVE  LateInv'
  <1>1. /\ TypeOK' /\ UNCHANGED <<recorder, database, rows>> /\ page'.now = page.now + 1
        /\ recorder[r].phase = "recording"
        /\ upload'[u].kind = "chunk" /\ upload'[u].step = "hash"
        /\ upload'[u].sequence = recorder[r].sequence + 1
        /\ \A v \in Uploads \ {u} : upload'[v] = upload[v]
    BY CaptureDoes
  <1>2. page.now \in Nat /\ Len(rows) <= Len(rows')
    BY <1>1 DEF TypeOK
  <1>3. Waiting' \subseteq Waiting
    <2>1. SUFFICES ASSUME NEW x \in Tokens', ~(x.end <= page.now + 1), ~(x.sequence <= Len(rows) + 1)
                   PROVE  x \in Tokens /\ ~(x.end <= page.now)
      BY <1>1 DEF Waiting, Past
    <2>2. Token(recorder[r].sequence + 1, Chunk(captured + 1, 0, page.now + 1)).end = page.now + 1
      BY DEF Token, Chunk
    <2>3. x \in Tokens
      BY <1>2, <2>1, <2>2, CaptureTokens
    <2>4. x.end \in Nat
      BY <2>3, TokenTypes
    <2> QED
      BY <1>2, <2>1, <2>3, <2>4
  <1>4. LateChain(upload[u])'
    <2>1. ASSUME NEW x \in Waiting'
          PROVE  x.sequence <= recorder[r].sequence + 1
      <3>1. x \in Waiting /\ x.sequence <= recorder[r].sequence
        BY <1>1, <1>3, <2>1 DEF LateInv, Recordings
      <3>2. x.sequence \in Nat /\ recorder[r].sequence \in Nat
        BY <3>1, TokenTypes, MemoriesAre DEF Waiting
      <3> QED
        BY <3>1, <3>2
    <2> QED
      BY <1>1, <2>1 DEF LateChain
  <1>5. \A k \in DOMAIN recorder : \A x \in Waiting' :
              /\ x.sequence <= recorder[k].sequence => x.sequence <= recorder'[k].sequence
              /\ recorder'[k].phase = "recording" /\ recorder[k].phase # "recording" =>
                    x.sequence <= recorder'[k].sequence
    BY <1>1
  <1> QED
    BY <1>1, <1>2, <1>3, <1>4, <1>5, LateKept

LEMMA DropFromBufferLate ==
    ASSUME TypeOK, LateInv, NEW u \in Uploads, DropFromBuffer(u)
    PROVE  LateInv'
  <1> DEFINE t == upload[u]
             n == t.sequence
             r == t.of
  <1>1. /\ TypeOK' /\ UNCHANGED <<page, rows>> /\ t.step = "remove" /\ t.kind # "none"
        /\ r \in DOMAIN recorder /\ DOMAIN recorder' = DOMAIN recorder
        /\ recorder'[r].sequence = IF t.kind = "chunk" THEN recorder[r].sequence
                                   ELSE Larger(recorder[r].sequence, n)
        /\ recorder'[r].phase = IF t.kind = "first" /\ t.rest = <<>> THEN "recording"
                                ELSE recorder[r].phase
        /\ \A k \in DOMAIN recorder \ {r} : recorder'[k] = recorder[k]
        /\ database' = Without(database, n)
        /\ \A v \in Uploads \ {u} : upload'[v] = upload[v]
        /\ n \in Nat /\ recorder[r].sequence \in Nat /\ database \in ChunkMaps
        /\ t.rest \in Seq(Pieces)
    BY DropFromBufferDoes, ChainsAre, MemoriesAre
  <1>2. page.now <= page'.now /\ Len(rows) <= Len(rows') /\ Len(rows) \in Nat
    BY <1>1 DEF TypeOK
  <1>3. Waiting' \subseteq Waiting
    BY <1>1, <1>2, DropFromBufferTokens, WaitingKept
  <1>4. n <= Len(rows) + 1
    BY <1>1 DEF LateInv, LateChain
  <1>5. \A x \in Waiting : x.sequence # n /\ x.sequence \in Nat
    <2>1. \A x \in Waiting : x.sequence \in Nat /\ ~(x.sequence <= Len(rows) + 1)
      BY TokenTypes DEF Waiting, Past
    <2> QED
      BY <1>4, <2>1
  <1>6. \A x \in Waiting' : x.sequence \in DOMAIN database => x.sequence \in DOMAIN database'
    BY ZenonT(40), <1>1, <1>3, <1>5, WithoutIs
  <1>7. \A x \in Waiting : x.sequence <= recorder[r].sequence => x.sequence <= recorder'[r].sequence
    BY <1>1, <1>5 DEF Larger
  <1>8. t.kind = "first" => \A x \in Waiting : \/ x.sequence <= recorder[r].sequence
                                               \/ x.sequence \in Ahead(t)
    BY DEF LateInv, LateChain
  <1>9. t.kind = "first" /\ t.rest = <<>> => \A x \in Waiting : x.sequence <= recorder[r].sequence
    BY <1>5, <1>8 DEF Ahead
  <1>10. \A k \in DOMAIN recorder : \A x \in Waiting' :
              /\ x.sequence <= recorder[k].sequence => x.sequence <= recorder'[k].sequence
              /\ recorder'[k].phase = "recording" /\ recorder[k].phase # "recording" =>
                    x.sequence <= recorder'[k].sequence
    <2>1. ASSUME NEW k \in DOMAIN recorder, NEW x \in Waiting'
          PROVE  /\ x.sequence <= recorder[k].sequence => x.sequence <= recorder'[k].sequence
                 /\ recorder'[k].phase = "recording" /\ recorder[k].phase # "recording" =>
                    x.sequence <= recorder'[k].sequence
      <3>1. CASE k # r
        BY <1>1, <2>1, <3>1
      <3>2. CASE k = r
        BY <1>1, <1>3, <1>7, <1>9, <2>1, <3>2
      <3> QED
        BY <3>1, <3>2
    <2> QED
      BY <2>1
  <1>11. LateChain(upload[u])'
    <2>1. CASE t.rest = <<>>
      BY <2>1, DropFromBufferDoes, LateIdle
    <2>2. CASE t.rest # <<>>
      <3> DEFINE next == upload'[u]
      <3>1. /\ next.kind = t.kind /\ next.step = "intent" /\ next.of = r
            /\ next.sequence = t.rest[1].sequence /\ next.rest = Tail(t.rest)
        BY <2>2, DropFromBufferDoes
      <3> HIDE DEF next
      <3>2. \A k \in DOMAIN t.rest : t.rest[k].sequence \in Ahead(next)
        BY <1>1, <2>2, <3>1, AheadOfList
      <3>3. \A m \in Ahead(t) : m = n \/ m \in Ahead(next)
        BY <3>2 DEF Ahead
      <3>4. t.kind = "first" => \A x \in Waiting' : \/ x.sequence <= recorder'[r].sequence
                                                    \/ x.sequence \in Ahead(next)
        BY <1>3, <1>5, <1>7, <1>8, <3>3
      <3> QED
        BY <3>1, <3>4 DEF LateChain, next
    <2> QED
      BY <2>1, <2>2
  <1> QED
    BY <1>1, <1>2, <1>3, <1>6, <1>10, <1>11, LateKept

\* A request that is answered, or fails.
LEMMA RequestLate ==
    ASSUME TypeOK, TypeOK', LateInv, NEW u \in Uploads,
           \/ RequestIntent(u) \/ IntentFails(u) \/ IntentNotCommitted(u) \/ Put(u) \/ PutFails(u)
    PROVE  LateInv'
  <1> DEFINE t == upload[u]
  <1>1. /\ page'.now = page.now /\ database' = database
        /\ t.step # "idle"
        /\ \/ rows' = rows
           \/ Acceptable(t.sequence, t.chunk) /\ rows' = Append(rows, Row(t.chunk))
        /\ \/ Rejected(u)
           \/ /\ recorder' = recorder /\ \A v \in Uploads \ {u} : upload'[v] = upload[v]
              /\ upload'[u].kind = t.kind /\ upload'[u].of = t.of
              /\ upload'[u].sequence = t.sequence /\ upload'[u].rest = t.rest
              /\ upload'[u].step \in {"put", "remove"}
              /\ t.step = "put" \/ Acceptable(t.sequence, t.chunk)
    <2>1. CASE RequestIntent(u)
      BY <2>1, RequestIntentDoes
    <2>2. CASE IntentFails(u)
      BY <2>2, IntentFailsDoes
    <2>3. CASE IntentNotCommitted(u)
      BY <2>3, IntentNotCommittedDoes
    <2>4. CASE Put(u)
      BY <2>4, PutDoes
    <2>5. CASE PutFails(u)
      BY <2>5, PutFailsDoes
    <2> QED
      BY <2>1, <2>2, <2>3, <2>4, <2>5
  <1>2. page.now <= page'.now /\ Len(rows) <= Len(rows') /\ Len(rows) \in Nat /\ Len(rows') \in Nat
    <2>1. t.chunk \in Chunks /\ page.now \in Nat /\ Len(rows) \in Nat
      BY ChainsAre DEF TypeOK
    <2>2. Len(rows') = Len(rows) \/ Len(rows') = Len(rows) + 1
      BY <1>1, <2>1, IssuedRows
    <2> QED
      BY <1>1, <2>1, <2>2
  <1>3. Waiting' \subseteq Waiting
    BY <1>2, RequestTokens, WaitingKept
  <1>4. CASE Rejected(u)
    <2>1. /\ upload'[u] = Idle /\ \A v \in Uploads \ {u} : upload'[v] = upload[v]
          /\ DOMAIN recorder' = DOMAIN recorder
          /\ \A k \in DOMAIN recorder :
                /\ recorder'[k].sequence = recorder[k].sequence
                /\ recorder'[k].phase = "recording" => recorder[k].phase = "recording"
      BY <1>1, <1>4, RejectedDoes
    <2> QED
      BY <1>1, <1>2, <1>3, <2>1, LateIdle, LateKept
  <1>5. CASE ~Rejected(u)
    <2>1. t.sequence <= Len(rows') + 1
      <3>1. t.sequence \in Nat
        BY ChainsAre
      <3>2. CASE t.step = "put"
        <4>1. t.sequence <= Len(rows) + 1
          BY <3>2 DEF LateInv, LateChain
        <4> QED
          BY <1>2, <3>1, <4>1
      <3>3. CASE Acceptable(t.sequence, t.chunk)
        <4>1. t.sequence = Len(rows) + 1
          BY <3>3 DEF Acceptable
        <4> QED
          BY <1>2, <4>1
      <3> QED
        BY <1>1, <1>5, <3>2, <3>3
    <2>2. Ahead(upload'[u]) = Ahead(t)
      BY <1>1, <1>5 DEF Ahead
    <2>3. LateChain(t)
      BY DEF LateInv
    <2>4. LateChain(upload[u])'
      BY <1>1, <1>3, <1>5, <2>1, <2>2, <2>3 DEF LateChain
    <2> QED
      BY <1>1, <1>2, <1>3, <1>5, <2>4, LateKept
  <1> QED
    BY <1>4, <1>5

\* What is recorded, held and issued keeps to the order of capture.
OrderInv == TypeOK /\ RecordInv /\ LateInv

LEMMA RequestOrder ==
    ASSUME OrderInv, NEW u \in Uploads,
           \/ RequestIntent(u) \/ IntentFails(u) \/ IntentNotCommitted(u) \/ Put(u) \/ PutFails(u)
    PROVE  OrderInv'
  <1> DEFINE t == upload[u]
  <1>1. TypeOK /\ RecordInv /\ LateInv
    BY DEF OrderInv
  <1>2. /\ TypeOK' /\ captured' = captured /\ t.kind # "none"
        /\ \/ rows' = rows
           \/ Acceptable(t.sequence, t.chunk) /\ rows' = Append(rows, Row(t.chunk))
    <2>1. CASE RequestIntent(u)
      BY <1>1, <2>1, RequestIntentDoes
    <2>2. CASE IntentFails(u)
      BY <1>1, <2>2, IntentFailsDoes
    <2>3. CASE IntentNotCommitted(u)
      BY <1>1, <2>3, IntentNotCommittedDoes
    <2>4. CASE Put(u)
      BY <1>1, <2>4, PutDoes
    <2>5. CASE PutFails(u)
      BY <1>1, <2>5, PutFailsDoes
    <2> QED
      BY <2>1, <2>2, <2>3, <2>4, <2>5
  <1>3. Tokens' \subseteq Tokens
    BY <1>1, RequestTokens
  <1>4. CASE rows' = rows
    BY <1>1, <1>2, <1>3, <1>4, RequestLate, RecordKept DEF OrderInv
  <1>5. CASE Acceptable(t.sequence, t.chunk) /\ rows' = Append(rows, Row(t.chunk))
    <2>1. t.sequence \in Nat /\ t.chunk \in Chunks
      BY <1>1, ChainsAre
    <2>2. Token(t.sequence, t.chunk) \in Tokens
      <3>1. Token(t.sequence, t.chunk) \in OfChain(t)
        BY <1>2 DEF OfChain
      <3> QED
        BY <3>1, TokensAre
    <2>3. RecordInv'
      BY <1>1, <1>2, <1>3, <1>5, <2>1, <2>2, RecordIssued
    <2> QED
      BY <1>1, <1>2, <2>3, RequestLate DEF OrderInv
  <1> QED
    BY <1>2, <1>4, <1>5

LEMMA CaptureOrder ==
    ASSUME OrderInv, NEW u \in Uploads, NEW r \in DOMAIN recorder, Capture(u, r)
    PROVE  OrderInv'
  <1>1. TypeOK /\ RecordInv /\ LateInv
    BY DEF OrderInv
  <1>2. /\ TypeOK' /\ captured' = captured + 1 /\ UNCHANGED rows
        /\ recorder[r].phase = "recording" /\ recorder[r].sequence \in Nat
    BY <1>1, CaptureDoes, MemoriesAre
  <1> DEFINE n == recorder[r].sequence + 1
  <1>3. \A x \in Tokens : x.end <= page.now \/ Past(x) \/ x.sequence <= n
    <2>1. SUFFICES ASSUME NEW x \in Waiting
                   PROVE  x.sequence <= n
      BY DEF Waiting
    <2>2. x.sequence <= recorder[r].sequence
      BY <1>1, <1>2 DEF LateInv, Recordings
    <2>3. x.sequence \in Nat
      BY <1>1, TokenTypes DEF Waiting
    <2> QED
      BY <1>2, <2>2, <2>3
  <1>4. n \in Nat /\ Tokens' \subseteq Tokens \cup {Token(n, Chunk(captured + 1, 0, page.now + 1))}
    BY <1>1, <1>2, CaptureTokens
  <1> HIDE DEF n
  <1>5. RecordInv'
    BY <1>1, <1>2, <1>3, <1>4, RecordCaptured
  <1> QED
    BY <1>1, <1>2, <1>5, CaptureLate DEF OrderInv

LEMMA OrderFirst == Init => OrderInv
  <1> SUFFICES ASSUME Init
               PROVE  OrderInv
    OBVIOUS
  <1>1. TypeOK
    <2>1. ChainSound(Idle)
      BY IdleChain DEF ChainSound
    <2>2. upload \in [Uploads -> Chains] /\ \A u \in Uploads : ChainSound(upload[u])
      BY <2>1, IdleChain DEF Init
    <2>3. page \in [now : Nat, uploaded : Nat, opened : BOOLEAN]
      BY DEF Init, NewPage
    <2>4. database \in ChunkMaps
      BY EmptyBuffer DEF Init
    <2>5. recorder \in Seq(Recorders) /\ rows \in Seq(Rows)
      BY DEF Init
    <2>6. /\ objects \subseteq Nat /\ captured \in Nat /\ started \in Nat /\ failures \in Nat
          /\ overlapped \in BOOLEAN
      BY DEF Init
    <2> QED
      BY <2>2, <2>3, <2>6, <2>4, <2>5 DEF TypeOK
  <1>2. Tokens = {}
    <2>1. OfBuffer(database) = {} /\ DOMAIN recorder = {}
      BY EmptyBuffer DEF Init, OfBuffer
    <2>2. \A u \in Uploads : OfChain(upload[u]) = {}
      BY IdleTokens DEF Init
    <2> QED
      BY <2>1, <2>2 DEF Tokens
  <1>3. Issued = {} /\ DOMAIN rows = {} /\ DOMAIN recorder = {}
    BY DEF Init, Issued
  <1>4. RecordInv
    BY <1>2, <1>3 DEF RecordInv, Contents, InOrder, AfterRows, RowsRise, ChunksInCaptureOrder
  <1>5. \A u \in Uploads : LateChain(upload[u])
    BY IdleChain DEF Init, LateChain
  <1>6. LateInv
    BY <1>2, <1>3, <1>5 DEF LateInv, InDatabase, Recordings, Waiting
  <1> QED
    BY <1>1, <1>4, <1>6 DEF OrderInv

LEMMA OrderKept == OrderInv /\ [Next]_vars => OrderInv'
  <1> SUFFICES ASSUME OrderInv, [Next]_vars
               PROVE  OrderInv'
    OBVIOUS
  <1>1. TypeOK /\ RecordInv /\ LateInv
    BY DEF OrderInv
  <1>2. ASSUME TypeOK', Tokens' \subseteq Tokens, captured' = captured, UNCHANGED rows
        PROVE  RecordInv'
    BY <1>1, <1>2, RecordKept
  <1>3. CASE Wait
    <2>1. TypeOK' /\ page'.now = page.now + 1
          /\ UNCHANGED <<recorder, database, upload, rows, captured>>
      BY <1>1, <1>3, WaitDoes
    <2>2. Tokens' = Tokens
      BY <2>1 DEF Tokens
    <2>3. page.now <= page'.now /\ Len(rows) <= Len(rows')
      BY <1>1, <2>1 DEF TypeOK
    <2>4. Waiting' \subseteq Waiting
      BY <1>1, <2>1, <2>2, <2>3, WaitingKept
    <2>5. LateInv'
      <3>1. InDatabase' /\ Recordings'
        BY <1>1, <2>1, <2>4 DEF LateInv, InDatabase, Recordings
      <3>2. \A u \in Uploads : LateChain(upload[u])'
        BY <1>1, <2>1, <2>4 DEF LateInv, LateChain
      <3> QED
        BY <3>1, <3>2 DEF LateInv
    <2> QED
      BY <1>2, <2>1, <2>2, <2>5 DEF OrderInv
  <1>4. CASE CompleteAnswer
    <2>1. /\ TypeOK' /\ Len(rows') = Len(rows) /\ DOMAIN rows' = DOMAIN rows
          /\ \A n \in DOMAIN rows : rows'[n].chunk = rows[n].chunk
          /\ UNCHANGED <<page, recorder, database, upload, captured>>
      BY <1>1, <1>4, CompleteAnswerDoes
    <2>2. Tokens' = Tokens
      BY <2>1 DEF Tokens
    <2>3. RecordInv'
      BY <1>1, <2>1, <2>2, RecordKept
    <2>4. Waiting' = Waiting
      BY <2>1, <2>2 DEF Waiting, Past
    <2>5. LateInv'
      <3>1. InDatabase' /\ Recordings'
        BY <1>1, <2>1, <2>4 DEF LateInv, InDatabase, Recordings
      <3>2. \A u \in Uploads : LateChain(upload[u])'
        BY <1>1, <2>1, <2>4 DEF LateInv, LateChain
      <3> QED
        BY <3>1, <3>2 DEF LateInv
    <2> QED
      BY <2>1, <2>3, <2>5 DEF OrderInv
  <1>5. ASSUME NEW u \in Uploads, Load(u)
        PROVE  OrderInv'
    <2>1. Tokens' \subseteq Tokens
      BY <1>1, <1>5, LoadTokens, TokensAre
    <2> QED
      BY <1>1, <1>2, <1>5, <2>1, LoadDoes, LoadLate DEF OrderInv
  <1>6. ASSUME NEW u \in Uploads, Resume(u)
        PROVE  OrderInv'
    BY <1>1, <1>2, <1>6, ResumeDoes, ResumeTokens, ResumeLate DEF OrderInv
  <1>7. ASSUME NEW u \in Uploads, SocketOpens(u)
        PROVE  OrderInv'
    BY <1>1, <1>2, <1>7, SocketOpensDoes, SocketOpensTokens, SocketOpensLate DEF OrderInv
  <1>8. ASSUME NEW u \in Uploads, Hashed(u)
        PROVE  OrderInv'
    BY <1>1, <1>2, <1>8, HashedDoes, HashedTokens, HashedLate DEF OrderInv
  <1>9. ASSUME NEW u \in Uploads, DropFromBuffer(u)
        PROVE  OrderInv'
    BY <1>1, <1>2, <1>9, DropFromBufferDoes, DropFromBufferTokens, DropFromBufferLate DEF OrderInv
  <1>10. CASE UNCHANGED vars
    <2>1. UNCHANGED <<page, recorder, database, upload, rows, objects, captured, started, dropped,
                      overlapped, failures>>
      BY <1>10 DEF vars
    <2>2. TypeOK'
      BY <1>1, <2>1 DEF TypeOK, ChainSound
    <2>3. Tokens' = Tokens
      BY <2>1 DEF Tokens
    <2>4. Waiting' = Waiting
      BY <2>1, <2>3 DEF Waiting, Past
    <2>5. InDatabase' /\ Recordings' /\ \A u \in Uploads : LateChain(upload[u])'
      BY <1>1, <2>1, <2>4 DEF LateInv, InDatabase, Recordings, LateChain
    <2> QED
      BY <1>2, <2>1, <2>2, <2>3, <2>5 DEF OrderInv, LateInv
  <1>11. CASE Next
    BY <1>3, <1>4, <1>5, <1>6, <1>7, <1>8, <1>9, <1>11, CaptureOrder, RequestOrder DEF Next
  <1> QED
    BY <1>10, <1>11

(* RecordingUpload keeps its types: a chain works for a recorder of the page, and *)
(* only a new chunk is being hashed.                                          *)
THEOREM UploadTypeCorrect == Spec => []TypeOK
  <1>1. OrderInv => TypeOK
    BY DEF OrderInv
  <1> QED
    BY <1>1, OrderFirst, OrderKept, PTL DEF Spec

(* The server's record of an interview is in the order in which the browser    *)
(* recorded, none twice and in times that do not overlap, for any number of     *)
(* recorders, chunks, retries and failures.                                   *)
THEOREM RecordInCaptureOrder == Spec => []ChunksInCaptureOrder
  <1>1. OrderInv => ChunksInCaptureOrder
    BY DEF OrderInv, RecordInv
  <1> QED
    BY <1>1, OrderFirst, OrderKept, PTL DEF Spec

-----------------------------------------------------------------------------
(* Where every chunk is *)

\* A chain that has not got its row yet does not count it as stored.
NotYet ==
    \A u \in Uploads : upload[u].step \in {"idle", "hash", "intent"} => upload[u].stored = FALSE

LEMMA NotYetFrom ==
    ASSUME NotYet, NEW u \in Uploads, \A v \in Uploads \ {u} : upload'[v] = upload[v],
           upload'[u].stored = FALSE \/ upload'[u].step \in {"put", "remove"}
    PROVE  NotYet'
  BY DEF NotYet

LEMMA NotYetStarted ==
    ASSUME NotYet, upload \in [Uploads -> Chains], NEW u \in Uploads, NEW earlier, NEW p,
           StartRecorder(u, earlier, p)
    PROVE  NotYet'
  <1>1. ASSUME NEW v \in Uploads
        PROVE  upload'[v] = upload[v] \/ upload'[v].stored = FALSE
    <2>1. \/ upload' = [w \in Uploads |->
                IF w = u THEN Retrying("first", Len(earlier) + 1, Listed(Loaded(<<>>)))
                ELSE IF earlier = <<>> THEN Idle ELSE upload[w]]
          \/ upload' = [w \in Uploads |-> IF earlier = <<>> THEN Idle ELSE upload[w]]
      BY DEF StartRecorder
    <2>2. Idle.stored = FALSE
      BY DEF Idle
    <2> QED
      BY <2>1, <2>2 DEF Retrying, Idle
  <1> QED
    BY <1>1 DEF NotYet

LEMMA NotYetKept ==
    ASSUME TypeOK, NotYet, Next
    PROVE  NotYet'
  <1>1. upload \in [Uploads -> Chains] /\ \A t \in Chains : t.stored \in BOOLEAN
    BY DEF TypeOK, Chains
  <1>2. Idle.stored = FALSE
    BY DEF Idle
  <1>3. CASE Wait \/ CompleteAnswer
    BY <1>3 DEF Wait, CompleteAnswer, NotYet
  <1>4. ASSUME NEW u \in Uploads, Load(u) \/ Resume(u)
        PROVE  NotYet'
    BY <1>1, <1>4, NotYetStarted DEF Load, Resume
  <1>5. ASSUME NEW u \in Uploads, SocketOpens(u)
        PROVE  NotYet'
    <2>1. /\ \A v \in Uploads \ {u} : upload'[v] = upload[v]
          /\ upload'[u] = Retrying("open", Current, Listed(Loaded(recorder[Current].memory)))
      BY <1>5, SocketOpensDoes
    <2>2. upload'[u].stored = FALSE
      BY <2>1 DEF Retrying, Idle
    <2> QED
      BY <2>1, <2>2, NotYetFrom
  <1>6. ASSUME NEW u \in Uploads, NEW r \in DOMAIN recorder, Capture(u, r)
        PROVE  NotYet'
    <2>1. \A v \in Uploads \ {u} : upload'[v] = upload[v]
      BY <1>6, CaptureDoes
    <2>2. upload'[u].stored = FALSE
      BY <1>1, <1>6 DEF Capture, Idle
    <2> QED
      BY <2>1, <2>2, NotYetFrom
  <1>7. ASSUME NEW u \in Uploads, Hashed(u)
        PROVE  NotYet'
    <2>1. \A v \in Uploads \ {u} : upload'[v] = upload[v]
      BY <1>7, HashedDoes
    <2>2. upload'[u].stored = upload[u].stored
      <3> DEFINE chunk == [upload[u].chunk EXCEPT !.start = recorder[upload[u].of].start]
      <3>1. upload' = [upload EXCEPT ![u].step = "intent", ![u].chunk = chunk]
        BY <1>7 DEF Hashed
      <3> HIDE DEF chunk
      <3> QED
        BY <1>1, <3>1 DEF Chains
    <2>3. upload[u].stored = FALSE
      BY <1>7, HashedDoes DEF NotYet
    <2> QED
      BY <2>1, <2>2, <2>3, NotYetFrom
  <1>8. ASSUME NEW u \in Uploads, upload[u].step # "idle", Rejected(u)
        PROVE  NotYet'
    BY <1>2, <1>8, RejectedDoes, NotYetFrom
  <1>9. ASSUME NEW u \in Uploads, RequestIntent(u)
        PROVE  NotYet'
    <2>1. CASE Rejected(u)
      BY <1>8, <1>9, <2>1, RequestIntentDoes
    <2>2. CASE ~Rejected(u)
      <3>1. /\ \A v \in Uploads \ {u} : upload'[v] = upload[v]
            /\ upload'[u].step = "put"
        BY <1>9, <2>2, RequestIntentDoes
      <3> QED
        BY <3>1, NotYetFrom
    <2> QED
      BY <2>1, <2>2
  <1>10. ASSUME NEW u \in Uploads, IntentFails(u) \/ PutFails(u)
         PROVE  NotYet'
    BY <1>8, <1>10, IntentFailsDoes, PutFailsDoes
  <1>11. ASSUME NEW u \in Uploads, IntentNotCommitted(u) \/ Put(u)
         PROVE  NotYet'
    <2>1. /\ \A v \in Uploads \ {u} : upload'[v] = upload[v]
          /\ upload'[u].step \in {"put", "remove"}
      BY <1>11, IntentNotCommittedDoes, PutDoes
    <2> QED
      BY <2>1, NotYetFrom
  <1>12. ASSUME NEW u \in Uploads, DropFromBuffer(u)
         PROVE  NotYet'
    <2>1. \A v \in Uploads \ {u} : upload'[v] = upload[v]
      BY <1>12, DropFromBufferDoes
    <2>2. upload'[u] = Retrying(upload[u].kind, upload[u].of, upload[u].rest)
      BY <1>1, <1>12 DEF DropFromBuffer
    <2>3. upload'[u].stored = FALSE
      BY <2>1, <2>2 DEF Retrying, Idle
    <2> QED
      BY <2>1, <2>2, <2>3, NotYetFrom
  <1> QED
    BY <1>3, <1>4, <1>5, <1>6, <1>7, <1>9, <1>10, <1>11, <1>12 DEF Next

Safe(c) ==
    \/ \E n \in objects : rows[n].chunk.content = c
    \/ \E n \in DOMAIN database : database[n].content = c
    \/ \E k \in DOMAIN recorder : \E n \in DOMAIN recorder[k].memory :
          recorder[k].memory[n].content = c
    \/ \E u \in Uploads : /\ upload[u].step = "hash" /\ upload[u].of \in DOMAIN recorder
                          /\ upload[u].chunk.content = c

AllSafe == \A c \in (1..captured) \ dropped : Safe(c)

LEMMA SafeIs == (~overlapped => AllSafe) => NothingIsDropped
  <1>1. SUFFICES ASSUME NEW c, Safe(c)
                 PROVE  \/ c \in Stored \cup Kept(Buffers)
                        \/ \E r \in DOMAIN recorder : \E u \in Hashing(r) :
                              upload[u].chunk.content = c
    BY DEF NothingIsDropped, AllSafe
  <1>2. CASE \E n \in objects : rows[n].chunk.content = c
    BY <1>2 DEF Stored
  <1>3. ASSUME NEW b \in Buffers, NEW n \in DOMAIN b, b[n].content = c
        PROVE  c \in Kept(Buffers)
    <2>1. c \in {b[k].content : k \in DOMAIN b}
      BY <1>3
    <2> QED
      BY <2>1 DEF Kept
  <1>4. CASE \E n \in DOMAIN database : database[n].content = c
    <2>1. database \in Buffers
      BY DEF Buffers
    <2> QED
      BY <1>3, <1>4, <2>1
  <1>5. CASE \E k \in DOMAIN recorder : \E n \in DOMAIN recorder[k].memory :
                recorder[k].memory[n].content = c
    <2>1. \A k \in DOMAIN recorder : recorder[k].memory \in Buffers
      BY DEF Buffers
    <2> QED
      BY <1>3, <1>5, <2>1
  <1>6. CASE \E u \in Uploads : /\ upload[u].step = "hash" /\ upload[u].of \in DOMAIN recorder
                                /\ upload[u].chunk.content = c
    BY <1>6 DEF Hashing
  <1> QED
    BY <1>1, <1>2, <1>4, <1>5, <1>6 DEF Safe

\* A chain whose chunk was PUT has a row and, once it is to be removed, an object;
\* or its chunk went with a lost commit.
SentChain(t) ==
    t.step \in {"put", "remove"} =>
        \/ /\ t.stored = TRUE
           /\ t.sequence \in DOMAIN rows /\ rows[t.sequence].chunk = t.chunk
           /\ t.step = "remove" => t.sequence \in objects
        \/ t.stored = FALSE /\ t.chunk.content \in dropped

Sent == objects \subseteq DOMAIN rows /\ \A u \in Uploads : SentChain(upload[u])

\* The first retry of a recorder is the only one, and its recorder waits for it.
FirstAlone ==
    \A u \in Uploads : upload[u].kind = "first" =>
        /\ recorder[upload[u].of].phase = "retrying"
        /\ \A v \in Uploads \ {u} : ~(upload[v].kind = "first" /\ upload[v].of = upload[u].of)

\* Only what records has chunks of its own on the way.
Phases ==
    \A u \in Uploads : upload[u].kind = "chunk" => recorder[upload[u].of].phase = "recording"

SoundInv == NotYet /\ Sent /\ FirstAlone /\ Phases

LEMMA SentKept ==
    ASSUME TypeOK, Sent, objects \subseteq objects', objects' \subseteq DOMAIN rows', dropped \subseteq dropped',
           \A n \in DOMAIN rows : n \in DOMAIN rows' /\ rows'[n].chunk = rows[n].chunk,
           NEW u \in Uploads, \A v \in Uploads \ {u} : upload'[v] = upload[v],
           SentChain(upload[u])'
    PROVE  Sent'
  <1>1. ASSUME NEW v \in Uploads \ {u}
        PROVE  SentChain(upload[v])'
    <2>1. SentChain(upload[v]) /\ upload'[v] = upload[v]
      BY DEF Sent
    <2> QED
      BY <2>1 DEF SentChain
  <1> QED
    BY <1>1 DEF Sent

\* A chain that is not (or no longer) at its PUT has nothing to show for it.
LEMMA SentEarly ==
    ASSUME NEW u \in Uploads, ~(upload'[u].step \in {"put", "remove"})
    PROVE  SentChain(upload[u])'
  BY DEF SentChain

\* A step of one chain which changes the phase of no recorder, and starts no first retry.
LEMMA PhasesKept ==
    ASSUME TypeOK, FirstAlone, Phases, \A k \in DOMAIN recorder : recorder'[k].phase = recorder[k].phase,
           NEW u \in Uploads, \A v \in Uploads \ {u} : upload'[v] = upload[v],
           \/ upload'[u].kind \notin {"first", "chunk"}
           \/ upload'[u].kind = upload[u].kind /\ upload'[u].of = upload[u].of
           \/ /\ upload'[u].kind = "chunk" /\ upload'[u].of \in DOMAIN recorder
              /\ recorder[upload'[u].of].phase = "recording"
    PROVE  FirstAlone' /\ Phases'
  <1>1. ASSUME NEW v \in Uploads, upload'[v].kind = "first"
        PROVE  upload[v].kind = "first" /\ upload'[v].of = upload[v].of
    BY <1>1
  <1>2. \A v \in Uploads : upload[v].kind = "first" => upload[v].of \in DOMAIN recorder
    BY ChainsAre
  <1>3. FirstAlone'
    BY <1>1, <1>2 DEF FirstAlone
  <1>4. ASSUME NEW v \in Uploads, upload'[v].kind = "chunk"
        PROVE  upload'[v].of \in DOMAIN recorder /\ recorder[upload'[v].of].phase = "recording"
    <2>1. CASE upload'[v].kind = upload[v].kind /\ upload'[v].of = upload[v].of
      BY <1>4, <2>1, ChainsAre DEF Phases
    <2>2. CASE ~(upload'[v].kind = upload[v].kind /\ upload'[v].of = upload[v].of)
      BY <1>4, <2>2
    <2> QED
      BY <2>1, <2>2
  <1> QED
    BY <1>3, <1>4 DEF Phases

\* A chain that is given up takes the phase of its recorder with it only when it was the first.
LEMMA PhasesRejected ==
    ASSUME TypeOK, FirstAlone, Phases, NEW u \in Uploads, upload[u].step # "idle", Rejected(u)
    PROVE  FirstAlone' /\ Phases'
  <1>1. /\ upload'[u] = Idle /\ \A v \in Uploads \ {u} : upload'[v] = upload[v]
        /\ \A k \in DOMAIN recorder :
              recorder'[k].phase = IF upload[u].kind = "first" /\ k = upload[u].of
                                   THEN "unavailable" ELSE recorder[k].phase
    BY RejectedDoes
  <1>2. \A v \in Uploads : upload[v].kind # "none" => upload[v].of \in DOMAIN recorder
    BY ChainsAre
  <1>3. FirstAlone'
    BY <1>1, <1>2, IdleChain DEF FirstAlone
  <1>4. ASSUME NEW v \in Uploads, upload'[v].kind = "chunk"
        PROVE  recorder'[upload'[v].of].phase = "recording"
    <2>1. v # u /\ upload'[v] = upload[v] /\ upload[v].of \in DOMAIN recorder
          /\ recorder[upload[v].of].phase = "recording"
      BY <1>1, <1>2, <1>4, IdleChain DEF Phases
    <2>2. upload[u].kind = "first" => upload[v].of # upload[u].of
      BY <2>1 DEF FirstAlone
    <2> QED
      BY <1>1, <2>1, <2>2
  <1> QED
    BY <1>3, <1>4 DEF Phases

LEMMA RequestSound ==
    ASSUME TypeOK, SoundInv, NEW u \in Uploads,
           \/ RequestIntent(u) \/ IntentFails(u) \/ IntentNotCommitted(u) \/ Put(u) \/ PutFails(u)
    PROVE  Sent' /\ FirstAlone' /\ Phases'
  <1> DEFINE t == upload[u]
  <1>1. /\ Sent /\ FirstAlone /\ Phases /\ SentChain(t) /\ t.chunk \in Chunks
        /\ objects \subseteq DOMAIN rows
    BY ChainsAre DEF SoundInv, Sent
  <1>2. ASSUME rows' = rows \/ rows' = Append(rows, Row(t.chunk))
        PROVE  /\ \A n \in DOMAIN rows : n \in DOMAIN rows' /\ rows'[n].chunk = rows[n].chunk
               /\ DOMAIN rows \subseteq DOMAIN rows'
    BY <1>1, <1>2, IssuedRows
  <1>3. ASSUME t.step # "idle", Rejected(u), objects \subseteq objects', objects' \subseteq DOMAIN rows',
               dropped' = dropped, rows' = rows \/ rows' = Append(rows, Row(t.chunk))
        PROVE  Sent' /\ FirstAlone' /\ Phases'
    <2>1. upload'[u] = Idle /\ \A v \in Uploads \ {u} : upload'[v] = upload[v]
      BY <1>3, RejectedDoes
    <2>2. SentChain(upload[u])'
      BY <2>1, IdleChain, SentEarly
    <2>3. Sent'
      BY <1>1, <1>2, <1>3, <2>1, <2>2, SentKept
    <2> QED
      BY <1>1, <1>3, <2>3, PhasesRejected
  <1>4. ASSUME recorder' = recorder, \A v \in Uploads \ {u} : upload'[v] = upload[v],
               upload'[u].kind = t.kind, upload'[u].of = t.of, SentChain(upload[u])',
               objects \subseteq objects', objects' \subseteq DOMAIN rows',
               dropped \subseteq dropped', rows' = rows \/ rows' = Append(rows, Row(t.chunk))
        PROVE  Sent' /\ FirstAlone' /\ Phases'
    <2>1. Sent'
      BY <1>1, <1>2, <1>4, SentKept
    <2> QED
      BY <1>1, <1>4, <2>1, PhasesKept
  <1>5. CASE RequestIntent(u)
    <2>1. CASE Rejected(u)
      <3>1. /\ t.step # "idle" /\ objects' = objects /\ dropped' = dropped
            /\ rows' = rows \/ rows' = Append(rows, Row(t.chunk))
        BY <1>5, <2>1, RequestIntentDoes
      <3> QED
        BY <1>1, <1>2, <1>3, <2>1, <3>1
    <2>2. CASE ~Rejected(u)
      <3>1. /\ Acceptable(t.sequence, t.chunk) /\ rows' = Append(rows, Row(t.chunk))
            /\ upload'[u].kind = t.kind /\ upload'[u].step = "put" /\ upload'[u].of = t.of
            /\ upload'[u].sequence = t.sequence /\ upload'[u].chunk = t.chunk
            /\ upload'[u].stored = TRUE
            /\ \A v \in Uploads \ {u} : upload'[v] = upload[v]
            /\ UNCHANGED <<recorder, objects, dropped>>
        BY <1>5, <2>2, RequestIntentDoes
      <3>2. t.sequence \in DOMAIN rows' /\ rows'[t.sequence].chunk = t.chunk
        <4>1. t.sequence = Len(rows) + 1 /\ Len(rows) \in Nat
          BY <3>1 DEF Acceptable, TypeOK
        <4>2. /\ rows' \in Seq(Rows) /\ Len(rows') = t.sequence
              /\ rows'[t.sequence] = Row(t.chunk)
          BY <1>1, <3>1, <4>1, IssuedRows
        <4> QED
          BY <4>1, <4>2 DEF Row
      <3>3. SentChain(upload[u])'
        BY <3>1, <3>2 DEF SentChain
      <3> QED
        BY <1>1, <1>2, <1>4, <3>1, <3>3
    <2> QED
      BY <2>1, <2>2
  <1>6. CASE IntentFails(u)
    <2>1. /\ t.step # "idle" /\ Rejected(u) /\ objects' = objects /\ dropped' = dropped
          /\ rows' = rows \/ rows' = Append(rows, Row(t.chunk))
      BY <1>6, IntentFailsDoes
    <2> QED
      BY <1>1, <1>2, <1>3, <2>1
  <1>7. CASE IntentNotCommitted(u)
    <2>1. /\ t.step = "intent" /\ t.stored = FALSE
          /\ upload'[u].kind = t.kind /\ upload'[u].step = "put" /\ upload'[u].of = t.of
          /\ upload'[u].chunk = t.chunk /\ upload'[u].stored = t.stored
          /\ \A v \in Uploads \ {u} : upload'[v] = upload[v]
          /\ dropped' = dropped \cup {t.chunk.content}
          /\ UNCHANGED <<recorder, rows, objects>>
      BY <1>7, IntentNotCommittedDoes DEF SoundInv, NotYet
    <2>2. SentChain(upload[u])'
      BY <2>1 DEF SentChain
    <2> QED
      BY <1>1, <1>2, <1>4, <2>1, <2>2
  <1>8. CASE Put(u)
    <2>1. /\ t.step = "put"
          /\ upload'[u].kind = t.kind /\ upload'[u].step = "remove" /\ upload'[u].of = t.of
          /\ upload'[u].sequence = t.sequence /\ upload'[u].chunk = t.chunk
          /\ upload'[u].stored = t.stored
          /\ \A v \in Uploads \ {u} : upload'[v] = upload[v]
          /\ objects' = IF t.stored THEN objects \cup {t.sequence} ELSE objects
          /\ UNCHANGED <<recorder, rows, dropped>>
      BY <1>8, PutDoes
    <2>2. CASE t.stored = TRUE
      <3>1. t.sequence \in DOMAIN rows /\ rows[t.sequence].chunk = t.chunk
        BY <1>1, <2>1, <2>2 DEF SentChain
      <3>2. objects' = objects \cup {t.sequence}
        BY <2>1, <2>2
      <3>3. SentChain(upload[u])'
        BY <2>1, <2>2, <3>1, <3>2 DEF SentChain
      <3> QED
        BY <1>1, <1>4, <2>1, <3>1, <3>2, <3>3
    <2>3. CASE t.stored = FALSE
      <3>1. objects' = objects /\ t.chunk.content \in dropped
        BY <1>1, <2>1, <2>3 DEF SentChain
      <3>2. SentChain(upload[u])'
        BY <2>1, <2>3, <3>1 DEF SentChain
      <3> QED
        BY <1>1, <1>4, <2>1, <3>1, <3>2
    <2> QED
      BY <1>1, <2>1, <2>2, <2>3 DEF SentChain
  <1>9. CASE PutFails(u)
    <2>1. /\ t.step = "put" /\ Rejected(u)
          /\ objects' = objects \/ (t.stored /\ objects' = objects \cup {t.sequence})
          /\ UNCHANGED <<rows, dropped>>
      BY <1>9, PutFailsDoes
    <2>2. t.stored => t.sequence \in DOMAIN rows
      BY <1>1, <2>1 DEF SentChain
    <2> QED
      BY <1>1, <1>3, <2>1, <2>2
  <1> QED
    BY <1>5, <1>6, <1>7, <1>8, <1>9

LEMMA LoadSound ==
    ASSUME TypeOK, SoundInv, NEW u \in Uploads, Load(u)
    PROVE  Sent' /\ FirstAlone' /\ Phases'
  <1>1. /\ recorder'[1].phase = "retrying" /\ Listed(database) # <<>>
              /\ upload'[u] = Retrying("first", 1, Listed(database))
        \/ upload'[u] = Idle
    BY LoadDoes
  <1>2. /\ \A v \in Uploads \ {u} : upload'[v] = Idle
        /\ UNCHANGED <<rows, objects>>
    BY LoadDoes
  <1>3. CASE upload'[u] = Idle
    <2>1. \A v \in Uploads : upload'[v] = Idle
      BY <1>2, <1>3
    <2> QED
      BY <1>2, <2>1, IdleChain DEF SoundInv, Sent, SentChain, FirstAlone, Phases
  <1>4. CASE /\ recorder'[1].phase = "retrying" /\ Listed(database) # <<>>
             /\ upload'[u] = Retrying("first", 1, Listed(database))
    <2>1. Listed(database) \in Seq(Pieces)
      BY ListedIs, MemoriesAre
    <2>2. upload'[u].kind = "first" /\ upload'[u].step = "intent" /\ upload'[u].of = 1
      BY <1>4, <2>1, RetryingIs
    <2>3. Sent'
      BY <1>2, <2>2, IdleChain DEF SoundInv, Sent, SentChain
    <2>4. FirstAlone' /\ Phases'
      BY <1>2, <1>4, <2>2, IdleChain DEF FirstAlone, Phases
    <2> QED
      BY <2>3, <2>4
  <1> QED
    BY <1>1, <1>3, <1>4

LEMMA ResumeSound ==
    ASSUME TypeOK, SoundInv, NEW u \in Uploads, Resume(u)
    PROVE  Sent' /\ FirstAlone' /\ Phases'
  <1> DEFINE n == Current + 1
  <1>1. /\ n \notin DOMAIN recorder /\ DOMAIN recorder' = DOMAIN recorder \cup {n}
        /\ \A k \in DOMAIN recorder : recorder'[k] = recorder[k]
        /\ \A v \in Uploads \ {u} : upload'[v] = upload[v]
        /\ UNCHANGED <<rows, objects, dropped>>
    BY ResumeDoes
  <1>2. \/ /\ recorder'[n].phase = "retrying" /\ Listed(database) # <<>>
           /\ upload'[u] = Retrying("first", n, Listed(database))
        \/ upload'[u] = Idle
    BY ResumeDoes
  <1> HIDE DEF n
  <1>3. \/ upload'[u].kind = "none" /\ upload'[u].step = "idle"
        \/ /\ upload'[u].kind = "first" /\ upload'[u].step = "intent" /\ upload'[u].of = n
           /\ recorder'[n].phase = "retrying"
    <2>1. Listed(database) \in Seq(Pieces)
      BY ListedIs, MemoriesAre
    <2> QED
      BY <1>2, <2>1, IdleChain, RetryingIs
  <1>4. Sent /\ FirstAlone /\ Phases /\ objects \subseteq DOMAIN rows
    BY DEF SoundInv, Sent
  <1>5. \A v \in Uploads : upload[v].kind # "none" => upload[v].of \in DOMAIN recorder
    BY ChainsAre
  <1>6. Sent'
    <2>1. SentChain(upload[u])'
      BY <1>3, SentEarly
    <2> QED
      BY <1>1, <1>4, <2>1, SentKept
  <1>7. FirstAlone'
    BY <1>1, <1>3, <1>4, <1>5 DEF FirstAlone
  <1>8. Phases'
    BY <1>1, <1>3, <1>4, <1>5 DEF Phases
  <1> QED
    BY <1>6, <1>7, <1>8

LEMMA DropFromBufferSound ==
    ASSUME TypeOK, SoundInv, NEW u \in Uploads, DropFromBuffer(u)
    PROVE  Sent' /\ FirstAlone' /\ Phases'
  <1> DEFINE t == upload[u]
             r == t.of
  <1>1. /\ t.step = "remove" /\ t.kind # "none"
        /\ \/ t.rest = <<>> /\ upload'[u] = Idle
           \/ /\ t.rest # <<>> /\ upload'[u].kind = t.kind /\ upload'[u].step = "intent"
              /\ upload'[u].of = r
        /\ \A v \in Uploads \ {u} : upload'[v] = upload[v]
        /\ r \in DOMAIN recorder /\ DOMAIN recorder' = DOMAIN recorder
        /\ recorder'[r].phase = IF t.kind = "first" /\ t.rest = <<>> THEN "recording"
                                ELSE recorder[r].phase
        /\ \A k \in DOMAIN recorder \ {r} : recorder'[k] = recorder[k]
        /\ UNCHANGED <<rows, objects, dropped>>
    BY DropFromBufferDoes
  <1>2. Sent /\ FirstAlone /\ Phases /\ objects \subseteq DOMAIN rows
    BY DEF SoundInv, Sent
  <1>3. Sent'
    <2>1. SentChain(upload[u])'
      BY <1>1, IdleChain, SentEarly
    <2> QED
      BY <1>1, <1>2, <2>1, SentKept
  <1>4. CASE t.kind = "first" /\ t.rest = <<>>
    <2>1. \A v \in Uploads \ {u} : upload[v].kind = "first" => upload[v].of # r
      BY <1>2, <1>4 DEF FirstAlone
    <2>2. \A v \in Uploads : upload[v].kind # "none" => upload[v].of \in DOMAIN recorder
      BY ChainsAre
    <2>3. FirstAlone'
      BY <1>1, <1>2, <1>4, <2>1, <2>2, IdleChain DEF FirstAlone
    <2>4. Phases'
      BY <1>1, <1>2, <1>4, <2>1, <2>2, IdleChain DEF Phases
    <2> QED
      BY <1>3, <2>3, <2>4
  <1>5. CASE ~(t.kind = "first" /\ t.rest = <<>>)
    <2>1. \A k \in DOMAIN recorder : recorder'[k].phase = recorder[k].phase
      BY <1>1, <1>5
    <2>2. FirstAlone' /\ Phases'
      BY <1>1, <1>2, <2>1, IdleChain, PhasesKept
    <2> QED
      BY <1>3, <2>2
  <1> QED
    BY <1>4, <1>5

LEMMA SoundKept ==
    ASSUME TypeOK, SoundInv, [Next]_vars
    PROVE  SoundInv'
  <1>1. NotYet /\ Sent /\ FirstAlone /\ Phases /\ objects \subseteq DOMAIN rows
    BY DEF SoundInv, Sent
  <1>2. CASE Wait \/ CompleteAnswer \/ UNCHANGED vars
    <2>1. /\ UNCHANGED <<recorder, upload, objects, dropped>> /\ DOMAIN rows' = DOMAIN rows
          /\ \A n \in DOMAIN rows : rows'[n].chunk = rows[n].chunk
      <3>1. CASE Wait
        BY <3>1, WaitDoes
      <3>2. CASE CompleteAnswer
        BY <3>2, CompleteAnswerDoes
      <3>3. CASE UNCHANGED vars
        BY <3>3 DEF vars
      <3> QED
        BY <1>2, <3>1, <3>2, <3>3
    <2>2. Sent'
      BY <1>1, <2>1 DEF Sent, SentChain
    <2>3. NotYet' /\ FirstAlone' /\ Phases'
      BY <1>1, <2>1 DEF NotYet, FirstAlone, Phases
    <2> QED
      BY <2>2, <2>3 DEF SoundInv
  <1>3. ASSUME NEW u \in Uploads, SocketOpens(u)
        PROVE  Sent' /\ FirstAlone' /\ Phases'
    <2> DEFINE list == Listed(Loaded(recorder[Current].memory))
    <2>1. /\ \A v \in Uploads \ {u} : upload'[v] = upload[v]
          /\ \A k \in DOMAIN recorder : recorder'[k].phase = recorder[k].phase
          /\ UNCHANGED <<rows, objects, dropped>>
          /\ upload'[u] = Retrying("open", Current, list) /\ list \in Seq(Pieces)
      BY <1>3, SocketOpensDoes, ListedIs
    <2> HIDE DEF list
    <2>2. upload'[u].step \in {"idle", "intent"} /\ upload'[u].kind \notin {"first", "chunk"}
      <3>1. CASE list = <<>>
        BY <2>1, <3>1, RetryingNothing, IdleChain
      <3>2. CASE list # <<>>
        BY <2>1, <3>2, RetryingIs
      <3> QED
        BY <3>1, <3>2
    <2>3. Sent'
      <3>1. SentChain(upload[u])'
        BY <2>2, SentEarly
      <3> QED
        BY <1>1, <2>1, <3>1, SentKept
    <2>4. FirstAlone' /\ Phases'
      BY <1>1, <2>1, <2>2, PhasesKept
    <2> QED
      BY <2>3, <2>4
  <1>4. ASSUME NEW u \in Uploads, NEW r \in DOMAIN recorder, Capture(u, r)
        PROVE  Sent' /\ FirstAlone' /\ Phases'
    <2>1. /\ \A v \in Uploads \ {u} : upload'[v] = upload[v]
          /\ UNCHANGED <<recorder, rows, objects, dropped>>
          /\ recorder[r].phase = "recording"
          /\ upload'[u].kind = "chunk" /\ upload'[u].step = "hash" /\ upload'[u].of = r
      BY <1>4, CaptureDoes
    <2>2. Sent'
      <3>1. SentChain(upload[u])'
        BY <2>1, SentEarly
      <3> QED
        BY <1>1, <2>1, <3>1, SentKept
    <2>3. FirstAlone' /\ Phases'
      BY <1>1, <2>1, PhasesKept
    <2> QED
      BY <2>2, <2>3
  <1>5. ASSUME NEW u \in Uploads, Hashed(u)
        PROVE  Sent' /\ FirstAlone' /\ Phases'
    <2>1. /\ \A v \in Uploads \ {u} : upload'[v] = upload[v]
          /\ UNCHANGED <<rows, objects, dropped>>
          /\ \A k \in DOMAIN recorder : recorder'[k].phase = recorder[k].phase
          /\ upload'[u].kind = upload[u].kind /\ upload'[u].step = "intent"
          /\ upload'[u].of = upload[u].of
      <3>1. /\ \A v \in Uploads \ {u} : upload'[v] = upload[v]
            /\ UNCHANGED <<rows, objects, dropped>>
            /\ upload'[u].kind = upload[u].kind /\ upload'[u].step = "intent"
            /\ upload'[u].of = upload[u].of
            /\ recorder'[upload[u].of].phase = recorder[upload[u].of].phase
            /\ \A k \in DOMAIN recorder \ {upload[u].of} : recorder'[k] = recorder[k]
        BY <1>5, HashedDoes
      <3> QED
        BY <3>1
    <2>2. Sent'
      <3>1. SentChain(upload[u])'
        BY <2>1, SentEarly
      <3> QED
        BY <1>1, <2>1, <3>1, SentKept
    <2>3. FirstAlone' /\ Phases'
      BY <1>1, <2>1, PhasesKept
    <2> QED
      BY <2>2, <2>3
  <1>6. CASE Next
    <2>1. NotYet'
      BY <1>1, <1>6, NotYetKept
    <2>2. Sent' /\ FirstAlone' /\ Phases'
      <3>1. CASE Wait \/ CompleteAnswer
        BY <1>2, <3>1 DEF SoundInv
      <3> QED
        BY <1>3, <1>4, <1>5, <1>6, <3>1, LoadSound, ResumeSound, RequestSound, DropFromBufferSound
           DEF Next
    <2> QED
      BY <2>1, <2>2 DEF SoundInv
  <1> QED
    BY <1>2, <1>6

-----------------------------------------------------------------------------
(* While one recorder is at work, and hashes one chunk at a time *)

OneLive == \A r \in DOMAIN recorder : recorder[r].phase # "unavailable" => r = Current

\* A recorder that is at work has what the database has.
Mirrors ==
    \A r \in DOMAIN recorder : recorder[r].phase # "unavailable" =>
        \A n \in DOMAIN database : /\ n \in DOMAIN recorder[r].memory
                                   /\ recorder[r].memory[n] = database[n]

\* A chain that uploads what was in a buffer.
Uploading(t) == t.kind # "none" /\ t.step # "hash"

\* What a recorder has and uploads is not beyond its last sequence ...
OwnDone ==
    \A r \in DOMAIN recorder : recorder[r].phase = "recording" =>
        /\ \A n \in DOMAIN recorder[r].memory : n <= recorder[r].sequence
        /\ \A u \in Uploads : Uploading(upload[u]) /\ upload[u].of = r =>
              \A n \in Ahead(upload[u]) : n <= recorder[r].sequence

\* ... or, while its first retry runs, is in the hand of that retry.
OwnAhead ==
    \A u \in Uploads : upload[u].kind = "first" =>
        LET r == upload[u].of
        IN  /\ \A n \in DOMAIN recorder[r].memory :
                  n <= recorder[r].sequence \/ n \in Ahead(upload[u])
            /\ \A v \in Uploads : Uploading(upload[v]) /\ upload[v].of = r =>
                  \A n \in Ahead(upload[v]) :
                      n <= recorder[r].sequence \/ n \in Ahead(upload[u])

OneHash ==
    \A u \in Uploads : upload[u].step = "hash" =>
        /\ upload[u].sequence = recorder[upload[u].of].sequence + 1
        /\ \A v \in Uploads \ {u} : upload[v].step # "hash"

Idling == \A r \in DOMAIN recorder : recorder[r].phase # "recording"

\* While nothing records, a sequence stands for one chunk everywhere.
Alike == Idling => \A x, y \in Tokens : x.sequence = y.sequence => x.content = y.content

\* What a chain uploads is what its recorder has under that sequence, if anything.
OwnAlike ==
    \A u \in Uploads : Uploading(upload[u]) =>
        \A x \in OfChain(upload[u]) :
            x.sequence \in DOMAIN recorder[upload[u].of].memory =>
                recorder[upload[u].of].memory[x.sequence].content = x.content

AloneInv ==
    /\ OneLive /\ Mirrors /\ OwnDone /\ OwnAhead /\ OneHash /\ Alike /\ OwnAlike
    /\ AllSafe

LEMMA ChainAhead ==
    ASSUME NEW t, NEW x \in OfChain(t)
    PROVE  x.sequence \in Ahead(t)
  BY DEF OfChain, OfRest, Token, Ahead

LEMMA AheadFromList ==
    ASSUME NEW list \in Seq(Pieces), list # <<>>, NEW t,
           t.sequence = list[1].sequence, t.rest = Tail(list)
    PROVE  \A n \in Ahead(t) : \E k \in DOMAIN list : n = list[k].sequence
  <1>1. SUFFICES ASSUME NEW k \in DOMAIN t.rest
                 PROVE  \E i \in DOMAIN list : t.rest[k].sequence = list[i].sequence
    BY DEF Ahead
  <1>2. k + 1 \in DOMAIN list /\ t.rest[k] = list[k + 1]
    BY <1>1
  <1> QED
    BY <1>2

\* A retry of a buffer has the buffer's sequences in hand, and no others.
LEMMA RetryingAhead ==
    ASSUME NEW kind, NEW r, NEW memory \in ChunkMaps, Listed(memory) # <<>>
    PROVE  LET t == Retrying(kind, r, Listed(memory))
           IN  /\ Ahead(t) \subseteq DOMAIN memory
               /\ DOMAIN memory \subseteq Ahead(t)
  <1> DEFINE list == Listed(memory)
             t == Retrying(kind, r, list)
  <1>1. /\ list \in Seq(Pieces) /\ list # <<>>
        /\ \A k \in DOMAIN list : list[k].sequence \in DOMAIN memory
        /\ \A n \in DOMAIN memory : \E k \in DOMAIN list : list[k].sequence = n
    BY ListedIs
  <1> HIDE DEF list
  <1>2. t.sequence = list[1].sequence
    BY <1>1, RetryingIs
  <1>3. t.rest = Tail(list)
    BY <1>1 DEF Retrying, Idle
  <1> HIDE DEF t
  <1>4. \A k \in DOMAIN list : list[k].sequence \in Ahead(t)
    BY ONLY <1>1, <1>2, <1>3, AheadOfList
  <1>5. \A n \in Ahead(t) : \E k \in DOMAIN list : n = list[k].sequence
    BY ONLY <1>1, <1>2, <1>3, AheadFromList
  <1>6. Ahead(t) \subseteq DOMAIN memory /\ DOMAIN memory \subseteq Ahead(t)
    BY <1>1, <1>4, <1>5
  <1> QED
    BY <1>6 DEF t, list

\* Steps that move no chunk from where it is: a chain goes on with its request or is given
\* up, and a recorder whose first retry was given up stops.
LEMMA AloneQuiet ==
    ASSUME TypeOK, AloneInv, Sent, Tokens' \subseteq Tokens, UNCHANGED <<database, captured>>,
           DOMAIN recorder' = DOMAIN recorder, Current' = Current,
           \A k \in DOMAIN recorder :
              /\ recorder'[k].memory = recorder[k].memory
              /\ recorder'[k].sequence = recorder[k].sequence
              /\ recorder'[k].phase = recorder[k].phase
                   \/ (recorder[k].phase = "retrying" /\ recorder'[k].phase = "unavailable"),
           \A u \in Uploads :
              \/ upload'[u] = upload[u]
              \/ /\ Uploading(upload[u])
                 /\ \/ upload'[u] = Idle
                    \/ /\ Uploading(upload'[u])
                       /\ upload'[u].kind = upload[u].kind /\ upload'[u].of = upload[u].of
                       /\ upload'[u].sequence = upload[u].sequence
                       /\ upload'[u].chunk = upload[u].chunk
                       /\ upload'[u].rest = upload[u].rest,
           objects \subseteq objects', dropped \subseteq dropped',
           \A n \in DOMAIN rows : rows'[n].chunk = rows[n].chunk
    PROVE  AloneInv'
  <1>1. ASSUME NEW u \in Uploads, Uploading(upload'[u])
        PROVE  /\ Uploading(upload[u]) /\ upload'[u].of = upload[u].of
               /\ upload'[u].kind = upload[u].kind
               /\ Ahead(upload'[u]) = Ahead(upload[u]) /\ OfChain(upload'[u]) = OfChain(upload[u])
               /\ upload[u].of \in DOMAIN recorder
    <2>1. upload'[u] # Idle
      BY <1>1, IdleChain DEF Uploading
    <2>2. /\ Uploading(upload[u]) /\ upload'[u].of = upload[u].of
          /\ upload'[u].kind = upload[u].kind
          /\ Ahead(upload'[u]) = Ahead(upload[u]) /\ OfChain(upload'[u]) = OfChain(upload[u])
      BY <1>1, <2>1 DEF Ahead, OfChain
    <2> QED
      BY <2>2, ChainsAre DEF Uploading
  <1>2. \A u \in Uploads : upload'[u].step = "hash" => upload'[u] = upload[u]
    BY IdleChain DEF Uploading
  <1>3. \A u \in Uploads : upload[u].step = "hash" => upload'[u] = upload[u]
    BY DEF Uploading
  <1>4. \A u \in Uploads : upload'[u].kind = "first" => Uploading(upload'[u])
    <2>1. \A u \in Uploads : upload[u].kind = "first" => Uploading(upload[u])
      BY ChainsAre DEF ChainSound, Uploading
    <2> QED
      BY <2>1, IdleChain
  <1>5. \A u \in Uploads : upload[u].step = "hash" => upload[u].of \in DOMAIN recorder
    BY ChainsAre DEF ChainSound
  <1>6. OneLive' /\ Mirrors'
    BY DEF AloneInv, OneLive, Mirrors
  <1>7. OwnDone'
    BY <1>1 DEF AloneInv, OwnDone
  <1>8. OwnAhead'
    <2>1. SUFFICES ASSUME NEW u \in Uploads, upload'[u].kind = "first"
                   PROVE  LET r == upload'[u].of
                          IN  /\ \A n \in DOMAIN recorder'[r].memory :
                                    n <= recorder'[r].sequence \/ n \in Ahead(upload'[u])
                              /\ \A v \in Uploads : Uploading(upload'[v]) /\ upload'[v].of = r =>
                                    \A n \in Ahead(upload'[v]) :
                                        n <= recorder'[r].sequence \/ n \in Ahead(upload'[u])
      BY DEF OwnAhead
    <2>2. upload[u].kind = "first" /\ upload'[u].of = upload[u].of
          /\ Ahead(upload'[u]) = Ahead(upload[u]) /\ upload[u].of \in DOMAIN recorder
      BY <1>1, <1>4, <2>1
    <2> QED
      BY <1>1, <2>2 DEF AloneInv, OwnAhead
  <1>9. OneHash'
    BY <1>2, <1>5 DEF AloneInv, OneHash
  <1>10. Alike'
    BY DEF AloneInv, Alike, Idling
  <1>11. OwnAlike'
    BY <1>1 DEF AloneInv, OwnAlike
  <1>12. AllSafe'
    <2>1. SUFFICES ASSUME NEW c \in (1..captured) \ dropped, Safe(c)
                   PROVE  Safe(c)'
      BY DEF AllSafe, AloneInv
    <2>2. \A n \in objects : n \in objects' /\ rows'[n].chunk = rows[n].chunk
      BY DEF Sent
    <2> QED
      BY <1>3, <2>1, <2>2 DEF Safe
  <1> QED
    BY <1>6, <1>7, <1>8, <1>9, <1>10, <1>11, <1>12 DEF AloneInv

LEMMA RequestAlone ==
    ASSUME TypeOK, SoundInv, AloneInv, NEW u \in Uploads,
           \/ RequestIntent(u) \/ IntentFails(u) \/ IntentNotCommitted(u) \/ Put(u) \/ PutFails(u)
    PROVE  AloneInv'
  <1> DEFINE t == upload[u]
  <1>1. /\ UNCHANGED <<database, captured>>
        /\ t.step \in {"intent", "put"} /\ t.kind # "none"
        /\ rows' = rows \/ rows' = Append(rows, Row(t.chunk))
        /\ objects \subseteq objects' /\ dropped \subseteq dropped'
        /\ TypeOK'
        /\ \/ Rejected(u)
           \/ /\ recorder' = recorder /\ \A v \in Uploads \ {u} : upload'[v] = upload[v]
              /\ upload'[u].kind = t.kind /\ upload'[u].of = t.of
              /\ upload'[u].sequence = t.sequence /\ upload'[u].rest = t.rest
              /\ upload'[u].chunk = t.chunk
              /\ upload'[u].step \in {"put", "remove"}
    <2>1. CASE RequestIntent(u)
      BY <2>1, RequestIntentDoes
    <2>2. CASE IntentFails(u)
      BY <2>2, IntentFailsDoes
    <2>3. CASE IntentNotCommitted(u)
      BY <2>3, IntentNotCommittedDoes
    <2>4. CASE Put(u)
      BY <2>4, PutDoes
    <2>5. CASE PutFails(u)
      BY <2>5, PutFailsDoes
    <2> QED
      BY <2>1, <2>2, <2>3, <2>4, <2>5
  <1>2. \A n \in DOMAIN rows : rows'[n].chunk = rows[n].chunk
    <2>1. t.chunk \in Chunks
      BY ChainsAre
    <2> QED
      BY <1>1, <2>1, IssuedRows
  <1>3. Uploading(t) /\ Sent /\ Tokens' \subseteq Tokens
    BY <1>1, RequestTokens DEF Uploading, SoundInv
  <1>4. CASE Rejected(u)
    <2>1. /\ upload'[u] = Idle /\ \A v \in Uploads \ {u} : upload'[v] = upload[v]
          /\ DOMAIN recorder' = DOMAIN recorder
          /\ \A k \in DOMAIN recorder :
                /\ recorder'[k].memory = recorder[k].memory
                /\ recorder'[k].sequence = recorder[k].sequence
                /\ recorder'[k].phase = IF t.kind = "first" /\ k = t.of
                                        THEN "unavailable" ELSE recorder[k].phase
      BY <1>1, <1>4, RejectedDoes
    <2>2. \A k \in DOMAIN recorder :
                recorder'[k].phase = recorder[k].phase
                   \/ (recorder[k].phase = "retrying" /\ recorder'[k].phase = "unavailable")
      BY <2>1 DEF SoundInv, FirstAlone
    <2>3. Current' = Current
      BY <1>1, <2>1 DEF Current, TypeOK
    <2> QED
      BY <1>1, <1>2, <1>3, <2>1, <2>2, <2>3, AloneQuiet
  <1>5. CASE ~Rejected(u)
    <2>1. Uploading(upload'[u])
      BY <1>1, <1>5 DEF Uploading
    <2>2. Current' = Current
      BY <1>1, <1>5 DEF Current
    <2> QED
      BY <1>1, <1>2, <1>3, <1>5, <2>1, <2>2, AloneQuiet
  <1> QED
    BY <1>4, <1>5

LEMMA SameAlone ==
    ASSUME TypeOK, SoundInv, AloneInv, Wait \/ CompleteAnswer \/ UNCHANGED vars
    PROVE  AloneInv'
  <1>1. /\ UNCHANGED <<recorder, database, upload, captured, objects>> /\ dropped' = dropped
        /\ \A n \in DOMAIN rows : rows'[n].chunk = rows[n].chunk
    <2>1. CASE Wait
      BY <2>1, WaitDoes
    <2>2. CASE CompleteAnswer
      BY <2>2, CompleteAnswerDoes
    <2>3. CASE UNCHANGED vars
      BY <2>3 DEF vars
    <2> QED
      BY <2>1, <2>2, <2>3
  <1>2. Tokens' = Tokens /\ Current' = Current
    BY <1>1 DEF Tokens, Current
  <1>3. Sent
    BY DEF SoundInv
  <1> QED
    BY <1>1, <1>2, <1>3, AloneQuiet

\* A token of the database tells what the database has.
LEMMA OneToken ==
    ASSUME NEW b, NEW x \in OfBuffer(b)
    PROVE  x.sequence \in DOMAIN b /\ b[x.sequence].content = x.content
  BY DEF OfBuffer, Token

LEMMA LoadAlone ==
    ASSUME TypeOK, SoundInv, NEW u \in Uploads, Load(u)
    PROVE  AloneInv'
  <1> DEFINE new == recorder'[1]
             list == Listed(database)
  <1>1. /\ TypeOK' /\ recorder' = <<new>> /\ DOMAIN recorder' = {1}
        /\ \/ new.phase = "recording" /\ database = <<>> /\ upload'[u] = Idle
           \/ /\ new.phase = "retrying" /\ list # <<>> /\ upload'[u] = Retrying("first", 1, list)
           \/ new.phase = "unavailable" /\ upload'[u] = Idle
        /\ new.phase # "unavailable" => new.memory = database /\ new.sequence = 0
        /\ new.phase = "unavailable" => new.memory = <<>>
        /\ \A v \in Uploads \ {u} : upload'[v] = Idle
        /\ dropped' = dropped \cup (1..captured \ Kept({database}))
        /\ UNCHANGED <<database, rows, objects, captured>>
    BY LoadDoes
  <1>2. Current' = 1 /\ database \in ChunkMaps /\ list \in Seq(Pieces)
    BY <1>1, MemoriesAre, ListedIs DEF Current
  <1>3. Tokens' \subseteq OfBuffer(database)
    BY LoadTokens
  <1> HIDE DEF list
  <1>4. \A v \in Uploads : upload'[v] # Idle =>
           /\ v = u /\ new.phase = "retrying" /\ upload'[v].kind = "first" /\ upload'[v].of = 1
           /\ upload'[v].step = "intent"
           /\ \A n \in DOMAIN database : n \in Ahead(upload'[v])
           /\ \A n \in Ahead(upload'[v]) : n \in DOMAIN database
    BY <1>1, <1>2, RetryingIs, RetryingAhead DEF list
  <1>5. OneLive' /\ Mirrors'
    BY <1>1, <1>2 DEF OneLive, Mirrors
  <1>6. OwnDone'
    <2>1. ASSUME new.phase = "recording"
          PROVE  new.memory = <<>> /\ \A v \in Uploads : upload'[v] = Idle
      BY <1>1, <1>4, <2>1
    <2> QED
      BY <1>1, <2>1, IdleChain DEF OwnDone, Uploading
  <1>7. OwnAhead'
    BY <1>1, <1>4, IdleChain DEF OwnAhead, Uploading
  <1>8. OneHash'
    BY <1>4, IdleChain DEF OneHash
  <1>9. Alike'
    BY <1>3, OneToken DEF Alike
  <1>10. OwnAlike'
    <2>1. SUFFICES ASSUME NEW v \in Uploads, upload'[v] # Idle, NEW x \in OfChain(upload'[v])
                   PROVE  recorder'[upload'[v].of].memory[x.sequence].content = x.content
      BY IdleChain DEF OwnAlike, Uploading
    <2>2. x \in OfBuffer(database)
      BY <1>3, <2>1 DEF Tokens
    <2> QED
      BY <1>1, <1>4, <2>1, <2>2, OneToken
  <1>11. AllSafe'
    <2>1. SUFFICES ASSUME NEW c \in (1..captured) \ dropped'
                   PROVE  Safe(c)'
      BY <1>1 DEF AllSafe
    <2>2. c \in Kept({database})
      BY <1>1, <2>1
    <2> QED
      BY <1>1, <2>2 DEF Kept, Safe
  <1> QED
    BY <1>5, <1>6, <1>7, <1>8, <1>9, <1>10, <1>11 DEF AloneInv

\* A recorder that is made while none is at work has the database to itself.
LEMMA ResumeAlone ==
    ASSUME TypeOK, SoundInv, AloneInv, NEW u \in Uploads, Resume(u), ~overlapped'
    PROVE  AloneInv'
  <1> DEFINE n == Current + 1
             new == recorder'[n]
             list == Listed(database)
  <1>1. /\ TypeOK' /\ n \notin DOMAIN recorder /\ Current' = n
        /\ DOMAIN recorder' = DOMAIN recorder \cup {n}
        /\ \A k \in DOMAIN recorder : recorder'[k] = recorder[k]
        /\ \/ new.phase = "recording" /\ database = <<>> /\ upload'[u] = Idle
           \/ /\ new.phase = "retrying" /\ list # <<>> /\ upload'[u] = Retrying("first", n, list)
           \/ new.phase = "unavailable" /\ upload'[u] = Idle
        /\ new.phase # "unavailable" => new.memory = database /\ new.sequence = 0
        /\ new.phase = "unavailable" => new.memory = <<>>
        /\ \A v \in Uploads \ {u} : upload'[v] = upload[v]
        /\ upload[u] = Idle
        /\ overlapped' = (overlapped \/ \E k \in DOMAIN recorder : recorder[k].phase # "unavailable")
        /\ UNCHANGED <<database, rows, objects, captured, dropped>>
    BY ResumeDoes
  <1>2. \A k \in DOMAIN recorder : recorder[k].phase = "unavailable"
    BY <1>1
  <1>3. database \in ChunkMaps /\ list \in Seq(Pieces)
    BY MemoriesAre, ListedIs
  <1>4. Tokens' \subseteq Tokens
    BY ResumeTokens
  <1> HIDE DEF list, n
  <1>5. \A v \in Uploads : upload[v].kind # "none" => /\ upload[v].of \in DOMAIN recorder
                                                      /\ upload[v].step # "hash"
                                                      /\ upload[v].kind = "open"
    BY <1>2, ChainsAre DEF SoundInv, FirstAlone, Phases, ChainSound, Chains
  <1>6. \A v \in Uploads : upload'[v] # upload[v] =>
           /\ v = u /\ new.phase = "retrying" /\ upload'[v].kind = "first" /\ upload'[v].of = n
           /\ upload'[v].step = "intent"
           /\ \A k \in DOMAIN database : k \in Ahead(upload'[v])
           /\ \A k \in Ahead(upload'[v]) : k \in DOMAIN database
           /\ OfChain(upload'[v]) \subseteq OfBuffer(database)
    BY <1>1, <1>3, RetryingIs, RetryingAhead, RetryingTokens, ListedTokens DEF list
  <1>7. OneLive' /\ Mirrors'
    BY <1>1, <1>2 DEF OneLive, Mirrors
  <1>8. OwnDone'
    <2>1. SUFFICES ASSUME new.phase = "recording"
                   PROVE  /\ \A k \in DOMAIN new.memory : k <= new.sequence
                          /\ \A v \in Uploads : Uploading(upload'[v]) => upload'[v].of # n
      BY <1>1, <1>2 DEF OwnDone
    <2>2. new.memory = <<>> /\ \A v \in Uploads : upload'[v] = upload[v]
      BY <1>1, <1>6, <2>1
    <2> QED
      BY <1>1, <1>5, <2>2 DEF Uploading
  <1>9. OwnAhead'
    <2>1. SUFFICES ASSUME NEW v \in Uploads, upload'[v].kind = "first"
                   PROVE  LET r == upload'[v].of
                          IN  /\ \A k \in DOMAIN recorder'[r].memory :
                                    k <= recorder'[r].sequence \/ k \in Ahead(upload'[v])
                              /\ \A w \in Uploads : Uploading(upload'[w]) /\ upload'[w].of = r =>
                                    \A k \in Ahead(upload'[w]) :
                                        k <= recorder'[r].sequence \/ k \in Ahead(upload'[v])
      BY DEF OwnAhead
    <2>2. upload'[v] # upload[v] /\ v = u /\ upload'[v].of = n /\ new.memory = database
      BY <1>1, <1>5, <1>6, <2>1
    <2>3. \A w \in Uploads \ {u} : Uploading(upload'[w]) => upload'[w].of # n
      BY <1>1, <1>5 DEF Uploading
    <2> QED
      BY <1>6, <2>2, <2>3
  <1>10. OneHash'
    BY <1>5, <1>6, ChainsAre DEF OneHash, ChainSound
  <1>11. Alike'
    <2>1. Idling
      BY <1>2 DEF Idling
    <2> QED
      BY <1>4, <2>1 DEF AloneInv, Alike
  <1>12. OwnAlike'
    <2>1. SUFFICES ASSUME NEW v \in Uploads, Uploading(upload'[v]), NEW x \in OfChain(upload'[v]),
                          x.sequence \in DOMAIN recorder'[upload'[v].of].memory
                   PROVE  recorder'[upload'[v].of].memory[x.sequence].content = x.content
      BY DEF OwnAlike
    <2>2. CASE upload'[v] = upload[v]
      BY <1>1, <1>5, <2>1, <2>2 DEF AloneInv, OwnAlike, Uploading
    <2>3. CASE upload'[v] # upload[v]
      <3>1. x \in OfBuffer(database) /\ upload'[v].of = n /\ new.memory = database
        BY <1>1, <1>6, <2>1, <2>3
      <3> QED
        BY <3>1, OneToken
    <2> QED
      BY <2>2, <2>3
  <1>13. AllSafe'
    <2>1. SUFFICES ASSUME NEW c \in (1..captured) \ dropped, Safe(c)
                   PROVE  Safe(c)'
      BY <1>1 DEF AllSafe, AloneInv
    <2>2. \A v \in Uploads : upload[v].step # "hash"
      BY <1>5, ChainsAre DEF ChainSound
    <2> QED
      BY <1>1, <2>1, <2>2 DEF Safe
  <1> QED
    BY <1>7, <1>8, <1>9, <1>10, <1>11, <1>12, <1>13 DEF AloneInv

\* What the open socket loads changes nothing for a recorder that is at work, and keeps every
\* content of one that is not.
LEMMA SocketOpensAlone ==
    ASSUME TypeOK, SoundInv, AloneInv, NEW u \in Uploads, SocketOpens(u)
    PROVE  AloneInv'
  <1> DEFINE r == Current
             old == recorder[r].memory
             memory == Loaded(old)
             list == Listed(memory)
             live == recorder[r].phase # "unavailable"
  <1>1. /\ TypeOK' /\ upload[u] = Idle /\ r \in DOMAIN recorder
        /\ upload'[u] = Retrying("open", r, list) /\ memory \in ChunkMaps
        /\ \A v \in Uploads \ {u} : upload'[v] = upload[v]
        /\ DOMAIN recorder' = DOMAIN recorder
        /\ recorder'[r].memory = memory
        /\ \A k \in DOMAIN recorder : /\ recorder'[k].phase = recorder[k].phase
                                      /\ recorder'[k].sequence = recorder[k].sequence
        /\ \A k \in DOMAIN recorder \ {r} : recorder'[k] = recorder[k]
        /\ UNCHANGED <<database, rows, objects, captured, dropped>>
    BY SocketOpensDoes
  <1>2. Current' = r
    BY <1>1 DEF Current, TypeOK
  <1>3. /\ old \in ChunkMaps /\ database \in ChunkMaps /\ list \in Seq(Pieces)
        /\ DOMAIN memory = DOMAIN old \cup DOMAIN database
        /\ \A k \in DOMAIN database : memory[k] = database[k]
        /\ \A k \in DOMAIN old \ DOMAIN database : memory[k] = old[k]
    BY <1>1, MemoriesAre, LoadedIs, ListedIs
  <1>4. live => DOMAIN memory = DOMAIN old /\ \A k \in DOMAIN old : memory[k] = old[k]
    BY <1>1, <1>3 DEF AloneInv, Mirrors
  <1>5. ~live => \A x, y \in Tokens : x.sequence = y.sequence => x.content = y.content
    BY DEF AloneInv, OneLive, Alike, Idling
  <1>6. Tokens' \subseteq Tokens
    BY SocketOpensTokens
  <1>7. \A k \in DOMAIN old : memory[k].content = old[k].content
    <2>1. SUFFICES ASSUME NEW k \in DOMAIN old, ~live
                   PROVE  memory[k].content = old[k].content
      BY <1>4
    <2>2. Token(k, old[k]) \in Tokens
      BY <1>1, TokensAre DEF OfBuffer
    <2>3. Token(k, memory[k]) \in Tokens
      BY <1>3, <2>1, <2>2, TokensAre DEF OfBuffer
    <2> QED
      BY <1>5, <2>1, <2>2, <2>3 DEF Token
  <1> HIDE DEF memory, list
  <1>8. upload'[u] # Idle =>
           /\ upload'[u].kind = "open" /\ upload'[u].of = r /\ upload'[u].step = "intent"
           /\ Ahead(upload'[u]) \subseteq DOMAIN memory
           /\ OfChain(upload'[u]) \subseteq OfBuffer(memory)
    <2>1. SUFFICES ASSUME upload'[u] # Idle
                   PROVE  /\ upload'[u].kind = "open" /\ upload'[u].of = r
                          /\ upload'[u].step = "intent"
                          /\ Ahead(upload'[u]) \subseteq DOMAIN memory
                          /\ OfChain(upload'[u]) \subseteq OfBuffer(memory)
      OBVIOUS
    <2>2. list # <<>>
      BY <1>1, <2>1, RetryingNothing
    <2>3. OfChain(upload'[u]) \subseteq OfBuffer(memory)
      BY <1>1, <1>3, RetryingTokens, ListedTokens DEF list
    <2>4. Ahead(upload'[u]) \subseteq DOMAIN memory
      BY <1>1, <2>2, RetryingAhead DEF list
    <2> QED
      BY <1>1, <1>3, <2>2, <2>3, <2>4, RetryingIs
  <1>9. upload'[u].step # "hash" /\ upload'[u].kind \notin {"first", "chunk"}
    BY <1>8, IdleChain
  <1>10. OneLive' /\ Mirrors'
    BY <1>1, <1>2, <1>3 DEF AloneInv, OneLive, Mirrors
  <1>11. OwnDone'
    <2>1. SUFFICES ASSUME NEW k \in DOMAIN recorder, recorder[k].phase = "recording"
                   PROVE  /\ \A n \in DOMAIN recorder'[k].memory : n <= recorder[k].sequence
                          /\ \A v \in Uploads : Uploading(upload'[v]) /\ upload'[v].of = k =>
                                \A n \in Ahead(upload'[v]) : n <= recorder[k].sequence
      BY <1>1 DEF OwnDone
    <2>2. k = r
      BY <2>1 DEF AloneInv, OneLive
    <2>3. \A n \in DOMAIN memory : n <= recorder[k].sequence
      BY <1>4, <2>1, <2>2 DEF AloneInv, OwnDone
    <2>4. \A v \in Uploads \ {u} : Uploading(upload'[v]) /\ upload'[v].of = k =>
                \A n \in Ahead(upload'[v]) : n <= recorder[k].sequence
      BY <1>1, <2>1 DEF AloneInv, OwnDone
    <2>5. Uploading(upload'[u]) => \A n \in Ahead(upload'[u]) : n <= recorder[k].sequence
      BY <1>8, <2>3, IdleChain DEF Uploading
    <2> QED
      BY <1>1, <2>2, <2>3, <2>4, <2>5
  <1>12. OwnAhead'
    <2>1. SUFFICES ASSUME NEW v \in Uploads \ {u}, upload[v].kind = "first"
                   PROVE  LET k == upload[v].of
                          IN  /\ \A n \in DOMAIN recorder'[k].memory :
                                    n <= recorder[k].sequence \/ n \in Ahead(upload[v])
                              /\ \A w \in Uploads : Uploading(upload'[w]) /\ upload'[w].of = k =>
                                    \A n \in Ahead(upload'[w]) :
                                        n <= recorder[k].sequence \/ n \in Ahead(upload[v])
      BY <1>1, <1>9, ChainsAre DEF OwnAhead
    <2>2. upload[v].of = r /\ live
      BY <2>1, ChainsAre DEF SoundInv, FirstAlone, AloneInv, OneLive
    <2>3. \A n \in DOMAIN memory : n <= recorder[r].sequence \/ n \in Ahead(upload[v])
      BY <1>4, <2>1, <2>2 DEF AloneInv, OwnAhead
    <2>4. \A w \in Uploads \ {u} : Uploading(upload'[w]) /\ upload'[w].of = r =>
                \A n \in Ahead(upload'[w]) : n <= recorder[r].sequence \/ n \in Ahead(upload[v])
      BY <1>1, <2>1, <2>2 DEF AloneInv, OwnAhead
    <2>5. Uploading(upload'[u]) =>
                \A n \in Ahead(upload'[u]) : n <= recorder[r].sequence \/ n \in Ahead(upload[v])
      BY <1>8, <2>3, IdleChain DEF Uploading
    <2> QED
      BY <1>1, <2>2, <2>3, <2>4, <2>5
  <1>13. OneHash'
    BY <1>1, <1>9, ChainsAre DEF AloneInv, OneHash, ChainSound
  <1>14. Alike'
    BY <1>1, <1>6 DEF AloneInv, Alike, Idling
  <1>15. OwnAlike'
    <2>1. SUFFICES ASSUME NEW v \in Uploads, Uploading(upload'[v]), NEW x \in OfChain(upload'[v]),
                          x.sequence \in DOMAIN recorder'[upload'[v].of].memory
                   PROVE  recorder'[upload'[v].of].memory[x.sequence].content = x.content
      BY DEF OwnAlike
    <2>2. CASE v = u
      <3>1. x \in OfBuffer(memory) /\ upload'[v].of = r
        BY <1>8, <2>1, <2>2, IdleChain DEF Uploading
      <3> QED
        BY <1>1, <3>1, OneToken
    <2>3. CASE v # u /\ upload'[v].of # r
      BY <1>1, <2>1, <2>3, ChainsAre DEF AloneInv, OwnAlike, Uploading
    <2>4. CASE v # u /\ upload'[v].of = r
      <3>1. upload'[v] = upload[v] /\ Uploading(upload[v])
        BY <1>1, <2>1, <2>4
      <3>2. CASE live
        BY <1>1, <1>4, <2>1, <2>4, <3>1, <3>2 DEF AloneInv, OwnAlike
      <3>3. CASE ~live
        <4>1. x \in Tokens /\ x.sequence \in DOMAIN memory
          BY <1>1, <2>1, <2>4, <3>1, TokensAre
        <4>2. Token(x.sequence, memory[x.sequence]) \in Tokens
          <5>1. Token(x.sequence, memory[x.sequence]) \in OfBuffer(memory)
            BY <4>1 DEF OfBuffer
          <5>2. OfBuffer(memory) \subseteq OfBuffer(old) \cup OfBuffer(database)
            BY <1>3, LoadedTokens DEF memory
          <5> QED
            BY <1>1, <5>1, <5>2, TokensAre
        <4> QED
          BY <1>1, <1>5, <2>4, <3>3, <4>1, <4>2 DEF Token
      <3> QED
        BY <3>2, <3>3
    <2> QED
      BY <2>2, <2>3, <2>4
  <1>16. AllSafe'
    <2>1. SUFFICES ASSUME NEW c \in (1..captured) \ dropped, Safe(c)
                   PROVE  Safe(c)'
      BY <1>1 DEF AllSafe, AloneInv
    <2>2. \A v \in Uploads : upload[v].step = "hash" => upload'[v] = upload[v]
      BY <1>1, IdleChain
    <2>3. \A k \in DOMAIN recorder : \A n \in DOMAIN recorder[k].memory :
             n \in DOMAIN recorder'[k].memory
                /\ recorder'[k].memory[n].content = recorder[k].memory[n].content
      BY <1>1, <1>3, <1>7
    <2> QED
      BY <1>1, <2>1, <2>2, <2>3 DEF Safe
  <1> QED
    BY <1>10, <1>11, <1>12, <1>13, <1>14, <1>15, <1>16 DEF AloneInv

\* The recorder that records is the last one; it has one chunk to hash.
LEMMA CaptureAlone ==
    ASSUME TypeOK, SoundInv, AloneInv, NEW u \in Uploads, NEW r \in DOMAIN recorder,
           Capture(u, r), ~overlapped'
    PROVE  AloneInv'
  <1>1. /\ recorder[r].phase = "recording" /\ upload[u] = Idle
        /\ captured' = captured + 1 /\ captured \in Nat
        /\ Hashing(r) = {}
        /\ upload'[u].kind = "chunk" /\ upload'[u].step = "hash" /\ upload'[u].of = r
        /\ upload'[u].sequence = recorder[r].sequence + 1
        /\ upload'[u].chunk.content = captured + 1
        /\ \A v \in Uploads \ {u} : upload'[v] = upload[v]
        /\ UNCHANGED <<recorder, database, rows, objects, dropped>>
    <2>1. /\ recorder[r].phase = "recording" /\ upload[u] = Idle
          /\ captured' = captured + 1 /\ captured \in Nat
          /\ upload'[u].kind = "chunk" /\ upload'[u].step = "hash" /\ upload'[u].of = r
          /\ upload'[u].sequence = recorder[r].sequence + 1
          /\ upload'[u].chunk = Chunk(captured + 1, 0, page.now + 1)
          /\ \A v \in Uploads \ {u} : upload'[v] = upload[v]
          /\ UNCHANGED <<recorder, database, rows, objects, dropped>>
      BY CaptureDoes DEF TypeOK
    <2>2. Hashing(r) = {}
      BY DEF Capture
    <2> QED
      BY <2>1, <2>2 DEF Chunk
  <1>2. Current' = Current /\ r = Current
    BY <1>1 DEF Current, AloneInv, OneLive
  <1>3. \A v \in Uploads \ {u} : upload[v].step # "hash"
    <2>1. SUFFICES ASSUME NEW v \in Uploads \ {u}, upload[v].step = "hash"
                   PROVE  FALSE
      OBVIOUS
    <2>2. upload[v].kind = "chunk" /\ upload[v].of \in DOMAIN recorder
      BY <2>1, ChainsAre DEF ChainSound
    <2>3. upload[v].of = r
      BY <1>2, <2>2 DEF SoundInv, Phases, AloneInv, OneLive
    <2> QED
      BY <1>1, <2>1, <2>3 DEF Hashing
  <1>4. OneLive' /\ Mirrors'
    BY <1>1, <1>2 DEF AloneInv, OneLive, Mirrors
  <1>5. ~Uploading(upload'[u])
    BY <1>1 DEF Uploading
  <1>6. OwnDone' /\ OwnAlike'
    BY <1>1, <1>5 DEF AloneInv, OwnDone, OwnAlike
  <1>7. OwnAhead'
    BY <1>1, <1>5 DEF AloneInv, OwnAhead
  <1>8. OneHash'
    BY <1>1, <1>3 DEF OneHash
  <1>9. Alike'
    BY <1>1 DEF Alike, Idling
  <1>10. AllSafe'
    <2>1. SUFFICES ASSUME NEW c \in (1..captured + 1) \ dropped
                   PROVE  Safe(c)'
      BY <1>1 DEF AllSafe
    <2>2. CASE c = captured + 1
      BY <1>1, <2>2 DEF Safe
    <2>3. CASE c # captured + 1
      <3>1. Safe(c)
        BY <1>1, <2>1, <2>3 DEF AllSafe, AloneInv
      <3>2. \A v \in Uploads : upload[v].step = "hash" => upload'[v] = upload[v]
        BY <1>1, IdleChain
      <3> QED
        BY <1>1, <3>1, <3>2 DEF Safe
    <2> QED
      BY <2>2, <2>3
  <1> QED
    BY <1>4, <1>6, <1>7, <1>8, <1>9, <1>10 DEF AloneInv

LEMMA AheadTypes ==
    ASSUME TypeOK, NEW u \in Uploads
    PROVE  Ahead(upload[u]) \subseteq Nat
  <1>1. upload[u].sequence \in Nat /\ upload[u].rest \in Seq(Pieces)
    BY ChainsAre
  <1>2. ASSUME NEW k \in DOMAIN upload[u].rest
        PROVE  upload[u].rest[k].sequence \in Nat
    <2>1. upload[u].rest[k] \in Pieces
      BY <1>1
    <2> QED
      BY <2>1 DEF Pieces
  <1> QED
    BY <1>1, <1>2 DEF Ahead

\* A chunk that was hashed takes a sequence which its recorder and the database have free.
LEMMA HashedAlone ==
    ASSUME TypeOK, SoundInv, AloneInv, NEW u \in Uploads, Hashed(u)
    PROVE  AloneInv'
  <1> DEFINE t == upload[u]
             n == t.sequence
             r == t.of
             chunk == [t.chunk EXCEPT !.start = recorder[r].start]
             memory == recorder[r].memory
  <1>1. /\ TypeOK' /\ t.step = "hash" /\ t.kind = "chunk" /\ t.rest = <<>>
        /\ upload'[u].kind = "chunk" /\ upload'[u].step = "intent" /\ upload'[u].of = r
        /\ upload'[u].sequence = n /\ upload'[u].rest = <<>> /\ upload'[u].chunk = chunk
        /\ chunk \in Chunks /\ chunk.content = t.chunk.content
        /\ \A v \in Uploads \ {u} : upload'[v] = upload[v]
        /\ r \in DOMAIN recorder /\ DOMAIN recorder' = DOMAIN recorder
        /\ recorder'[r].sequence = n /\ recorder'[r].memory = With(memory, n, chunk)
        /\ recorder'[r].phase = recorder[r].phase
        /\ \A k \in DOMAIN recorder \ {r} : recorder'[k] = recorder[k]
        /\ database' = With(database, n, chunk)
        /\ UNCHANGED <<rows, objects, captured, dropped>>
    BY HashedDoes
  <1>2. recorder[r].phase = "recording" /\ r = Current
    BY <1>1 DEF SoundInv, Phases, AloneInv, OneLive
  <1>3. Current' = Current
    BY <1>1 DEF Current, TypeOK
  <1>4. /\ n = recorder[r].sequence + 1 /\ recorder[r].sequence \in Nat /\ n \in Nat
        /\ \A v \in Uploads \ {u} : upload[v].step # "hash"
    BY <1>1, MemoriesAre DEF AloneInv, OneHash
  <1>5. /\ memory \in ChunkMaps /\ database \in ChunkMaps
        /\ \A k \in DOMAIN memory : k <= recorder[r].sequence /\ k \in Nat
        /\ n \notin DOMAIN memory /\ n \notin DOMAIN database
    <2>1. memory \in ChunkMaps /\ database \in ChunkMaps
      BY <1>1, MemoriesAre
    <2>2. \A k \in DOMAIN memory : k <= recorder[r].sequence
      BY <1>1, <1>2 DEF AloneInv, OwnDone
    <2>3. \A k \in DOMAIN memory : k \in Nat
      BY <2>1, BufferIs
    <2>4. n \notin DOMAIN memory
      BY <1>4, <2>2
    <2>5. \A k \in DOMAIN database : k \in DOMAIN memory
      BY <1>1, <1>2 DEF AloneInv, Mirrors
    <2> QED
      BY <2>1, <2>2, <2>3, <2>4, <2>5
  <1> HIDE DEF chunk
  <1>6. /\ DOMAIN With(memory, n, chunk) = DOMAIN memory \cup {n}
        /\ With(memory, n, chunk)[n] = chunk
        /\ \A k \in DOMAIN memory : With(memory, n, chunk)[k] = memory[k]
        /\ DOMAIN With(database, n, chunk) = DOMAIN database \cup {n}
        /\ With(database, n, chunk)[n] = chunk
        /\ \A k \in DOMAIN database : With(database, n, chunk)[k] = database[k]
    BY <1>5 DEF With
  <1>7. \A v \in Uploads : upload[v].kind # "first"
    BY <1>1, <1>2, ChainsAre DEF SoundInv, FirstAlone, AloneInv, OneLive
  <1>8. \A v \in Uploads \ {u} : Uploading(upload[v]) /\ upload[v].of = r =>
           \A k \in Ahead(upload[v]) : k <= recorder[r].sequence
    BY <1>1, <1>2 DEF AloneInv, OwnDone
  <1>9. OneLive'
    BY <1>1, <1>3 DEF AloneInv, OneLive
  <1>10. Mirrors'
    <2>1. \A k \in DOMAIN recorder : recorder[k].phase # "unavailable" => k = r
      BY <1>2 DEF AloneInv, OneLive
    <2>2. \A k \in DOMAIN database : k \in DOMAIN memory /\ memory[k] = database[k]
      BY <1>1, <1>2 DEF AloneInv, Mirrors
    <2> QED
      BY <1>1, <1>6, <2>1, <2>2 DEF Mirrors
  <1>11. OwnDone'
    <2>1. SUFFICES ASSUME NEW k \in DOMAIN recorder', recorder'[k].phase = "recording"
                   PROVE  /\ \A i \in DOMAIN recorder'[k].memory : i <= recorder'[k].sequence
                          /\ \A v \in Uploads : Uploading(upload'[v]) /\ upload'[v].of = k =>
                                \A i \in Ahead(upload'[v]) : i <= recorder'[k].sequence
      BY DEF OwnDone
    <2>2. k = r
      BY <1>1, <1>2, <2>1 DEF AloneInv, OneLive
    <2>3. \A i \in DOMAIN memory \cup {n} : i <= n
      BY <1>4, <1>5
    <2>4. Ahead(upload'[u]) = {n}
      BY <1>1 DEF Ahead
    <2>5. \A v \in Uploads \ {u} : Uploading(upload'[v]) /\ upload'[v].of = r =>
             \A i \in Ahead(upload'[v]) : i <= n
      <3>1. SUFFICES ASSUME NEW v \in Uploads \ {u}, Uploading(upload[v]), upload[v].of = r,
                            NEW i \in Ahead(upload[v])
                     PROVE  i <= n
        BY <1>1
      <3>2. i <= recorder[r].sequence /\ i \in Nat
        BY <1>8, <3>1, AheadTypes
      <3> QED
        BY <1>4, <3>2
    <2> QED
      BY <1>1, <1>4, <1>6, <2>2, <2>3, <2>4, <2>5
  <1>12. OwnAhead'
    BY <1>1, <1>7 DEF OwnAhead
  <1>13. OneHash'
    BY <1>1, <1>4 DEF OneHash
  <1>14. Alike'
    BY <1>1, <1>2 DEF Alike, Idling
  <1>15. OwnAlike'
    <2>1. SUFFICES ASSUME NEW v \in Uploads, Uploading(upload'[v]), NEW x \in OfChain(upload'[v]),
                          x.sequence \in DOMAIN recorder'[upload'[v].of].memory
                   PROVE  recorder'[upload'[v].of].memory[x.sequence].content = x.content
      BY DEF OwnAlike
    <2>2. CASE v = u
      <3>1. x = Token(n, chunk)
        BY <1>1, <2>1, <2>2 DEF OfChain, OfRest
      <3> QED
        BY <1>1, <1>6, <2>2, <3>1 DEF Token
    <2>3. CASE v # u /\ upload'[v].of # r
      BY <1>1, <2>1, <2>3, ChainsAre DEF AloneInv, OwnAlike, Uploading
    <2>4. CASE v # u /\ upload'[v].of = r
      <3>1. upload'[v] = upload[v] /\ Uploading(upload[v]) /\ x.sequence \in Ahead(upload[v])
        BY <1>1, <2>1, <2>4, ChainAhead
      <3>2. x.sequence <= recorder[r].sequence
        BY <1>8, <2>4, <3>1
      <3>3. x.sequence \in DOMAIN memory
        BY <1>1, <1>4, <1>6, <2>1, <2>4, <3>2
      <3> QED
        BY <1>1, <1>6, <2>1, <2>4, <3>1, <3>3 DEF AloneInv, OwnAlike
    <2> QED
      BY <2>2, <2>3, <2>4
  <1>16. AllSafe'
    <2>1. SUFFICES ASSUME NEW c \in (1..captured) \ dropped, Safe(c)
                   PROVE  Safe(c)'
      BY <1>1 DEF AllSafe, AloneInv
    <2>2. CASE \E v \in Uploads : upload[v].step = "hash" /\ upload[v].chunk.content = c
      <3>1. t.chunk.content = c
        BY <1>4, <2>2
      <3>2. n \in DOMAIN database' /\ database'[n].content = c
        BY <1>1, <1>6, <3>1
      <3> QED
        BY <3>2 DEF Safe
    <2>3. CASE \E k \in DOMAIN recorder : \E i \in DOMAIN recorder[k].memory :
                   recorder[k].memory[i].content = c
      <3>1. \A k \in DOMAIN recorder : \A i \in DOMAIN recorder[k].memory :
               i \in DOMAIN recorder'[k].memory /\ recorder'[k].memory[i] = recorder[k].memory[i]
        BY <1>1, <1>6
      <3> QED
        BY <1>1, <2>3, <3>1 DEF Safe
    <2>4. CASE \E i \in DOMAIN database : database[i].content = c
      <3>1. \A i \in DOMAIN database : i \in DOMAIN database' /\ database'[i] = database[i]
        BY <1>1, <1>6
      <3> QED
        BY <2>4, <3>1 DEF Safe
    <2>5. CASE \E i \in objects : rows[i].chunk.content = c
      BY <1>1, <2>5 DEF Safe
    <2> QED
      BY <2>1, <2>2, <2>3, <2>4, <2>5 DEF Safe
  <1> QED
    BY <1>9, <1>10, <1>11, <1>12, <1>13, <1>14, <1>15, <1>16 DEF AloneInv

\* The chunk that is dropped is stored, or went with a lost commit; and what else had its
\* sequence in the buffers was the same chunk.
LEMMA DropFromBufferAlone ==
    ASSUME TypeOK, SoundInv, AloneInv, NEW u \in Uploads, DropFromBuffer(u)
    PROVE  AloneInv'
  <1> DEFINE t == upload[u]
             n == t.sequence
             r == t.of
             old == recorder[r].memory
             sequence == recorder'[r].sequence
  <1>1. /\ TypeOK' /\ t.step = "remove" /\ t.kind # "none"
        /\ \A v \in Uploads \ {u} : upload'[v] = upload[v]
        /\ r \in DOMAIN recorder /\ DOMAIN recorder' = DOMAIN recorder
        /\ sequence = IF t.kind = "chunk" THEN recorder[r].sequence
                      ELSE Larger(recorder[r].sequence, n)
        /\ recorder'[r].memory = Without(old, n)
        /\ recorder'[r].phase = IF t.kind = "first" /\ t.rest = <<>> THEN "recording"
                                ELSE recorder[r].phase
        /\ \A k \in DOMAIN recorder \ {r} : recorder'[k] = recorder[k]
        /\ database' = Without(database, n)
        /\ UNCHANGED <<rows, objects, captured, dropped>>
    BY DropFromBufferDoes
  <1>2. upload'[u] = Idle \/ /\ t.rest # <<>>
                             /\ upload'[u].kind = t.kind /\ upload'[u].step = "intent"
                             /\ upload'[u].of = r
    BY DropFromBufferDoes
  <1>3. /\ Current' = Current /\ Tokens' \subseteq Tokens
        /\ OfChain(upload'[u]) \subseteq OfChain(t)
    BY <1>1, DropFromBufferTokens DEF Current, TypeOK
  <1>4. /\ upload'[u] # Idle => Ahead(upload'[u]) \subseteq Ahead(t)
        /\ Ahead(t) \subseteq Ahead(upload'[u]) \cup {n} \/ upload'[u] = Idle
        /\ t.rest = <<>> => Ahead(t) = {n}
    <2>1. CASE t.rest = <<>>
      BY <1>2, <2>1 DEF Ahead
    <2>2. CASE t.rest # <<>>
      <3>1. /\ upload'[u].sequence = t.rest[1].sequence /\ upload'[u].rest = Tail(t.rest)
            /\ t.rest \in Seq(Pieces)
        BY <2>2, DropFromBufferDoes, ChainsAre
      <3>2. \A k \in DOMAIN t.rest : t.rest[k].sequence \in Ahead(upload'[u])
        BY <2>2, <3>1, AheadOfList
      <3>3. \A i \in Ahead(upload'[u]) : \E k \in DOMAIN t.rest : i = t.rest[k].sequence
        BY <2>2, <3>1, AheadFromList
      <3> QED
        BY <2>2, <3>2, <3>3 DEF Ahead
    <2> QED
      BY <2>1, <2>2
  <1>5. /\ n \in Nat /\ recorder[r].sequence \in Nat /\ sequence \in Nat
        /\ n <= sequence \/ t.kind = "chunk"
        /\ recorder[r].sequence <= sequence
    BY <1>1, ChainsAre, MemoriesAre DEF Larger
  <1>6. /\ old \in ChunkMaps /\ database \in ChunkMaps /\ DOMAIN old \subseteq Nat
        /\ DOMAIN Without(old, n) = DOMAIN old \ {n}
        /\ \A k \in DOMAIN old \ {n} : Without(old, n)[k] = old[k]
        /\ DOMAIN Without(database, n) = DOMAIN database \ {n}
        /\ \A k \in DOMAIN database \ {n} : Without(database, n)[k] = database[k]
    BY <1>1, MemoriesAre, BufferIs DEF Without
  <1>7. Uploading(t) /\ n \in Ahead(t) /\ Token(n, t.chunk) \in OfChain(t)
    BY <1>1 DEF Uploading, Ahead, OfChain
  <1>8. \A k \in DOMAIN recorder : \A i \in DOMAIN recorder'[k].memory :
           i \in DOMAIN recorder[k].memory /\ recorder'[k].memory[i] = recorder[k].memory[i]
    BY <1>1, <1>6
  <1>9. t.kind = "first" => recorder[r].phase = "retrying"
    BY <1>1 DEF SoundInv, FirstAlone
  <1>10. \A k \in DOMAIN recorder :
            /\ recorder'[k].phase # "unavailable" => recorder[k].phase # "unavailable"
            /\ recorder[k].phase = "recording" => recorder'[k].phase = "recording"
    BY <1>1, <1>9
  <1>11. \A i \in Nat : i <= recorder[r].sequence => i <= sequence
    BY <1>5
  <1>12. OneLive'
    BY <1>1, <1>3, <1>10 DEF AloneInv, OneLive
  <1>13. Mirrors'
    <2>1. SUFFICES ASSUME NEW k \in DOMAIN recorder, recorder[k].phase # "unavailable",
                          NEW i \in DOMAIN database \ {n}
                   PROVE  i \in DOMAIN recorder'[k].memory /\ recorder'[k].memory[i] = database[i]
      BY <1>1, <1>6, <1>10 DEF Mirrors
    <2>2. i \in DOMAIN recorder[k].memory /\ recorder[k].memory[i] = database[i]
      BY <2>1 DEF AloneInv, Mirrors
    <2> QED
      BY <1>1, <1>6, <2>1, <2>2
  <1>14. OwnDone'
    <2>1. SUFFICES ASSUME NEW k \in DOMAIN recorder, recorder'[k].phase = "recording"
                   PROVE  /\ \A i \in DOMAIN recorder'[k].memory : i <= recorder'[k].sequence
                          /\ \A v \in Uploads : Uploading(upload'[v]) /\ upload'[v].of = k =>
                                \A i \in Ahead(upload'[v]) : i <= recorder'[k].sequence
      BY <1>1 DEF OwnDone
    <2>2. CASE k # r
      <3>1. recorder'[k] = recorder[k]
        BY <1>1, <2>2
      <3>2. Uploading(upload'[u]) => upload'[u].of = r
        BY <1>2, IdleChain DEF Uploading
      <3> QED
        BY <1>1, <2>1, <2>2, <3>1, <3>2 DEF AloneInv, OwnDone
    <2>3. CASE k = r /\ t.kind = "first" /\ t.rest = <<>>
      <3>1. /\ \A i \in DOMAIN old : i <= recorder[r].sequence \/ i \in Ahead(t)
            /\ \A v \in Uploads : Uploading(upload[v]) /\ upload[v].of = r =>
                  \A i \in Ahead(upload[v]) : i <= recorder[r].sequence \/ i \in Ahead(t)
        BY <2>3 DEF AloneInv, OwnAhead
      <3>2. Ahead(t) = {n} /\ n <= sequence /\ upload'[u] = Idle
        BY <1>2, <1>4, <1>5, <2>3
      <3>3. \A i \in DOMAIN old : i <= sequence
        BY <1>6, <1>11, <3>1, <3>2
      <3>4. ASSUME NEW v \in Uploads \ {u}, Uploading(upload[v]), upload[v].of = r,
                   NEW i \in Ahead(upload[v])
            PROVE  i <= sequence
        BY <1>11, <3>1, <3>2, <3>4, AheadTypes
      <3> QED
        BY <1>1, <1>8, <2>3, <3>2, <3>3, <3>4, IdleChain DEF Uploading
    <2>4. CASE k = r /\ ~(t.kind = "first" /\ t.rest = <<>>)
      <3>1. recorder[r].phase = "recording"
        BY <1>1, <2>1, <2>4
      <3>2. /\ \A i \in DOMAIN old : i <= recorder[r].sequence
            /\ \A v \in Uploads : Uploading(upload[v]) /\ upload[v].of = r =>
                  \A i \in Ahead(upload[v]) : i <= recorder[r].sequence
        BY <1>1, <3>1 DEF AloneInv, OwnDone
      <3>3. \A i \in DOMAIN old : i <= sequence
        BY <1>6, <1>11, <3>2
      <3>4. ASSUME NEW v \in Uploads, Uploading(upload[v]), upload[v].of = r,
                   NEW i \in Ahead(upload[v])
            PROVE  i <= sequence
        BY <1>11, <3>2, <3>4, AheadTypes
      <3>5. \A i \in Ahead(t) : i <= sequence
        BY <1>7, <3>4
      <3>6. Uploading(upload'[u]) => \A i \in Ahead(upload'[u]) : i <= sequence
        BY <1>4, <3>5, IdleChain DEF Uploading
      <3>7. \A v \in Uploads \ {u} : Uploading(upload'[v]) /\ upload'[v].of = r =>
               \A i \in Ahead(upload'[v]) : i <= sequence
        BY <1>1, <3>4
      <3> QED
        BY <1>8, <2>4, <3>3, <3>6, <3>7
    <2> QED
      BY <2>2, <2>3, <2>4
  <1>15. OwnAhead'
    <2>1. SUFFICES ASSUME NEW v \in Uploads, upload'[v].kind = "first"
                   PROVE  LET k == upload'[v].of
                          IN  /\ \A i \in DOMAIN recorder'[k].memory :
                                    i <= recorder'[k].sequence \/ i \in Ahead(upload'[v])
                              /\ \A w \in Uploads : Uploading(upload'[w]) /\ upload'[w].of = k =>
                                    \A i \in Ahead(upload'[w]) :
                                        i <= recorder'[k].sequence \/ i \in Ahead(upload'[v])
      BY DEF OwnAhead
    <2> DEFINE k == upload[v].of
    <2>2. /\ upload[v].kind = "first" /\ upload'[v].of = k /\ k \in DOMAIN recorder
          /\ \A i \in Ahead(upload[v]) : i \in Ahead(upload'[v]) \/ (v = u /\ i = n /\ n <= sequence)
      <3>1. CASE v = u
        <4>1. upload'[u] # Idle
          BY <2>1, <3>1, IdleChain
        <4> QED
          BY <1>1, <1>2, <1>4, <1>5, <2>1, <3>1, <4>1
      <3>2. CASE v # u
        BY <1>1, <2>1, <3>2, ChainsAre
      <3> QED
        BY <3>1, <3>2
    <2>3. /\ \A i \in DOMAIN recorder[k].memory :
                i <= recorder[k].sequence \/ i \in Ahead(upload[v])
          /\ \A w \in Uploads : Uploading(upload[w]) /\ upload[w].of = k =>
                \A i \in Ahead(upload[w]) :
                    i <= recorder[k].sequence \/ i \in Ahead(upload[v])
      BY <2>2 DEF AloneInv, OwnAhead
    <2>4. v = u => k = r
      OBVIOUS
    <2>5. recorder'[k].sequence = IF k = r THEN sequence ELSE recorder[k].sequence
      BY <1>1, <2>2
    <2> HIDE DEF k
    <2>6. ASSUME NEW i \in Nat, i <= recorder[k].sequence \/ i \in Ahead(upload[v])
          PROVE  i <= recorder'[k].sequence \/ i \in Ahead(upload'[v])
      BY <1>11, <2>2, <2>4, <2>5, <2>6
    <2>7. ASSUME NEW i \in DOMAIN recorder'[k].memory
          PROVE  i <= recorder'[k].sequence \/ i \in Ahead(upload'[v])
      <3>1. recorder[k].memory \in ChunkMaps /\ i \in DOMAIN recorder[k].memory
        BY <1>8, <2>2, <2>7, MemoriesAre
      <3>2. i \in Nat
        BY <3>1, BufferIs
      <3> QED
        BY <2>3, <2>6, <3>1, <3>2
    <2>8. ASSUME NEW w \in Uploads, Uploading(upload'[w]), upload'[w].of = k,
                 NEW i \in Ahead(upload'[w])
          PROVE  i <= recorder'[k].sequence \/ i \in Ahead(upload'[v])
      <3>1. Uploading(upload[w]) /\ upload[w].of = k /\ i \in Ahead(upload[w])
        <4>1. CASE w = u
          BY <1>2, <1>4, <1>7, <2>8, <4>1, IdleChain DEF Uploading
        <4>2. CASE w # u
          BY <1>1, <2>8, <4>2
        <4> QED
          BY <4>1, <4>2
      <3>2. i \in Nat
        BY <3>1, AheadTypes
      <3> QED
        BY <2>3, <2>6, <3>1, <3>2
    <2> QED
      BY <2>2, <2>7, <2>8
  <1>16. OneHash'
    <2>1. SUFFICES ASSUME NEW v \in Uploads \ {u}, upload[v].step = "hash"
                   PROVE  /\ upload[v].sequence = recorder'[upload[v].of].sequence + 1
                          /\ \A w \in Uploads \ {v} : upload'[w].step # "hash"
      BY <1>1, <1>2, IdleChain DEF OneHash
    <2>2. /\ upload[v].sequence = recorder[upload[v].of].sequence + 1
          /\ \A w \in Uploads \ {v} : upload[w].step # "hash"
      BY <2>1 DEF AloneInv, OneHash
    <2>3. upload[v].kind = "chunk" /\ upload[v].of \in DOMAIN recorder
      BY <2>1, ChainsAre DEF ChainSound
    <2>4. CASE upload[v].of # r
      BY <1>1, <1>2, <2>2, <2>3, <2>4, IdleChain
    <2>5. CASE upload[v].of = r
      <3>1. recorder[r].phase = "recording"
        BY <2>3, <2>5 DEF SoundInv, Phases
      <3>2. n <= recorder[r].sequence
        BY <1>1, <1>7, <3>1 DEF AloneInv, OwnDone
      <3>3. sequence = recorder[r].sequence
        BY <1>1, <1>5, <3>2 DEF Larger
      <3> QED
        BY <1>1, <1>2, <2>2, <2>5, <3>3, IdleChain
    <2> QED
      BY <2>4, <2>5
  <1>17. Alike'
    BY <1>1, <1>3, <1>10 DEF AloneInv, Alike, Idling
  <1>18. OwnAlike'
    <2>1. SUFFICES ASSUME NEW v \in Uploads, Uploading(upload'[v]), NEW x \in OfChain(upload'[v]),
                          x.sequence \in DOMAIN recorder'[upload'[v].of].memory
                   PROVE  recorder'[upload'[v].of].memory[x.sequence].content = x.content
      BY DEF OwnAlike
    <2>2. Uploading(upload[v]) /\ upload'[v].of = upload[v].of /\ x \in OfChain(upload[v])
      <3>1. CASE v = u
        BY <1>2, <1>3, <1>7, <2>1, <3>1, IdleChain DEF Uploading
      <3>2. CASE v # u
        BY <1>1, <2>1, <3>2
      <3> QED
        BY <3>1, <3>2
    <2>3. upload[v].of \in DOMAIN recorder
      BY <2>2, ChainsAre DEF Uploading
    <2> QED
      BY <1>8, <2>1, <2>2, <2>3 DEF AloneInv, OwnAlike
  <1>19. AllSafe'
    <2>1. SUFFICES ASSUME NEW c \in (1..captured) \ dropped, Safe(c)
                   PROVE  Safe(c)'
      BY <1>1 DEF AllSafe, AloneInv
    <2>2. ASSUME t.chunk.content = c
          PROVE  Safe(c)'
      <3>1. n \in objects /\ rows[n].chunk = t.chunk
        BY <1>1, <2>1, <2>2 DEF SoundInv, Sent, SentChain
      <3> QED
        BY <1>1, <2>2, <3>1 DEF Safe
    <2>3. \A i \in DOMAIN old : i = n => old[i].content = t.chunk.content
      BY <1>7 DEF AloneInv, OwnAlike, Token
    <2>4. ASSUME NEW k \in DOMAIN recorder, NEW i \in DOMAIN recorder[k].memory,
                 recorder[k].memory[i].content = c
          PROVE  Safe(c)'
      <3>1. CASE k = r /\ i = n
        BY <2>2, <2>3, <2>4, <3>1
      <3>2. CASE ~(k = r /\ i = n)
        <4>1. i \in DOMAIN recorder'[k].memory /\ recorder'[k].memory[i] = recorder[k].memory[i]
          BY <1>1, <1>6, <2>4, <3>2
        <4> QED
          BY <1>1, <2>4, <4>1 DEF Safe
      <3> QED
        BY <3>1, <3>2
    <2>5. ASSUME NEW i \in DOMAIN database, database[i].content = c
          PROVE  Safe(c)'
      <3>1. CASE i # n
        <4>1. i \in DOMAIN database' /\ database'[i] = database[i]
          BY <1>1, <1>6, <3>1
        <4> QED
          BY <2>5, <4>1 DEF Safe
      <3>2. CASE i = n /\ \E k \in DOMAIN recorder : recorder[k].phase # "unavailable"
        BY <2>4, <2>5, <3>2 DEF AloneInv, Mirrors
      <3>3. CASE i = n /\ \A k \in DOMAIN recorder : recorder[k].phase = "unavailable"
        <4>1. Token(n, database[n]) \in Tokens /\ Token(n, t.chunk) \in Tokens
          BY <1>7, <2>5, <3>3, TokensAre DEF OfBuffer
        <4>2. \A x, y \in Tokens : x.sequence = y.sequence => x.content = y.content
          BY <3>3 DEF AloneInv, Alike, Idling
        <4>3. database[n].content = t.chunk.content
          BY <4>1, <4>2 DEF Token
        <4> QED
          BY <2>2, <2>5, <3>3, <4>3
      <3> QED
        BY <3>1, <3>2, <3>3
    <2>6. CASE \E v \in Uploads : /\ upload[v].step = "hash" /\ upload[v].of \in DOMAIN recorder
                                  /\ upload[v].chunk.content = c
      BY <1>1, <2>6 DEF Safe
    <2>7. CASE \E i \in objects : rows[i].chunk.content = c
      BY <1>1, <2>7 DEF Safe
    <2> QED
      BY <2>1, <2>4, <2>5, <2>6, <2>7 DEF Safe
  <1> QED
    BY <1>12, <1>13, <1>14, <1>15, <1>16, <1>17, <1>18, <1>19 DEF AloneInv

KeepInv == OrderInv /\ SoundInv /\ (~overlapped => AloneInv)

LEMMA KeepFirst == Init => KeepInv
  <1>1. SUFFICES ASSUME Init
                 PROVE  KeepInv
    OBVIOUS
  <1>2. /\ recorder = <<>> /\ DOMAIN recorder = {} /\ database = <<>> /\ DOMAIN database = {}
        /\ rows = <<>> /\ objects = {} /\ captured = 0
        /\ \A u \in Uploads : upload[u] = Idle
    BY <1>1 DEF Init
  <1>3. OrderInv
    BY <1>1, OrderFirst
  <1>4. Idle.stored = FALSE
    BY DEF Idle
  <1>5. SoundInv
    BY <1>2, <1>4, IdleChain DEF SoundInv, NotYet, Sent, SentChain, FirstAlone, Phases
  <1>6. Tokens = {}
    BY <1>2, IdleTokens DEF Tokens, OfBuffer
  <1>7. OneLive /\ Mirrors /\ OwnDone
    BY <1>2 DEF OneLive, Mirrors, OwnDone
  <1>8. OwnAhead /\ OneHash /\ OwnAlike
    BY <1>2, IdleChain DEF OwnAhead, OneHash, OwnAlike, Uploading
  <1>9. Alike /\ AllSafe
    BY <1>2, <1>6 DEF Alike, AllSafe
  <1> QED
    BY <1>3, <1>5, <1>7, <1>8, <1>9 DEF KeepInv, AloneInv

\* What overlapped once stays so.
LEMMA OverlapKept ==
    ASSUME TypeOK, [Next]_vars, overlapped
    PROVE  overlapped'
  <1>1. CASE UNCHANGED vars
    BY <1>1 DEF vars
  <1>2. CASE Wait \/ CompleteAnswer
    BY <1>2 DEF Wait, CompleteAnswer, ghosts
  <1>3. ASSUME NEW u \in Uploads, Load(u) \/ Resume(u)
        PROVE  overlapped'
    BY <1>3 DEF Load, Resume, StartRecorder
  <1>4. ASSUME NEW u \in Uploads, NEW r \in DOMAIN recorder, Capture(u, r)
        PROVE  overlapped'
    BY <1>4 DEF Capture
  <1>5. ASSUME NEW u \in Uploads,
               \/ SocketOpens(u) \/ Hashed(u) \/ RequestIntent(u) \/ IntentFails(u)
               \/ IntentNotCommitted(u) \/ Put(u) \/ PutFails(u) \/ DropFromBuffer(u)
        PROVE  overlapped'
    BY <1>5 DEF SocketOpens, Hashed, RequestIntent, IntentFails, IntentNotCommitted, Put, PutFails,
                DropFromBuffer, ghosts
  <1> QED
    BY <1>1, <1>2, <1>3, <1>4, <1>5 DEF Next

LEMMA KeepKept == KeepInv /\ [Next]_vars => KeepInv'
  <1>1. SUFFICES ASSUME KeepInv, [Next]_vars
                 PROVE  KeepInv'
    OBVIOUS
  <1>2. OrderInv /\ TypeOK /\ SoundInv
    BY <1>1 DEF KeepInv, OrderInv
  <1>3. OrderInv' /\ SoundInv'
    BY <1>1, <1>2, OrderKept, SoundKept
  <1>4. ASSUME ~overlapped'
        PROVE  AloneInv'
    <2>1. AloneInv
      BY <1>1, <1>2, <1>4, OverlapKept DEF KeepInv
    <2>2. CASE Wait \/ CompleteAnswer \/ UNCHANGED vars
      BY <1>2, <2>1, <2>2, SameAlone
    <2>3. ASSUME NEW u \in Uploads,
                 \/ RequestIntent(u) \/ IntentFails(u) \/ IntentNotCommitted(u) \/ Put(u)
                 \/ PutFails(u)
          PROVE  AloneInv'
      BY <1>2, <2>1, <2>3, RequestAlone
    <2>4. ASSUME NEW u \in Uploads, Load(u) \/ Resume(u) \/ SocketOpens(u)
          PROVE  AloneInv'
      BY <1>2, <1>4, <2>1, <2>4, LoadAlone, ResumeAlone, SocketOpensAlone
    <2>5. ASSUME NEW u \in Uploads, Hashed(u) \/ DropFromBuffer(u)
          PROVE  AloneInv'
      BY <1>2, <2>1, <2>5, HashedAlone, DropFromBufferAlone
    <2>6. ASSUME NEW u \in Uploads, NEW r \in DOMAIN recorder, Capture(u, r)
          PROVE  AloneInv'
      BY <1>2, <1>4, <2>1, <2>6, CaptureAlone
    <2> QED
      BY <1>1, <2>2, <2>3, <2>4, <2>5, <2>6 DEF Next
  <1> QED
    BY <1>3, <1>4 DEF KeepInv

\* As long as one recorder is at work and hashes one chunk at a time, whatever is lost or
\* retried, no chunk that was recorded disappears: it is stored, buffered or being hashed,
\* unless a reload or a lost commit took it.  The recorder at work has what the database has,
\* so what another chain drops under a sequence is the chunk that has its object.
THEOREM RecordLosesNothing == Spec => []NothingIsDropped
  <1>1. KeepInv => NothingIsDropped
    BY SafeIs DEF KeepInv, AloneInv
  <1> QED
    BY <1>1, KeepFirst, KeepKept, PTL DEF Spec

=============================================================================
