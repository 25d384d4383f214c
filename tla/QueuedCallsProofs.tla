-------------------------- MODULE QueuedCallsProofs --------------------------
(***************************************************************************)
(* What TLAPS proves about queued calls, in three parts: the pool of       *)
(* blocks (EventPool), for any number of threads and blocks and any size   *)
(* of a batch; the record of what a loop does (LoopHealth), for any number *)
(* of readers, any events and any depth of nesting; and their composition. *)
(*                                                                         *)
(* There, a step of the whole is a step of the pool and of the record or   *)
(* leaves them alone, so that their invariants hold; what is new is whose  *)
(* each block is, and that the loop's thread does not end while it has an  *)
(* event in hand.                                                          *)
(***************************************************************************)
EXTENDS QueuedCalls, FiniteSetTheorems, TLAPS

(***************************************************************************)
(* The pool.                                                               *)
(***************************************************************************)
StepState == [at : {"idle", "missed", "reserving", "retry", "has", "spilling"},
              small : BOOLEAN, block : Blocks \cup HeapBlocks \cup {None},
              surplus : SUBSET Blocks]
CacheState == [free : SUBSET Blocks, count : Nat, gone : BOOLEAN]

LEMMA FiniteBlocks ==
    ASSUME NEW S \in SUBSET Blocks
    PROVE  IsFiniteSet(S) /\ Cardinality(S) \in Nat
  BY EventPoolAssumption, FS_Subset, FS_CardinalityType

\* Taking a part of a set away, and putting together what have nothing in common.
LEMMA CardinalityOfRest ==
    ASSUME NEW S \in SUBSET Blocks, NEW M \in SUBSET S
    PROVE  Cardinality(S \ M) = Cardinality(S) - Cardinality(M)
<1>1. (S \ M) \cup M = S /\ (S \ M) \cap M = {}
  OBVIOUS
<1>2. Cardinality(S) = Cardinality(S \ M) + Cardinality(M) - Cardinality({})
  BY <1>1, FiniteBlocks, FS_Union
<1>3. QED
  BY <1>2, FiniteBlocks, FS_EmptySet

LEMMA CardinalityOfBoth ==
    ASSUME NEW S \in SUBSET Blocks, NEW M \in SUBSET Blocks, S \cap M = {}
    PROVE  Cardinality(S \cup M) = Cardinality(S) + Cardinality(M)
<1>1. Cardinality(S \cup M) = Cardinality(S) + Cardinality(M) - Cardinality({})
  BY FiniteBlocks, FS_Union
<1>2. QED
  BY <1>1, FiniteBlocks, FS_EmptySet

LEMMA CardinalityOfNone ==
    ASSUME NEW S, S = {}
    PROVE  Cardinality(S) = 0
  BY FS_EmptySet

LEMMA OneMore ==
    ASSUME NEW S \in SUBSET Blocks, NEW b \in Blocks
    PROVE  /\ b \notin S => Cardinality(S \cup {b}) = Cardinality(S) + 1
           /\ b \in S => Cardinality(S \ {b}) = Cardinality(S) - 1
  BY FiniteBlocks, FS_AddElement, FS_RemoveElement
-----------------------------------------------------------------------------
\* A block is in one place at most ...
Apart ==
    /\ free \cap held = {}
    /\ \A t \in Threads :
        /\ cache[t].free \cap free = {} /\ cache[t].free \cap held = {}
        /\ step[t].surplus \cap free = {} /\ step[t].surplus \cap held = {}
        /\ \A u \in Threads :
            /\ cache[t].free \cap step[u].surplus = {}
            /\ t # u => /\ cache[t].free \cap cache[u].free = {}
                        /\ step[t].surplus \cap step[u].surplus = {}

\* ... and in one at least, if it belongs to a chunk; no other is anywhere.
Covered ==
    \A b \in Blocks :
        b \in chunks <=> \/ b \in free \/ b \in held
                         \/ \E t \in Threads : b \in cache[t].free \/ b \in step[t].surplus

\* What is in hand is in hand while a list is cut, and a thread that is gone is done.
StepsAreSane ==
    \A t \in Threads :
        /\ step[t].at # "spilling" => step[t].surplus = {}
        /\ cache[t].gone => cache[t].free = {} /\ step[t].at = "idle"

PoolInv == PoolTypeOK /\ Apart /\ Covered /\ StepsAreSane /\ CountsAreLengths

LEMMA IdleIsStep ==
    /\ Idle \in StepState /\ Idle.at = "idle" /\ Idle.surplus = {}
    /\ \A small \in BOOLEAN : /\ Missed(small) \in StepState
                              /\ Missed(small).at = "missed" /\ Missed(small).surplus = {}
    /\ \A b \in Blocks \cup HeapBlocks :
        Has(b) \in StepState /\ Has(b).at = "has" /\ Has(b).surplus = {}
  BY DEF Idle, Missed, Has, StepState

LEMMA PoolTypes ==
    ASSUME PoolTypeOK
    PROVE  /\ cache \in [Threads -> CacheState]
           /\ step \in [Threads -> StepState]
           /\ \A t \in Threads : /\ cache[t] \in CacheState /\ step[t] \in StepState
                                 /\ cache[t].free \in SUBSET Blocks /\ cache[t].count \in Nat
                                 /\ cache[t].gone \in BOOLEAN
                                 /\ step[t].surplus \in SUBSET Blocks
  BY DEF PoolTypeOK, CacheState, StepState

LEMMA InitPoolInv == PoolInit => PoolInv
<1> SUFFICES ASSUME PoolInit PROVE PoolInv
  OBVIOUS
<1>1. [free |-> {}, count |-> 0, gone |-> FALSE] \in CacheState
  BY DEF CacheState
<1>2. cache \in [Threads -> CacheState] /\ step \in [Threads -> StepState]
  BY <1>1, IdleIsStep DEF PoolInit
<1>3. PoolTypeOK
  BY <1>2 DEF PoolInit, PoolTypeOK, CacheState, StepState
<1>4. Apart /\ Covered /\ StepsAreSane
  BY IdleIsStep DEF PoolInit, Apart, Covered, StepsAreSane
<1>5. CountsAreLengths
  <2>1. Cardinality({}) = 0
    BY FS_EmptySet
  <2>2. \A t \in Threads : cache[t].count = 0 /\ cache[t].free = {} /\ step[t].surplus = {}
    BY IdleIsStep DEF PoolInit
  <2>3. freeCount = Cardinality(free) /\ reserved = Cardinality(chunks)
    BY <2>1 DEF PoolInit
  <2>4. \A t \in Threads :
            cache[t].count = Cardinality(cache[t].free) + Cardinality(step[t].surplus)
    <3>1. ASSUME NEW t \in Threads
          PROVE  Cardinality(cache[t].free) = 0 /\ Cardinality(step[t].surplus) = 0
      BY <2>2, CardinalityOfNone
    <3>2. QED
      BY <2>2, <3>1
  <2>5. QED
    BY <2>3, <2>4 DEF CountsAreLengths
<1>6. QED
  BY <1>3, <1>4, <1>5 DEF PoolInv

\* A thread goes on to its next step with nothing in hand, and no block moves.
LEMMA ThreadGoesOn ==
    ASSUME PoolInv, NEW t \in Threads, NEW s \in StepState,
           s.surplus = step[t].surplus, s.at # "spilling", step[t].at # "spilling",
           ~cache[t].gone \/ s.at = "idle",
           NEW H \in SUBSET HeapBlocks, held' \in SUBSET (held \cup H), held \ H \subseteq held',
           misses' \in Nat,
           step' = [step EXCEPT ![t] = s],
           UNCHANGED <<free, freeCount, reserved, chunks, cache>>
    PROVE  PoolInv'
<1>1. /\ step'[t] = s /\ step' \in [Threads -> StepState]
      /\ \A u \in Threads : step'[u].surplus = step[u].surplus /\ (u # t => step'[u] = step[u])
  BY PoolTypes DEF PoolInv
<1>2. \A b \in Blocks : b \in held' <=> b \in held
  BY EventPoolAssumption
<1>3. PoolTypeOK'
  BY <1>1 DEF PoolInv, PoolTypeOK, StepState
<1>4. Apart'
  BY <1>1, <1>2, PoolTypes DEF PoolInv, PoolTypeOK, Apart
<1>5. Covered'
  BY <1>1, <1>2, PoolTypes DEF PoolInv, Covered
<1>6. StepsAreSane'
  BY <1>1 DEF PoolInv, StepsAreSane
<1>7. CountsAreLengths'
  BY <1>1 DEF PoolInv, CountsAreLengths
<1>8. QED
  BY <1>3, <1>4, <1>5, <1>6, <1>7 DEF PoolInv

\* reserve(): new blocks join the central list.
LEMMA ChunkIsAdded ==
    ASSUME PoolInv, NEW t \in Threads, NEW n \in Nat, AddChunk(n),
           NEW s \in StepState, s.surplus = step[t].surplus, s.at # "spilling",
           step[t].at # "spilling", ~cache[t].gone,
           step' = [step EXCEPT ![t] = s],
           UNCHANGED <<misses, cache, held>>
    PROVE  PoolInv'
<1>1. PICK new \in SUBSET (Blocks \ chunks) :
        /\ Cardinality(new) = n /\ free' = free \cup new /\ freeCount' = freeCount + n
        /\ reserved' = reserved + n /\ chunks' = chunks \cup new
  BY DEF AddChunk
<1>2. /\ step'[t] = s /\ step' \in [Threads -> StepState]
      /\ \A u \in Threads : step'[u].surplus = step[u].surplus /\ (u # t => step'[u] = step[u])
  BY PoolTypes DEF PoolInv
<1>3. /\ free \in SUBSET chunks /\ chunks \in SUBSET Blocks /\ new \in SUBSET Blocks
      /\ new \cap held = {} /\ new \cap free = {} /\ new \cap chunks = {}
      /\ \A u \in Threads : new \cap cache[u].free = {} /\ new \cap step[u].surplus = {}
  BY PoolTypes DEF PoolInv, PoolTypeOK, Covered
<1>4. PoolTypeOK'
  BY <1>1, <1>2 DEF PoolInv, PoolTypeOK, StepState
<1>5. Apart'
  BY <1>1, <1>2, <1>3 DEF PoolInv, Apart
<1>6. Covered'
  BY <1>1, <1>2, <1>3 DEF PoolInv, Covered
<1>7. StepsAreSane'
  BY <1>2 DEF PoolInv, StepsAreSane
<1>8. CountsAreLengths'
  <2>1. Cardinality(free \cup new) = Cardinality(free) + n
    BY <1>1, <1>3, CardinalityOfBoth
  <2>2. Cardinality(chunks \cup new) = Cardinality(chunks) + n
    BY <1>1, <1>3, CardinalityOfBoth
  <2>3. QED
    BY <1>1, <1>2, <2>1, <2>2 DEF PoolInv, CountsAreLengths
<1>9. QED
  BY <1>4, <1>5, <1>6, <1>7, <1>8 DEF PoolInv

LEMMA FromCacheKeeps ==
    ASSUME PoolInv, NEW t \in Threads, FromCache(t), step[t].at # "spilling", ~cache[t].gone
    PROVE  PoolInv'
<1>1. PICK b \in cache[t].free :
        /\ cache' = [cache EXCEPT ![t].free = @ \ {b}, ![t].count = @ - 1]
        /\ held' = held \cup {b} /\ step' = [step EXCEPT ![t] = Has(b)]
        /\ UNCHANGED <<free, freeCount, reserved, chunks, misses>>
  BY DEF FromCache, Gets
<1> DEFINE c == [cache[t] EXCEPT !.free = @ \ {b}, !.count = @ - 1]
<1>2. b \in Blocks /\ step[t].surplus = {} /\ Has(b) \in StepState /\ Has(b).surplus = {}
      /\ Has(b).at = "has"
  BY PoolTypes, IdleIsStep DEF PoolInv, StepsAreSane
<1>3. Cardinality(cache[t].free \ {b}) = Cardinality(cache[t].free) - 1
      /\ Cardinality(cache[t].free) \in Nat /\ Cardinality(cache[t].free \ {b}) \in Nat
  BY <1>2, OneMore, PoolTypes, FiniteBlocks DEF PoolInv
<1>4. cache[t].count = Cardinality(cache[t].free)
  <2>1. Cardinality(step[t].surplus) = 0
    BY <1>2, CardinalityOfNone
  <2>2. QED
    BY <1>3, <2>1 DEF PoolInv, CountsAreLengths
<1>5. /\ c \in CacheState /\ c.free = cache[t].free \ {b} /\ c.gone = FALSE
      /\ c.count = Cardinality(c.free) /\ c.count \in Nat
  BY <1>3, <1>4, PoolTypes DEF PoolInv, CacheState
<1>6. cache' = [cache EXCEPT ![t] = c]
  BY <1>1, PoolTypes DEF PoolInv, CacheState
<1> HIDE DEF c
<1>7. /\ cache'[t] = c /\ cache' \in [Threads -> CacheState]
      /\ step'[t] = Has(b) /\ step' \in [Threads -> StepState]
      /\ \A u \in Threads : u # t => cache'[u] = cache[u] /\ step'[u] = step[u]
  BY <1>1, <1>2, <1>5, <1>6, PoolTypes, ZenonT(60) DEF PoolInv
<1>8. PoolTypeOK'
  BY <1>1, <1>2, <1>7 DEF PoolInv, PoolTypeOK, StepState, CacheState
<1>9. Apart'
  BY <1>1, <1>2, <1>5, <1>7 DEF PoolInv, Apart
<1>10. Covered'
  BY <1>1, <1>2, <1>5, <1>7 DEF PoolInv, Covered
<1>11. StepsAreSane'
  BY <1>2, <1>5, <1>7 DEF PoolInv, StepsAreSane
<1>12. CountsAreLengths'
  <2>1. freeCount' = Cardinality(free') /\ reserved' = Cardinality(chunks')
    BY <1>1 DEF PoolInv, CountsAreLengths
  <2>2. cache'[t].count = Cardinality(cache'[t].free) + Cardinality(step'[t].surplus)
    <3>1. Cardinality(step'[t].surplus) = 0
      BY <1>2, <1>7, CardinalityOfNone
    <3>2. Cardinality(cache'[t].free) = Cardinality(c.free) /\ cache'[t].count = c.count
      BY <1>7, Zenon
    <3>3. QED
      BY <1>5, <3>1, <3>2
  <2>3. \A u \in Threads : u # t =>
            cache'[u].count = Cardinality(cache'[u].free) + Cardinality(step'[u].surplus)
    BY <1>7 DEF PoolInv, CountsAreLengths
  <2>4. QED
    BY <2>1, <2>2, <2>3 DEF CountsAreLengths
<1>13. QED
  BY <1>8, <1>9, <1>10, <1>11, <1>12 DEF PoolInv

LEMMA RefillKeeps ==
    ASSUME PoolInv, NEW t \in Threads, Refill(t), step[t].at # "spilling", ~cache[t].gone
    PROVE  PoolInv'
<1>1. PICK moved \in SUBSET free : \E b \in moved :
        /\ free' = free \ moved /\ freeCount' = freeCount - Cardinality(moved)
        /\ cache' = [cache EXCEPT ![t].free = moved \ {b},
                                  ![t].count = @ + Cardinality(moved) - 1]
        /\ held' = held \cup {b} /\ step' = [step EXCEPT ![t] = Has(b)]
        /\ UNCHANGED <<reserved, chunks, misses>>
  BY DEF Refill, Gets, Batches
<1>2. PICK b \in moved :
        /\ free' = free \ moved /\ freeCount' = freeCount - Cardinality(moved)
        /\ cache' = [cache EXCEPT ![t].free = moved \ {b},
                                  ![t].count = @ + Cardinality(moved) - 1]
        /\ held' = held \cup {b} /\ step' = [step EXCEPT ![t] = Has(b)]
        /\ UNCHANGED <<reserved, chunks, misses>>
  BY <1>1
<1> DEFINE c == [cache[t] EXCEPT !.free = moved \ {b}, !.count = @ + Cardinality(moved) - 1]
<1>3. /\ moved \in SUBSET Blocks /\ b \in Blocks /\ cache[t].free = {}
      /\ step[t].surplus = {} /\ Has(b) \in StepState /\ Has(b).surplus = {}
      /\ Has(b).at = "has"
  BY PoolTypes, IdleIsStep DEF PoolInv, PoolTypeOK, StepsAreSane, Refill
<1>4. /\ Cardinality(moved \ {b}) = Cardinality(moved) - 1
      /\ Cardinality(moved) \in Nat /\ Cardinality(moved \ {b}) \in Nat
  BY <1>3, OneMore, FiniteBlocks
<1>5. cache[t].count = 0
  <2>1. Cardinality(step[t].surplus) = 0 /\ Cardinality(cache[t].free) = 0
    BY <1>3, CardinalityOfNone
  <2>2. QED
    BY <2>1 DEF PoolInv, CountsAreLengths
<1>6. /\ c \in CacheState /\ c.free = moved \ {b} /\ c.gone = FALSE
      /\ c.count = Cardinality(c.free) /\ c.count \in Nat
  <2>1. cache[t].count + Cardinality(moved) - 1 = Cardinality(moved \ {b})
    BY <1>4, <1>5
  <2>2. c = [cache[t] EXCEPT !.free = moved \ {b}, !.count = Cardinality(moved \ {b})]
    BY <2>1
  <2>3. QED
    BY <1>3, <1>4, <2>2, PoolTypes DEF PoolInv, CacheState
<1>7. cache' = [cache EXCEPT ![t] = c]
  BY <1>2, PoolTypes DEF PoolInv, CacheState
<1> HIDE DEF c
<1>8. /\ cache'[t] = c /\ cache' \in [Threads -> CacheState]
      /\ step'[t] = Has(b) /\ step' \in [Threads -> StepState]
      /\ \A u \in Threads : u # t => cache'[u] = cache[u] /\ step'[u] = step[u]
  BY <1>2, <1>3, <1>6, <1>7, PoolTypes DEF PoolInv
<1>9. /\ Cardinality(free \ moved) = Cardinality(free) - Cardinality(moved)
      /\ Cardinality(free \ moved) \in Nat /\ freeCount = Cardinality(free)
  BY CardinalityOfRest, FiniteBlocks DEF PoolInv, PoolTypeOK, CountsAreLengths
<1>10. PoolTypeOK'
  BY <1>2, <1>3, <1>4, <1>8, <1>9 DEF PoolInv, PoolTypeOK, StepState, CacheState
<1>11. Apart'
  BY <1>2, <1>3, <1>6, <1>8 DEF PoolInv, Apart
<1>12. Covered'
  BY <1>2, <1>3, <1>6, <1>8 DEF PoolInv, Covered
<1>13. StepsAreSane'
  BY <1>3, <1>6, <1>8 DEF PoolInv, StepsAreSane
<1>14. CountsAreLengths'
  <2>1. freeCount' = Cardinality(free') /\ reserved' = Cardinality(chunks')
    BY <1>2, <1>9 DEF PoolInv, CountsAreLengths
  <2>2. cache'[t].count = Cardinality(cache'[t].free) + Cardinality(step'[t].surplus)
    <3>1. Cardinality(step'[t].surplus) = 0
      BY <1>3, <1>8, CardinalityOfNone
    <3>2. Cardinality(cache'[t].free) = Cardinality(c.free) /\ cache'[t].count = c.count
      BY <1>8, Zenon
    <3>3. QED
      BY <1>6, <3>1, <3>2
  <2>3. \A u \in Threads : u # t =>
            cache'[u].count = Cardinality(cache'[u].free) + Cardinality(step'[u].surplus)
    BY <1>8 DEF PoolInv, CountsAreLengths
  <2>4. QED
    BY <2>1, <2>2, <2>3 DEF CountsAreLengths
<1>15. QED
  BY <1>10, <1>11, <1>12, <1>13, <1>14 DEF PoolInv

LEMMA TryPoolKeeps ==
    ASSUME PoolInv, NEW t \in Threads, NEW small \in BOOLEAN, TryPool(t, small),
           step[t].at # "spilling", ~cache[t].gone
    PROVE  PoolInv'
<1>1. CASE Miss(t, small)
  <2>1. misses' \in Nat /\ step[t].surplus = {} /\ Missed(small) \in StepState
        /\ Missed(small).surplus = {} /\ Missed(small).at = "missed"
    BY <1>1, IdleIsStep DEF Miss, PoolInv, PoolTypeOK, StepsAreSane
  <2>2. step' = [step EXCEPT ![t] = Missed(small)] /\ held' = held
        /\ UNCHANGED <<free, freeCount, reserved, chunks, cache>>
    BY <1>1 DEF Miss
  <2>3. QED
    BY <2>1, <2>2, ThreadGoesOn
<1>2. QED
  BY <1>1, FromCacheKeeps, RefillKeeps DEF TryPool

LEMMA AfterMissKeeps ==
    ASSUME PoolInv, NEW t \in Threads, AfterMiss(t)
    PROVE  PoolInv'
<1>1. /\ step[t].at = "missed" /\ ~cache[t].gone /\ step[t].surplus = {}
      /\ UNCHANGED <<free, freeCount, reserved, chunks, misses, cache>> /\ misses' \in Nat
  BY PoolTypes DEF AfterMiss, PoolInv, PoolTypeOK, StepsAreSane
<1>2. CASE step' = [step EXCEPT ![t].at = "reserving"] /\ UNCHANGED held
  <2> DEFINE s == [step[t] EXCEPT !.at = "reserving"]
  <2>1. s \in StepState /\ s.surplus = step[t].surplus /\ s.at = "reserving"
        /\ step' = [step EXCEPT ![t] = s]
    BY <1>2, PoolTypes DEF PoolInv, StepState
  <2> HIDE DEF s
  <2>2. QED
    BY <1>1, <1>2, <2>1, ThreadGoesOn
<1>3. ASSUME NEW b \in HeapBlocks, Gets(t, b)
      PROVE  PoolInv'
  <2>1. Has(b) \in StepState /\ Has(b).surplus = step[t].surplus /\ Has(b).at = "has"
    BY <1>1, IdleIsStep
  <2>2. held' \in SUBSET (held \cup {b}) /\ held \ {b} \subseteq held'
        /\ {b} \in SUBSET HeapBlocks /\ step' = [step EXCEPT ![t] = Has(b)]
    BY <1>3 DEF Gets
  <2>3. QED
    BY <1>1, <2>1, <2>2, ThreadGoesOn
<1>4. QED
  BY <1>2, <1>3 DEF AfterMiss

\* A thread's own list and what it has in hand are what they were, and the counts right,
\* for every other thread.
LEMMA CountsOfOne ==
    ASSUME PoolInv, NEW t \in Threads,
           freeCount' = Cardinality(free'), reserved' = Cardinality(chunks'),
           cache'[t].count = Cardinality(cache'[t].free) + Cardinality(step'[t].surplus),
           \A u \in Threads : u # t => cache'[u] = cache[u] /\ step'[u] = step[u]
    PROVE  CountsAreLengths'
  BY DEF PoolInv, CountsAreLengths

LEMMA KeepKeeps ==
    ASSUME PoolInv, NEW t \in Threads, NEW b \in held, MayRelease(t, b), ~cache[t].gone,
           held' = held \ {b}, Keep(t, b),
           UNCHANGED <<free, freeCount, reserved, chunks, misses>>
    PROVE  PoolInv'
<1> DEFINE all == cache[t].free \cup {b}
<1>1. /\ b \in Blocks /\ b \notin cache[t].free /\ all \in SUBSET Blocks
      /\ step[t].surplus = {} /\ step[t].at # "spilling"
  BY PoolTypes DEF Keep, MayRelease, PoolInv, StepsAreSane, Apart
<1>2. /\ Cardinality(all) = Cardinality(cache[t].free) + 1
      /\ Cardinality(all) \in Nat /\ Cardinality(cache[t].free) \in Nat
  BY <1>1, OneMore, FiniteBlocks, PoolTypes DEF PoolInv
<1>3. cache[t].count = Cardinality(cache[t].free)
  <2>1. Cardinality(step[t].surplus) = 0
    BY <1>1, CardinalityOfNone
  <2>2. QED
    BY <1>2, <2>1 DEF PoolInv, CountsAreLengths
<1>4. PICK kept \in SUBSET all, s \in StepState :
        /\ cache' = [cache EXCEPT ![t].free = kept, ![t].count = @ + 1]
        /\ step' = [step EXCEPT ![t] = s] /\ s.surplus = all \ kept
        /\ s.at \in {"idle", "spilling"} /\ (s.at = "idle" => s.surplus = {})
  <2>1. CASE cache[t].count + 1 > 2 * kBatchSize
    <3>1. PICK kept \in SUBSET all :
            /\ cache' = [cache EXCEPT ![t].free = kept, ![t].count = @ + 1]
            /\ step' = [step EXCEPT ![t] = [Idle EXCEPT !.at = "spilling",
                                                        !.surplus = all \ kept]]
      BY <2>1 DEF Keep
    <3> DEFINE s == [Idle EXCEPT !.at = "spilling", !.surplus = all \ kept]
    <3>2. s \in StepState /\ s.surplus = all \ kept /\ s.at = "spilling"
      BY <1>1, IdleIsStep DEF StepState
    <3>3. step' = [step EXCEPT ![t] = s]
      BY <3>1
    <3> HIDE DEF s
    <3>4. QED
      BY <3>1, <3>2, <3>3
  <2>2. CASE ~(cache[t].count + 1 > 2 * kBatchSize)
    <3>1. /\ cache' = [cache EXCEPT ![t].free = all, ![t].count = @ + 1]
          /\ step' = [step EXCEPT ![t] = Idle]
      BY <2>2 DEF Keep
    <3>2. Idle \in StepState /\ Idle.surplus = all \ all /\ Idle.at = "idle"
      BY IdleIsStep
    <3> HIDE DEF all
    <3>3. QED
      BY <3>1, <3>2
  <2>3. QED
    BY <2>1, <2>2
<1> DEFINE c == [cache[t] EXCEPT !.free = kept, !.count = @ + 1]
<1>5. /\ c \in CacheState /\ c.free = kept /\ c.gone = FALSE /\ c.count = Cardinality(all)
  <2>1. c = [cache[t] EXCEPT !.free = kept, !.count = Cardinality(all)]
    BY <1>2, <1>3
  <2>2. kept \in SUBSET Blocks /\ cache[t] \in CacheState /\ Cardinality(all) \in Nat
    BY <1>1, <1>2, PoolTypes DEF PoolInv
  <2> HIDE DEF all
  <2>3. QED
    BY <2>1, <2>2 DEF CacheState
<1>6. cache' = [cache EXCEPT ![t] = c]
  BY <1>4, PoolTypes DEF PoolInv, CacheState
<1> HIDE DEF c
<1>7. /\ cache'[t] = c /\ cache' \in [Threads -> CacheState]
      /\ step'[t] = s /\ step' \in [Threads -> StepState]
      /\ \A u \in Threads : u # t => cache'[u] = cache[u] /\ step'[u] = step[u]
  BY <1>4, <1>5, <1>6, PoolTypes, ZenonT(60) DEF PoolInv
<1>8. PoolTypeOK'
  BY <1>7 DEF PoolInv, PoolTypeOK, StepState, CacheState
<1>9. Apart'
  BY <1>1, <1>4, <1>5, <1>7 DEF PoolInv, Apart
<1>10. Covered'
  BY <1>1, <1>4, <1>5, <1>7 DEF PoolInv, Covered
<1>11. StepsAreSane'
  BY <1>4, <1>5, <1>7 DEF PoolInv, StepsAreSane
<1>12. CountsAreLengths'
  <2>1. Cardinality(all \ kept) = Cardinality(all) - Cardinality(kept)
        /\ Cardinality(kept) \in Nat
    BY <1>1, <1>4, CardinalityOfRest, FiniteBlocks
  <2>2. Cardinality(s.surplus) = Cardinality(all \ kept)
    BY <1>4, Zenon
  <2>3. /\ Cardinality(cache'[t].free) = Cardinality(kept) /\ cache'[t].count = c.count
        /\ Cardinality(step'[t].surplus) = Cardinality(s.surplus)
    BY <1>5, <1>7, Zenon
  <2>4. cache'[t].count = Cardinality(cache'[t].free) + Cardinality(step'[t].surplus)
    BY <1>2, <1>5, <2>1, <2>2, <2>3
  <2>5. freeCount' = Cardinality(free') /\ reserved' = Cardinality(chunks')
    BY DEF PoolInv, CountsAreLengths
  <2>6. QED
    BY <1>7, <2>4, <2>5, CountsOfOne
<1>13. QED
  BY <1>8, <1>9, <1>10, <1>11, <1>12 DEF PoolInv

LEMMA ReleaseKeeps ==
    ASSUME PoolInv, NEW t \in Threads, NEW b \in held, ~cache[t].gone, Release(t, b)
    PROVE  PoolInv'
<1>1. CASE ReleaseToHeap(t, b)
  <2>1. Idle \in StepState /\ Idle.surplus = step[t].surplus /\ Idle.at = "idle"
        /\ step[t].at # "spilling" /\ misses' \in Nat
    BY IdleIsStep DEF Release, MayRelease, PoolInv, PoolTypeOK, StepsAreSane
  <2>2. /\ held' \in SUBSET (held \cup {b}) /\ held \ {b} \subseteq held'
        /\ {b} \in SUBSET HeapBlocks /\ step' = [step EXCEPT ![t] = Idle]
        /\ UNCHANGED <<free, freeCount, reserved, chunks, cache>>
    BY <1>1 DEF Release, ReleaseToHeap
  <2>3. QED
    BY <2>1, <2>2, ThreadGoesOn
<1>2. QED
  BY <1>1, KeepKeeps DEF Release

LEMMA SpillKeeps ==
    ASSUME PoolInv, NEW t \in Threads, Spill(t)
    PROVE  PoolInv'
<1> DEFINE surplus == step[t].surplus
           c == [cache[t] EXCEPT !.count = @ - Cardinality(surplus)]
<1>1. /\ step[t].at = "spilling" /\ ~cache[t].gone
      /\ surplus \in SUBSET Blocks /\ surplus \cap free = {} /\ free \in SUBSET Blocks
  BY PoolTypes DEF Spill, PoolInv, PoolTypeOK, StepsAreSane, Apart
<1>2. /\ Cardinality(surplus) \in Nat /\ Cardinality(cache[t].free) \in Nat
      /\ cache[t].count = Cardinality(cache[t].free) + Cardinality(surplus)
  BY FiniteBlocks, PoolTypes DEF PoolInv, CountsAreLengths
<1>3. /\ c \in CacheState /\ c.free = cache[t].free /\ c.gone = FALSE
      /\ c.count = Cardinality(cache[t].free)
  <2>1. cache[t].count - Cardinality(surplus) = Cardinality(cache[t].free)
    BY <1>2
  <2>2. c = [cache[t] EXCEPT !.count = Cardinality(cache[t].free)]
    BY <2>1
  <2>3. QED
    BY <1>1, <1>2, <2>2, PoolTypes DEF PoolInv, CacheState
<1>4. cache' = [cache EXCEPT ![t] = c] /\ step' = [step EXCEPT ![t] = Idle]
  BY PoolTypes DEF Spill, PoolInv, CacheState
<1>5. /\ free' = free \cup surplus /\ freeCount' = freeCount + Cardinality(surplus)
      /\ UNCHANGED <<reserved, chunks, misses, held>>
  BY DEF Spill
<1> HIDE DEF c
<1>6. /\ cache'[t] = c /\ cache' \in [Threads -> CacheState]
      /\ step'[t] = Idle /\ step' \in [Threads -> StepState]
      /\ \A u \in Threads : u # t => cache'[u] = cache[u] /\ step'[u] = step[u]
  BY <1>3, <1>4, PoolTypes, IdleIsStep DEF PoolInv
<1>7. PoolTypeOK'
  BY <1>1, <1>2, <1>5, <1>6 DEF PoolInv, PoolTypeOK, StepState, CacheState
<1>8. Apart'
  BY <1>1, <1>3, <1>5, <1>6, IdleIsStep DEF PoolInv, Apart
<1>9. Covered'
  BY <1>1, <1>3, <1>5, <1>6, IdleIsStep DEF PoolInv, Covered
<1>10. StepsAreSane'
  BY <1>3, <1>6, IdleIsStep DEF PoolInv, StepsAreSane
<1>11. CountsAreLengths'
  <2>1. Cardinality(free \cup surplus) = Cardinality(free) + Cardinality(surplus)
    BY <1>1, CardinalityOfBoth
  <2>2. freeCount' = Cardinality(free') /\ reserved' = Cardinality(chunks')
    BY <1>5, <2>1 DEF PoolInv, CountsAreLengths
  <2>3. Cardinality(step'[t].surplus) = 0
    BY <1>6, IdleIsStep, CardinalityOfNone
  <2>4. Cardinality(cache'[t].free) = Cardinality(cache[t].free) /\ cache'[t].count = c.count
    BY <1>3, <1>6, Zenon
  <2>5. cache'[t].count = Cardinality(cache'[t].free) + Cardinality(step'[t].surplus)
    BY <1>2, <1>3, <2>3, <2>4
  <2>6. QED
    BY <1>6, <2>2, <2>5, CountsOfOne
<1>12. QED
  BY <1>7, <1>8, <1>9, <1>10, <1>11 DEF PoolInv

LEMMA ExitKeeps ==
    ASSUME PoolInv, NEW t \in Threads, Exit(t)
    PROVE  PoolInv'
<1> DEFINE c == [free |-> {}, count |-> 0, gone |-> TRUE]
<1>1. /\ free' = free \cup cache[t].free /\ freeCount' = freeCount + cache[t].count
      /\ cache' = [cache EXCEPT ![t] = c] /\ step[t].at = "idle"
      /\ UNCHANGED <<reserved, chunks, misses, held, step>>
  BY DEF Exit
<1>2. c \in CacheState /\ c.free = {} /\ c.count = 0
  BY DEF CacheState
<1> HIDE DEF c
<1>3. /\ cache'[t] = c /\ cache' \in [Threads -> CacheState]
      /\ \A u \in Threads : u # t => cache'[u] = cache[u]
  BY <1>1, <1>2, PoolTypes DEF PoolInv
<1>4. /\ step[t].surplus = {} /\ free \cap cache[t].free = {}
      /\ free \in SUBSET Blocks /\ cache[t].free \in SUBSET Blocks /\ cache[t].count \in Nat
  BY <1>1, PoolTypes DEF PoolInv, PoolTypeOK, StepsAreSane, Apart
<1>5. PoolTypeOK'
  BY <1>1, <1>3, <1>4 DEF PoolInv, PoolTypeOK, CacheState
<1>6. Apart'
  BY <1>1, <1>2, <1>3 DEF PoolInv, Apart
<1>7. Covered'
  BY <1>1, <1>2, <1>3 DEF PoolInv, Covered
<1>8. StepsAreSane'
  BY <1>1, <1>2, <1>3 DEF PoolInv, StepsAreSane
<1>9. CountsAreLengths'
  <2>1. Cardinality(step[t].surplus) = 0 /\ Cardinality(c.free) = 0
    BY <1>2, <1>4, CardinalityOfNone
  <2>2. cache[t].count = Cardinality(cache[t].free)
    <3>1. Cardinality(cache[t].free) \in Nat
      BY <1>4, FiniteBlocks
    <3>2. cache[t].count = Cardinality(cache[t].free) + Cardinality(step[t].surplus)
      BY DEF PoolInv, CountsAreLengths
    <3>3. QED
      BY <2>1, <3>1, <3>2
  <2>3. Cardinality(free \cup cache[t].free) = Cardinality(free) + Cardinality(cache[t].free)
    BY <1>4, CardinalityOfBoth
  <2>4. freeCount' = Cardinality(free') /\ reserved' = Cardinality(chunks')
    BY <1>1, <2>2, <2>3 DEF PoolInv, CountsAreLengths
  <2>5. /\ Cardinality(cache'[t].free) = 0 /\ cache'[t].count = 0
        /\ Cardinality(step'[t].surplus) = 0
    BY <1>1, <1>2, <1>3, <2>1, Zenon
  <2>6. cache'[t].count = Cardinality(cache'[t].free) + Cardinality(step'[t].surplus)
    BY <2>5
  <2>7. QED
    BY <1>1, <1>3, <2>4, <2>6, CountsOfOne
<1>10. QED
  BY <1>5, <1>6, <1>7, <1>8, <1>9 DEF PoolInv
-----------------------------------------------------------------------------
LEMMA StepPoolInv ==
    ASSUME PoolInv, [PoolNext]_poolVars
    PROVE  PoolInv'
<1>1. ASSUME NEW t \in Threads, NEW n \in 1..Cardinality(Blocks), Reserve(t, n)
      PROVE  PoolInv'
  <2>1. step[t] \in StepState /\ step' = [step EXCEPT ![t] = step[t]] /\ n \in Nat
    BY <1>1, PoolTypes, FiniteBlocks DEF Reserve, PoolInv
  <2>2. QED
    BY <1>1, <2>1, ChunkIsAdded DEF Reserve
<1>2. ASSUME NEW t \in Threads, NEW small \in BOOLEAN, Allocate(t, small)
      PROVE  PoolInv'
  BY <1>2, TryPoolKeeps DEF Allocate
<1>3. ASSUME NEW t \in Threads, ReserveDefault(t)
      PROVE  PoolInv'
  <2> DEFINE s == [step[t] EXCEPT !.at = "retry"]
  <2>1. s \in StepState /\ s.surplus = step[t].surplus /\ s.at = "retry"
        /\ step' = [step EXCEPT ![t] = s]
    BY <1>3, PoolTypes DEF ReserveDefault, PoolInv, StepState
  <2>2. ~cache[t].gone /\ kDefaultBlocks \in Nat
    BY <1>3, EventPoolAssumption DEF ReserveDefault, PoolInv, StepsAreSane
  <2> HIDE DEF s
  <2>3. QED
    BY <1>3, <2>1, <2>2, ChunkIsAdded DEF ReserveDefault
<1>4. ASSUME NEW t \in Threads, AllocateAgain(t)
      PROVE  PoolInv'
  <2>1. ~cache[t].gone
    BY <1>4 DEF AllocateAgain, PoolInv, StepsAreSane
  <2>2. QED
    BY <1>4, <2>1, TryPoolKeeps DEF AllocateAgain
<1>5. ASSUME NEW t \in Threads, Return(t)
      PROVE  PoolInv'
  <2>1. Idle \in StepState /\ Idle.surplus = step[t].surplus /\ Idle.at = "idle"
        /\ step[t].at # "spilling" /\ misses' \in Nat
    BY <1>5, IdleIsStep DEF Return, PoolInv, PoolTypeOK, StepsAreSane
  <2>2. held' = held /\ {} \in SUBSET HeapBlocks
    BY <1>5 DEF Return
  <2>3. QED
    BY <1>5, <2>1, <2>2, ThreadGoesOn DEF Return
<1>6. CASE UNCHANGED poolVars
  BY <1>6 DEF poolVars, PoolInv, PoolTypeOK, Apart, Covered, StepsAreSane, CountsAreLengths
<1>7. QED
  BY <1>1, <1>2, <1>3, <1>4, <1>5, <1>6, AfterMissKeeps, ReleaseKeeps, SpillKeeps, ExitKeeps
  DEF PoolNext

\* A place for every block of a chunk, and one only: BlocksAreKept as the check of it counts
\* places.
LEMMA OnePlace ==
    ASSUME PoolInv, NEW b \in chunks
    PROVE  Cardinality(PlacesOf(b)) = 1
<1> DEFINE caches == {u \in Threads : b \in cache[u].free}
           hands == {u \in Threads : b \in step[u].surplus}
<1>1. b \in Blocks
  BY DEF PoolInv, PoolTypeOK
<1>2. CASE b \in free
  <2>1. b \notin held /\ caches = {} /\ hands = {}
    BY <1>1, <1>2 DEF PoolInv, Apart
  <2>2. PlacesOf(b) = {"central"}
    BY <1>2, <2>1 DEF PlacesOf
  <2>3. QED
    BY <2>2, FS_Singleton
<1>3. CASE b \in held
  <2>1. b \notin free /\ caches = {} /\ hands = {}
    BY <1>1, <1>3 DEF PoolInv, Apart
  <2>2. PlacesOf(b) = {"held"}
    BY <1>3, <2>1 DEF PlacesOf
  <2>3. QED
    BY <2>2, FS_Singleton
<1>4. ASSUME NEW t \in Threads, b \in cache[t].free
      PROVE  Cardinality(PlacesOf(b)) = 1
  <2>1. b \notin free /\ b \notin held /\ caches = {t} /\ hands = {}
    BY <1>1, <1>4 DEF PoolInv, Apart
  <2>2. PlacesOf(b) = {<<t, "cache">>}
    BY <2>1 DEF PlacesOf
  <2>3. QED
    BY <2>2, FS_Singleton
<1>5. ASSUME NEW t \in Threads, b \in step[t].surplus
      PROVE  Cardinality(PlacesOf(b)) = 1
  <2>1. b \notin free /\ b \notin held /\ caches = {} /\ hands = {t}
    BY <1>1, <1>5 DEF PoolInv, Apart
  <2>2. PlacesOf(b) = {<<t, "surplus">>}
    BY <2>1 DEF PlacesOf
  <2>3. QED
    BY <2>2, FS_Singleton
<1>6. QED
  BY <1>1, <1>2, <1>3, <1>4, <1>5 DEF PoolInv, Covered

\* Every block of the pool is in one place, is lost to no thread that ended, and the counts
\* are the lengths of the lists, whichever threads allocate, release, spill, refill, reserve
\* and end in any order (EventPool.cpp).
THEOREM BlocksAreAlwaysKept == PoolSpec => [](PoolTypeOK /\ BlocksAreKept)
<1>1. PoolInit => PoolInv
  BY InitPoolInv
<1>2. PoolInv /\ [PoolNext]_poolVars => PoolInv'
  BY StepPoolInv
<1>3. PoolInv => PoolTypeOK /\ BlocksAreKept
  BY OnePlace DEF PoolInv, StepsAreSane, BlocksAreKept
<1>4. QED
  BY <1>1, <1>2, <1>3, PTL DEF PoolSpec

-----------------------------------------------------------------------------
(***************************************************************************)
(* The record.                                                             *)
(***************************************************************************)
Frame == [event : Events, tracked : BOOLEAN, start : Nat, previous : Reading]
Writing == [at : {"run", "previous", "write"}, left : SUBSET Fields, next : Reading,
            ends : BOOLEAN]
ReaderState == [at : {"idle", "load", "copy"}, before : Nat, left : SUBSET Fields,
                copy : Reading]

LEMMA EmptyIsReading == Empty \in Reading
  BY DEF Empty, Reading

\* One field of a record of the right type is replaced by a field of another.
LEMMA StoreKeepsType ==
    ASSUME NEW a \in Reading, NEW b \in Reading, NEW f \in Fields
    PROVE  [a EXCEPT ![f] = b[f]] \in Reading
<1>1. CASE f = "dispatching"
  BY <1>1 DEF Reading, Fields
<1>2. CASE f = "start"
  BY <1>2 DEF Reading, Fields
<1>3. CASE f = "finished"
  BY <1>3 DEF Reading, Fields
<1>4. CASE f = "event"
  BY <1>4 DEF Reading, Fields
<1>5. QED
  BY <1>1, <1>2, <1>3, <1>4 DEF Fields

\* Records that agree in every field are the same.
LEMMA SameFields ==
    ASSUME NEW a \in Reading, NEW b \in Reading,
           \A f \in Fields : a[f] = b[f]
    PROVE  a = b
  BY DEF Reading, Fields

LEMMA StoreStores ==
    ASSUME NEW a \in Reading, NEW b \in Reading, NEW f \in Fields, NEW g \in Fields
    PROVE  [a EXCEPT ![f] = b[f]][g] = IF g = f THEN b[f] ELSE a[g]
  BY DEF Reading, Fields

LEMMA FrontAndLast ==
    ASSUME NEW S, NEW s \in Seq(S)
    PROVE  /\ Front(s) \in Seq(S)
           /\ s # <<>> => Last(s) \in S
  BY DEF Front, Last
-----------------------------------------------------------------------------
(* Types.                                                                  *)

LEMMA InitTypeOK == HealthInit => HealthTypeOK
<1> SUFFICES ASSUME HealthInit PROVE HealthTypeOK
  OBVIOUS
<1>1. Running \in Writing
  BY EmptyIsReading DEF Running, Writing
<1>2. Resting \in ReaderState
  BY EmptyIsReading DEF Resting, ReaderState
<1>3. reader \in [Readers -> ReaderState] /\ reading \in [Readers -> Reading]
  BY <1>2, EmptyIsReading DEF HealthInit
<1>4. frames \in Seq(Frame)
  BY DEF HealthInit
<1>5. QED
  BY <1>1, <1>3, <1>4, EmptyIsReading
  DEF HealthInit, HealthTypeOK, Writing, ReaderState, Frame

LEMMA BegunIsReading ==
    ASSUME HealthTypeOK, NEW frame \in Frame
    PROVE  Begun(frame) \in Reading
  BY DEF HealthTypeOK, Begun, Frame, Reading

LEMMA EndedIsReading ==
    ASSUME HealthTypeOK, NEW previous \in Reading
    PROVE  Ended(previous) \in Reading
<1> DEFINE finished == <<record.start, record.finished[2] + 1>>
           start == IF previous.dispatching THEN previous.start ELSE 0
<1>1. finished \in Nat \X Nat
  BY DEF HealthTypeOK, Reading
<1>2. start \in Nat /\ previous.dispatching \in BOOLEAN /\ previous.event \in Events \cup {NoEvent}
  BY DEF Reading
<1>3. Ended(previous) = [record EXCEPT !.finished = finished,
                                       !.dispatching = previous.dispatching,
                                       !.event = previous.event,
                                       !.start = start]
  BY DEF Ended
<1>4. record \in Reading
  BY DEF HealthTypeOK
<1> HIDE DEF finished, start
<1>5. QED
  BY <1>1, <1>2, <1>3, <1>4 DEF Reading

LEMMA FramesAreFrames ==
    ASSUME HealthTypeOK
    PROVE  frames \in Seq(Frame)
  BY DEF HealthTypeOK, Frame

\* What is about to be recorded, or being recorded, is of a dispatch in progress.
OneInProgress == writing.at # "run" => frames # <<>>

LEMMA StepTypeOK ==
    ASSUME HealthTypeOK, OneInProgress, [HealthNext]_healthVars
    PROVE  HealthTypeOK'
<1> USE FramesAreFrames
<1>1. ASSUME NEW enabled \in BOOLEAN, SetHealthTrackingEnabled(enabled)
      PROVE  HealthTypeOK'
  BY <1>1 DEF HealthTypeOK, SetHealthTrackingEnabled, readerVars
<1>2. ASSUME NEW e \in Events, BeginDispatch(e)
      PROVE  HealthTypeOK'
  <2>1. clock' \in Nat /\ clock + 1 \in Nat
    BY <1>2 DEF HealthTypeOK, BeginDispatch
  <2>2. [event |-> e, tracked |-> tracking, start |-> clock + 1, previous |-> Empty] \in Frame
    BY <2>1, EmptyIsReading DEF HealthTypeOK, Frame
  <2>3. frames' \in Seq(Frame)
    BY <1>2, <2>2 DEF BeginDispatch
  <2>4. writing' \in Writing
    BY <1>2 DEF HealthTypeOK, BeginDispatch, Writing
  <2>5. QED
    BY <1>2, <2>1, <2>3, <2>4 DEF HealthTypeOK, BeginDispatch, Writing, Frame, readerVars
<1>3. CASE RecordBegin
  <2> DEFINE top == Len(frames)
             previous == IF tracking THEN record ELSE Empty
  <2>1. top \in DOMAIN frames /\ frames[top] \in Frame
    BY <1>3 DEF OneInProgress, RecordBegin
  <2>2. previous \in Reading
    BY EmptyIsReading DEF HealthTypeOK
  <2>3. [frames[top] EXCEPT !.previous = previous] \in Frame
    BY <2>1, <2>2 DEF Frame
  <2>4. frames' = [frames EXCEPT ![top] = [frames[top] EXCEPT !.previous = previous]]
    BY <1>3 DEF RecordBegin
  <2>5. frames' \in Seq(Frame)
    BY <2>1, <2>3, <2>4
  <2>6. writing' \in Writing
    BY <1>3, <2>1, BegunIsReading DEF RecordBegin, Raise, Writing, Fields
  <2>7. QED
    BY <1>3, <2>5, <2>6 DEF HealthTypeOK, RecordBegin, Raise, Writing, Frame, readerVars
<1>4. ASSUME NEW f \in Fields, Store(f)
      PROVE  HealthTypeOK'
  <2>1. record' \in Reading
    BY <1>4, StoreKeepsType DEF HealthTypeOK, Store
  <2>2. writing' \in Writing
    BY <1>4 DEF HealthTypeOK, Store, Writing
  <2>3. QED
    BY <1>4, <2>1, <2>2 DEF HealthTypeOK, Store, Writing, readerVars
<1>5. CASE Publish
  <2>1. writing' \in Writing
    BY <1>5, EmptyIsReading DEF Publish, Running, Writing
  <2>2. frames' \in Seq(Frame)
    BY <1>5, FrontAndLast DEF Publish
  <2>3. QED
    BY <1>5, <2>1, <2>2 DEF HealthTypeOK, Publish, Writing, Frame, readerVars
<1>6. CASE EndDispatch
  <2>1. frames' \in Seq(Frame) /\ Last(frames) \in Frame
    BY <1>6, FrontAndLast DEF EndDispatch
  <2>2. Ended(Last(frames).previous) \in Reading
    BY <2>1, EndedIsReading DEF Frame
  <2>3. writing' \in Writing
    <3>1. CASE Last(frames).tracked
      <4> DEFINE ended == Ended(Last(frames).previous)
      <4>1. writing' = [at |-> "write", left |-> Fields, next |-> ended, ends |-> TRUE]
        BY <1>6, <3>1 DEF EndDispatch, Raise
      <4>2. ended \in Reading
        BY <2>2
      <4> HIDE DEF ended
      <4>3. QED
        BY <4>1, <4>2 DEF Writing
    <3>2. CASE ~Last(frames).tracked
      BY <1>6, <3>2 DEF HealthTypeOK, EndDispatch, Writing
    <3>3. QED
      BY <3>1, <3>2
  <2>4. seq' \in Nat
    BY <1>6 DEF HealthTypeOK, EndDispatch, Raise
  <2>5. QED
    BY <1>6, <2>1, <2>3, <2>4 DEF HealthTypeOK, EndDispatch, Writing, Frame, readerVars
<1>7. ASSUME NEW r \in Readers, Health(r) \/ LoadSeq(r) \/ Recheck(r)
      PROVE  HealthTypeOK'
  <2>1. Resting \in ReaderState /\ [Resting EXCEPT !.at = "load"] \in ReaderState
    BY EmptyIsReading DEF Resting, ReaderState
  <2>2. reader[r] \in ReaderState /\ reader \in [Readers -> ReaderState]
    BY DEF HealthTypeOK, ReaderState
  <2>3. CASE Health(r)
    <3>1. [reader[r] EXCEPT !.at = "load"] \in ReaderState
      BY <2>2 DEF ReaderState
    <3>2. reader' \in [Readers -> ReaderState]
      BY <2>2, <2>3, <3>1 DEF Health
    <3>3. reading' \in [Readers -> Reading]
      BY <2>3, EmptyIsReading DEF HealthTypeOK, Health
    <3>4. QED
      BY <2>3, <3>2, <3>3 DEF HealthTypeOK, Health, ReaderState, loopVars
  <2>4. CASE LoadSeq(r)
    <3>1. [reader[r] EXCEPT !.at = "copy", !.before = seq, !.left = Fields] \in ReaderState
      BY <2>2 DEF HealthTypeOK, ReaderState
    <3>2. reader' \in [Readers -> ReaderState]
      BY <2>2, <2>4, <3>1 DEF LoadSeq
    <3>3. QED
      BY <2>4, <3>2 DEF HealthTypeOK, LoadSeq, ReaderState, loopVars
  <2>5. CASE Recheck(r)
    <3>1. reader[r].copy \in Reading
      BY <2>2 DEF ReaderState
    <3>2. reader' \in [Readers -> ReaderState]
      BY <2>1, <2>2, <2>5 DEF Recheck
    <3>3. reading' \in [Readers -> Reading]
      BY <2>5, <3>1 DEF HealthTypeOK, Recheck
    <3>4. QED
      BY <2>5, <3>2, <3>3 DEF HealthTypeOK, Recheck, ReaderState, loopVars
  <2>6. QED
    BY <1>7, <2>3, <2>4, <2>5
<1>8. ASSUME NEW r \in Readers, NEW f \in Fields, Load(r, f)
      PROVE  HealthTypeOK'
  <2>1. [reader[r].copy EXCEPT ![f] = record[f]] \in Reading
    BY <1>8, StoreKeepsType DEF HealthTypeOK
  <2>2. reader' \in [Readers -> ReaderState]
    BY <1>8, <2>1, ZenonT(60) DEF HealthTypeOK, Load, ReaderState
  <2>3. QED
    BY <1>8, <2>2 DEF HealthTypeOK, Load, ReaderState, loopVars
<1>9. CASE UNCHANGED healthVars
  BY <1>9 DEF HealthTypeOK, healthVars, readerVars
<1>10. QED
  BY <1>1, <1>2, <1>3, <1>4, <1>5, <1>6, <1>7, <1>8, <1>9 DEF HealthNext
-----------------------------------------------------------------------------
(* The sequence lock.                                                      *)

LEMMA EvenOrOdd ==
    ASSUME NEW n \in Nat
    PROVE  Even(n + 1) <=> ~Even(n)
  BY DEF Even

\* What the lock rests on: the counter is odd exactly while the record is written; an even
\* one stands for a record that was complete; and what a reader has copied is what the
\* record says, unless the counter has moved since it looked.
LockHolds ==
    /\ (writing.at = "write") <=> ~Even(seq)
    /\ Even(seq) => record \in published
    /\ Empty \in published
    /\ \A r \in Readers :
        /\ reading[r] \in published
        /\ reader[r].at = "copy" =>
            /\ Even(reader[r].before)
            /\ reader[r].before <= seq
            /\ reader[r].before = seq =>
                \A f \in Fields \ reader[r].left : reader[r].copy[f] = record[f]

HealthInv == HealthTypeOK /\ OneInProgress /\ LockHolds

LEMMA InitHealthInv == HealthInit => HealthInv
<1> SUFFICES ASSUME HealthInit PROVE HealthInv
  OBVIOUS
<1>1. HealthTypeOK
  BY InitTypeOK
<1>2. OneInProgress
  BY DEF HealthInit, Running, OneInProgress
<1>3. LockHolds
  BY DEF HealthInit, Running, Resting, LockHolds, Even
<1>4. QED
  BY <1>1, <1>2, <1>3 DEF HealthInv

LEMMA StepOneInProgress ==
    ASSUME HealthInv, [HealthNext]_healthVars
    PROVE  OneInProgress'
<1> USE DEF OneInProgress
<1>1. ASSUME NEW e \in Events, BeginDispatch(e)
      PROVE  OneInProgress'
  <2>1. Len(frames') = Len(frames) + 1 /\ Len(frames) \in Nat
    BY <1>1, FramesAreFrames DEF HealthInv, BeginDispatch
  <2>2. frames' # <<>>
    BY <2>1
  <2>3. QED
    BY <2>2
<1>2. CASE RecordBegin \/ Publish \/ EndDispatch \/ \E f \in Fields : Store(f)
  BY <1>2 DEF HealthInv, HealthTypeOK, RecordBegin, Publish, EndDispatch, Store, Raise, Running
<1>3. CASE UNCHANGED <<writing, frames>>
  BY <1>3 DEF HealthInv
<1>4. QED
  BY <1>1, <1>2, <1>3
  DEF HealthNext, SetHealthTrackingEnabled, Health, LoadSeq, Recheck, Load, loopVars, healthVars

\* Whatever leaves the lock's variables alone leaves the lock alone.
LEMMA LockUnchanged ==
    ASSUME LockHolds, UNCHANGED <<seq, record, writing, reader, reading, published>>
    PROVE  LockHolds'
  BY DEF LockHolds

\* The counter moves on: no reader's earlier look at it is good any more.
LEMMA CounterMoves ==
    ASSUME HealthInv, seq' = seq + 1, published \subseteq published',
           (writing'.at = "write") <=> ~Even(seq'),
           Even(seq') => record' \in published',
           UNCHANGED <<reader, reading>>
    PROVE  LockHolds'
<1>1. ASSUME NEW r \in Readers
      PROVE  /\ reading'[r] \in published'
             /\ reader'[r].at = "copy" =>
                /\ Even(reader'[r].before)
                /\ reader'[r].before <= seq'
                /\ reader'[r].before # seq'
  <2>1. seq \in Nat /\ reader[r].before \in Nat
    BY DEF HealthInv, HealthTypeOK
  <2>2. QED
    BY <2>1 DEF HealthInv, LockHolds
<1>2. Empty \in published'
  BY DEF HealthInv, LockHolds
<1>3. QED
  BY <1>1, <1>2 DEF LockHolds

LEMMA StepLockHolds ==
    ASSUME HealthInv, [HealthNext]_healthVars
    PROVE  LockHolds'
<1>0. seq \in Nat /\ (Even(seq + 1) <=> ~Even(seq))
  BY EvenOrOdd DEF HealthInv, HealthTypeOK
<1>1. ASSUME NEW enabled \in BOOLEAN, SetHealthTrackingEnabled(enabled)
      PROVE  LockHolds'
  BY <1>1, LockUnchanged DEF HealthInv, SetHealthTrackingEnabled, readerVars
<1>2. ASSUME NEW e \in Events, BeginDispatch(e)
      PROVE  LockHolds'
  <2>1. writing'.at # "write" /\ writing.at # "write"
    BY <1>2 DEF HealthInv, HealthTypeOK, BeginDispatch
  <2>2. UNCHANGED <<seq, record, reader, reading, published>>
    BY <1>2 DEF BeginDispatch, readerVars
  <2>3. QED
    BY <2>1, <2>2 DEF HealthInv, LockHolds
<1>3. CASE RecordBegin
  <2>1. writing'.at = "write" /\ seq' = seq + 1
    BY <1>3 DEF RecordBegin, Raise
  <2>2. Even(seq)
    BY <1>3 DEF RecordBegin, HealthInv, LockHolds
  <2>3. UNCHANGED <<reader, reading, published>>
    BY <1>3 DEF RecordBegin, readerVars
  <2>4. QED
    BY <1>0, <2>1, <2>2, <2>3, CounterMoves
<1>4. ASSUME NEW f \in Fields, Store(f)
      PROVE  LockHolds'
  <2>1. writing'.at = "write" /\ ~Even(seq)
    BY <1>4 DEF Store, HealthInv, HealthTypeOK, LockHolds
  <2>2. UNCHANGED <<seq, reader, reading, published>>
    BY <1>4 DEF Store, readerVars
  <2>3. \A r \in Readers : reader[r].at = "copy" => reader[r].before # seq
    BY <2>1 DEF HealthInv, LockHolds
  <2>4. QED
    BY <2>1, <2>2, <2>3 DEF HealthInv, LockHolds
<1>5. CASE Publish
  <2>1. writing'.at = "run" /\ seq' = seq + 1 /\ published' = published \cup {record}
    BY <1>5 DEF Publish, Running
  <2>2. ~Even(seq) /\ record' = record
    BY <1>5 DEF Publish, HealthInv, LockHolds
  <2>3. UNCHANGED <<reader, reading>>
    BY <1>5 DEF Publish, readerVars
  <2>4. QED
    BY <1>0, <2>1, <2>2, <2>3, CounterMoves
<1>6. CASE EndDispatch
  <2>1. CASE Last(frames).tracked
    <3>1. writing'.at = "write" /\ seq' = seq + 1
      BY <1>6, <2>1 DEF EndDispatch, Raise
    <3>2. Even(seq)
      BY <1>6 DEF EndDispatch, HealthInv, LockHolds
    <3>3. UNCHANGED <<reader, reading, published>>
      BY <1>6 DEF EndDispatch, readerVars
    <3>4. QED
      BY <1>0, <3>1, <3>2, <3>3, CounterMoves
  <2>2. CASE ~Last(frames).tracked
    BY <1>6, <2>2, LockUnchanged DEF EndDispatch, HealthInv, readerVars
  <2>3. QED
    BY <2>1, <2>2
<1>7. ASSUME NEW r \in Readers, Health(r)
      PROVE  LockHolds'
  <2>1. Empty \in published /\ reading \in [Readers -> Reading]
        /\ DOMAIN reader = Readers
    BY DEF HealthInv, LockHolds, HealthTypeOK
  <2>2. UNCHANGED <<seq, record, writing, published>>
    BY <1>7 DEF Health, loopVars
  <2>3. \A s \in Readers : reading'[s] = reading[s] \/ reading'[s] = Empty
    BY <1>7, <2>1 DEF Health
  <2>4. \A s \in Readers : \/ reader'[s] = reader[s]
                          \/ reader'[s].at = "load"
    <3>1. CASE UNCHANGED reader
      BY <3>1
    <3>2. CASE reader' = [reader EXCEPT ![r].at = "load"]
      <4>1. \A s \in Readers : s # r => reader'[s] = reader[s]
        BY <2>1, <3>2
      <4>2. reader'[r] = [reader[r] EXCEPT !.at = "load"]
        BY <2>1, <3>2
      <4>3. reader'[r].at = "load"
        BY <4>2 DEF HealthInv, HealthTypeOK
      <4>4. QED
        BY <4>1, <4>3
    <3>3. QED
      BY <1>7, <3>1, <3>2 DEF Health
  <2>5. QED
    BY <2>1, <2>2, <2>3, <2>4 DEF HealthInv, LockHolds
<1>8. ASSUME NEW r \in Readers, LoadSeq(r)
      PROVE  LockHolds'
  <2>1. reader'[r].before = seq /\ reader'[r].left = Fields /\ Even(seq)
    BY <1>8 DEF LoadSeq, HealthInv, HealthTypeOK
  <2>2. \A s \in Readers \ {r} : reader'[s] = reader[s]
    BY <1>8 DEF LoadSeq, HealthInv, HealthTypeOK
  <2>3. UNCHANGED <<seq, record, writing, reading, published>>
    BY <1>8 DEF LoadSeq, loopVars
  <2>4. QED
    BY <1>0, <2>1, <2>2, <2>3 DEF HealthInv, LockHolds
<1>9. ASSUME NEW r \in Readers, NEW f \in Fields, Load(r, f)
      PROVE  LockHolds'
  <2>1. /\ reader'[r].at = reader[r].at /\ reader'[r].before = reader[r].before
        /\ reader'[r].left = reader[r].left \ {f}
        /\ reader'[r].copy = [reader[r].copy EXCEPT ![f] = record[f]]
    BY <1>9 DEF Load, HealthInv, HealthTypeOK
  <2>2. \A g \in Fields : reader'[r].copy[g] = IF g = f THEN record[f] ELSE reader[r].copy[g]
    BY <2>1, StoreStores DEF HealthInv, HealthTypeOK
  <2>3. \A s \in Readers \ {r} : reader'[s] = reader[s]
    BY <1>9 DEF Load, HealthInv, HealthTypeOK
  <2>4. UNCHANGED <<seq, record, writing, reading, published>>
    BY <1>9 DEF Load, loopVars
  <2>5. reader'[r].before = seq =>
            \A g \in Fields \ reader'[r].left : reader'[r].copy[g] = record[g]
    <3>1. reader[r].at = "copy"
      BY <1>9 DEF Load
    <3>2. reader[r].before = seq =>
            \A g \in Fields \ reader[r].left : reader[r].copy[g] = record[g]
      BY <3>1 DEF HealthInv, LockHolds
    <3>3. QED
      BY <2>1, <2>2, <3>2
  <2>6. reader[r].at = "copy" /\ Even(reader'[r].before) /\ reader'[r].before <= seq
    <3>1. reader[r].at = "copy"
      BY <1>9 DEF Load
    <3>2. QED
      BY <2>1, <3>1 DEF HealthInv, LockHolds
  <2>7. ASSUME NEW s \in Readers
        PROVE  /\ reading'[s] \in published'
               /\ reader'[s].at = "copy" =>
                  /\ Even(reader'[s].before)
                  /\ reader'[s].before <= seq'
                  /\ reader'[s].before = seq' =>
                      \A g \in Fields \ reader'[s].left : reader'[s].copy[g] = record'[g]
    <3>1. CASE s = r
      BY <2>4, <2>5, <2>6, <3>1 DEF HealthInv, LockHolds
    <3>2. CASE s # r
      BY <2>3, <2>4, <3>2 DEF HealthInv, LockHolds
    <3>3. QED
      BY <3>1, <3>2
  <2>8. QED
    BY <2>4, <2>7 DEF HealthInv, LockHolds
<1>10. ASSUME NEW r \in Readers, Recheck(r)
       PROVE  LockHolds'
  <2>1. reader'[r].at # "copy"
    BY <1>10 DEF Recheck, Resting, HealthInv, HealthTypeOK
  <2>2. \A s \in Readers \ {r} : reader'[s] = reader[s] /\ reading'[s] = reading[s]
    BY <1>10 DEF Recheck, HealthInv, HealthTypeOK
  <2>3. UNCHANGED <<seq, record, writing, published>>
    BY <1>10 DEF Recheck, loopVars
  <2>4. reading'[r] \in published
    <3>1. CASE seq = reader[r].before
      <4>1. \A f \in Fields : reader[r].copy[f] = record[f]
        BY <1>10, <3>1 DEF Recheck, HealthInv, LockHolds
      <4>2. reader[r].copy = record
        BY <4>1, SameFields DEF HealthInv, HealthTypeOK
      <4>3. record \in published
        BY <1>10, <3>1 DEF Recheck, HealthInv, LockHolds
      <4>4. QED
        BY <1>10, <3>1, <4>2, <4>3 DEF Recheck, HealthInv, HealthTypeOK
    <3>2. CASE seq # reader[r].before
      BY <1>10, <3>2 DEF Recheck, HealthInv, LockHolds
    <3>3. QED
      BY <3>1, <3>2
  <2>5. QED
    BY <2>1, <2>2, <2>3, <2>4 DEF HealthInv, LockHolds
<1>11. CASE UNCHANGED healthVars
  BY <1>11, LockUnchanged DEF HealthInv, healthVars, readerVars
<1>12. QED
  BY <1>1, <1>2, <1>3, <1>4, <1>5, <1>6, <1>7, <1>8, <1>9, <1>10, <1>11 DEF HealthNext
-----------------------------------------------------------------------------
LEMMA StepHealthInv ==
    ASSUME HealthInv, [HealthNext]_healthVars
    PROVE  HealthInv'
  BY StepTypeOK, StepOneInProgress, StepLockHolds DEF HealthInv

\* What health() returns is what the record was at one moment, whenever it is asked, by
\* however many readers, and however the loop's stores and a reader's loads are ordered
\* between the two looks at the counter ("a reader never pairs the receiver of one
\* dispatch with the start time of another").
THEOREM ReadingsAreOneMoment == HealthSpec => [](HealthTypeOK /\ ReadingIsOneMoment)
<1>1. HealthInit => HealthInv
  BY InitHealthInv
<1>2. HealthInv /\ [HealthNext]_healthVars => HealthInv'
  BY StepHealthInv
<1>3. HealthInv => HealthTypeOK /\ ReadingIsOneMoment
  BY DEF HealthInv, LockHolds, ReadingIsOneMoment
<1>4. QED
  BY <1>1, <1>2, <1>3, PTL DEF HealthSpec

-----------------------------------------------------------------------------
(* What is dispatched.                                                     *)

\* The frames below a dispatch decide what the record named before it: that is what it
\* saved, and what the record says again when it is over.
SavedIsBelow ==
    \A i \in 1..Len(frames) :
        frames[i].tracked /\ ~(writing.at = "previous" /\ i = Len(frames)) =>
            Names(frames[i].previous, frames, i - 1)

\* The record names the innermost dispatch; while it is written, what is to be written
\* does, and what is written already agrees with it.
RecordIsNamed ==
    /\ writing.at = "run" => Names(record, frames, Len(frames))
    /\ writing.at = "previous" =>
        frames[Len(frames)].tracked /\ Names(record, frames, Len(frames) - 1)
    /\ writing.at = "write" =>
        /\ \A f \in {"dispatching", "start", "event"} \ writing.left :
            record[f] = writing.next[f]
        /\ Names(writing.next, frames, IF writing.ends THEN Len(frames) - 1 ELSE Len(frames))

NamesInv == ~blinded => SavedIsBelow /\ RecordIsNamed

LEMMA FrontFacts ==
    ASSUME NEW S, NEW s \in Seq(S), s # <<>>
    PROVE  /\ Len(s) \in Nat \ {0} /\ Last(s) = s[Len(s)] /\ Len(Front(s)) = Len(s) - 1
           /\ \A i \in 1..Len(Front(s)) : i \in 1..Len(s) /\ Front(s)[i] = s[i]
  BY DEF Front, Last

LEMMA NamesOfPrefix ==
    ASSUME NEW rec, NEW fs, NEW gs, NEW n \in Int, Names(rec, fs, n),
           \A i \in 1..n : /\ gs[i].tracked = fs[i].tracked
                           /\ gs[i].event = fs[i].event /\ gs[i].start = fs[i].start
    PROVE  Names(rec, gs, n)
<1>1. ASSUME NEW i \in 1..n, gs[i].tracked, \A j \in i + 1..n : ~gs[j].tracked
      PROVE  rec.dispatching /\ rec.event = gs[i].event /\ rec.start = gs[i].start
  <2>1. \A j \in i + 1..n : j \in 1..n
    OBVIOUS
  <2>2. fs[i].tracked /\ \A j \in i + 1..n : ~fs[j].tracked
    BY <1>1, <2>1
  <2>3. QED
    BY <2>2 DEF Names
<1>2. QED
  BY <1>1 DEF Names

LEMMA NamesOutOfTracked ==
    ASSUME NEW rec, NEW fs, NEW n \in Nat, n # 0, ~fs[n].tracked
    PROVE  Names(rec, fs, n) <=> Names(rec, fs, n - 1)
<1>1. \A i \in Int : i \in 1..n <=> i \in 1..n - 1 \/ i = n
  OBVIOUS
<1>2. \A i \in 1..n - 1 :
        (\A j \in i + 1..n : ~fs[j].tracked) <=> (\A j \in i + 1..n - 1 : ~fs[j].tracked)
  <2> SUFFICES ASSUME NEW i \in 1..n - 1
               PROVE  (\A j \in i + 1..n : ~fs[j].tracked)
                        <=> (\A j \in i + 1..n - 1 : ~fs[j].tracked)
    OBVIOUS
  <2>1. \A j \in Int : j \in i + 1..n <=> j \in i + 1..n - 1 \/ j = n
    OBVIOUS
  <2>2. QED
    BY <2>1
<1>3. QED
  BY <1>1, <1>2 DEF Names

LEMMA NamesTheTop ==
    ASSUME NEW rec, NEW fs, NEW n \in Nat, n # 0, fs[n].tracked,
           rec.dispatching, rec.event = fs[n].event, rec.start = fs[n].start
    PROVE  Names(rec, fs, n)
<1>1. n \in 1..n
  OBVIOUS
<1>2. ASSUME NEW i \in 1..n, \A j \in i + 1..n : ~fs[j].tracked
      PROVE  i = n
  <2>1. n \in i + 1..n \/ i = n
    OBVIOUS
  <2>2. QED
    BY <1>2, <2>1
<1>3. QED
  BY <1>1, <1>2 DEF Names

LEMMA NamesNothing ==
    ASSUME NEW rec, NEW fs, ~rec.dispatching, rec.event = NoEvent, rec.start = 0
    PROVE  Names(rec, fs, 0)
  BY DEF Names

\* What a record names is in these three fields, and its start only counts while it
\* dispatches.
LEMMA NamesSame ==
    ASSUME NEW rec, NEW other, NEW fs, NEW n \in Nat, Names(rec, fs, n),
           other.dispatching = rec.dispatching, other.event = rec.event,
           other.start = rec.start
           \/ other.start = IF rec.dispatching THEN rec.start ELSE 0
    PROVE  Names(other, fs, n)
<1>1. CASE \A i \in 1..n : ~fs[i].tracked
  BY <1>1 DEF Names
<1>2. ASSUME NEW i \in 1..n, fs[i].tracked, \A j \in i + 1..n : ~fs[j].tracked
      PROVE  other.dispatching /\ other.event = fs[i].event /\ other.start = fs[i].start
  BY <1>2 DEF Names
<1>3. QED
  BY <1>1, <1>2 DEF Names

LEMMA InitNamesInv == HealthInit => NamesInv
<1> SUFFICES ASSUME HealthInit PROVE NamesInv
  OBVIOUS
<1>1. Len(frames) = 0 /\ writing.at = "run" /\ record = Empty
  BY DEF HealthInit, Running
<1>2. Names(Empty, frames, 0)
  BY NamesNothing DEF Empty
<1>3. QED
  BY <1>1, <1>2 DEF NamesInv, SavedIsBelow, RecordIsNamed

\* The frames and what they saved are left alone.
LEMMA SavedUnchanged ==
    ASSUME SavedIsBelow, frames' = frames, writing.at # "previous"
    PROVE  SavedIsBelow'
  BY DEF SavedIsBelow

\* The top frame goes: those below have saved what they had saved.
LEMMA SavedOfFront ==
    ASSUME HealthTypeOK, SavedIsBelow, frames # <<>>, frames' = Front(frames),
           writing.at # "previous"
    PROVE  /\ SavedIsBelow'
           /\ Len(frames') = Len(frames) - 1
           /\ \A rec : Names(rec, frames, Len(frames) - 1) => Names(rec, frames', Len(frames'))
<1>1. frames \in Seq(Frame) /\ Len(frames) \in Nat /\ Len(frames) # 0
  BY FramesAreFrames
<1>2. Len(frames') = Len(frames) - 1 /\ \A i \in 1..Len(frames) - 1 : frames'[i] = frames[i]
  BY <1>1, FrontFacts
<1>3. ASSUME NEW n \in 0..Len(frames) - 1, NEW rec, Names(rec, frames, n)
      PROVE  Names(rec, frames', n)
  BY <1>1, <1>2, <1>3, NamesOfPrefix
<1>4. SavedIsBelow'
  <2> SUFFICES ASSUME NEW i \in 1..Len(frames'), frames'[i].tracked
               PROVE  Names(frames'[i].previous, frames', i - 1)
    BY DEF SavedIsBelow
  <2>1. i \in 1..Len(frames) /\ i - 1 \in 0..Len(frames) - 1 /\ frames'[i] = frames[i]
    BY <1>1, <1>2
  <2>2. Names(frames[i].previous, frames, i - 1)
    BY <2>1 DEF SavedIsBelow
  <2>3. QED
    BY <1>3, <2>1, <2>2
<1>5. QED
  BY <1>1, <1>2, <1>3, <1>4

LEMMA BeginKeepsNames ==
    ASSUME HealthInv, SavedIsBelow, RecordIsNamed, NEW e, BeginDispatch(e)
    PROVE  SavedIsBelow' /\ RecordIsNamed'
<1> DEFINE frame == [event |-> e, tracked |-> tracking, start |-> clock + 1, previous |-> Empty]
           n == Len(frames)
<1>1. /\ frames \in Seq(Frame) /\ n \in Nat /\ tracking \in BOOLEAN
      /\ writing \in Writing /\ writing.at = "run"
  BY FramesAreFrames DEF HealthInv, HealthTypeOK, BeginDispatch, Writing
<1>2. frames' = Append(frames, frame) /\ record' = record
  BY DEF BeginDispatch
<1>3. Len(frames') = n + 1 /\ frames'[n + 1] = frame /\ \A i \in 1..n : frames'[i] = frames[i]
  BY <1>1, <1>2
<1>4. ASSUME NEW k \in 0..n, NEW rec, Names(rec, frames, k)
      PROVE  Names(rec, frames', k)
  BY <1>1, <1>3, <1>4, NamesOfPrefix
<1>5. Names(record', frames', n)
  BY <1>1, <1>2, <1>4 DEF RecordIsNamed
<1>6. \A i \in 1..n : frames'[i].tracked => Names(frames'[i].previous, frames', i - 1)
  <2> SUFFICES ASSUME NEW i \in 1..n, frames'[i].tracked
               PROVE  Names(frames'[i].previous, frames', i - 1)
    OBVIOUS
  <2>1. i \in 1..Len(frames) /\ i - 1 \in 0..n /\ frames'[i] = frames[i]
    BY <1>1, <1>3
  <2>2. Names(frames[i].previous, frames, i - 1)
    BY <1>1, <2>1 DEF SavedIsBelow
  <2>3. QED
    BY <1>4, <2>1, <2>2
<1>7. CASE tracking
  <2>1. writing'.at = "previous"
    BY <1>1, <1>7 DEF BeginDispatch, Writing
  <2>2. SavedIsBelow'
    BY <1>1, <1>3, <1>6, <2>1 DEF SavedIsBelow
  <2>3. QED
    BY <1>1, <1>3, <1>5, <1>7, <2>1, <2>2 DEF RecordIsNamed
<1>8. CASE ~tracking
  <2>1. writing' = writing
    BY <1>8 DEF BeginDispatch
  <2>2. SavedIsBelow'
    BY <1>1, <1>3, <1>6, <1>8 DEF SavedIsBelow
  <2>3. Names(record', frames', n + 1)
    BY <1>1, <1>3, <1>5, <1>8, NamesOutOfTracked
  <2>4. QED
    BY <1>1, <1>3, <2>1, <2>2, <2>3 DEF RecordIsNamed
<1>9. QED
  BY <1>1, <1>7, <1>8

LEMMA RecordKeepsNames ==
    ASSUME HealthInv, SavedIsBelow, RecordIsNamed, RecordBegin, tracking
    PROVE  SavedIsBelow' /\ RecordIsNamed'
<1> DEFINE n == Len(frames)
<1>1. frames \in Seq(Frame) /\ n \in Nat /\ n # 0 /\ n \in 1..n /\ writing.at = "previous"
  BY FramesAreFrames DEF HealthInv, RecordBegin, OneInProgress
<1>2. frames[n] \in Frame /\ record \in Reading
  BY <1>1 DEF HealthInv, HealthTypeOK
<1>3. /\ Len(frames') = n
      /\ frames'[n] = [frames[n] EXCEPT !.previous = record]
      /\ \A i \in 1..n - 1 : frames'[i] = frames[i]
  BY <1>1 DEF RecordBegin
<1>4. \A i \in 1..n : /\ frames'[i].tracked = frames[i].tracked
                      /\ frames'[i].event = frames[i].event
                      /\ frames'[i].start = frames[i].start
  <2>1. /\ frames'[n].tracked = frames[n].tracked
        /\ frames'[n].event = frames[n].event
        /\ frames'[n].start = frames[n].start
    BY <1>2, <1>3 DEF Frame
  <2>2. \A i \in 1..n : i = n \/ i \in 1..n - 1
    BY <1>1
  <2> HIDE DEF n
  <2>3. QED
    BY <1>3, <2>1, <2>2
<1>5. ASSUME NEW k \in 0..n, NEW rec, Names(rec, frames, k)
      PROVE  Names(rec, frames', k)
  BY <1>1, <1>4, <1>5, NamesOfPrefix
<1>6. frames[n].tracked /\ Names(record, frames, n - 1)
  BY <1>1 DEF RecordIsNamed
<1>7. writing' = [at |-> "write", left |-> {"dispatching", "start", "event"},
                  next |-> Begun(frames[n]), ends |-> FALSE]
  BY DEF RecordBegin, Raise
<1>8. SavedIsBelow'
  <2> SUFFICES ASSUME NEW i \in 1..n, frames'[i].tracked
               PROVE  Names(frames'[i].previous, frames', i - 1)
    BY <1>3 DEF SavedIsBelow
  <2>1. CASE i = n
    <3>1. frames'[n].previous = record
      BY <1>2, <1>3 DEF Frame
    <3>2. QED
      BY <1>1, <1>5, <1>6, <2>1, <3>1
  <2>2. CASE i # n
    <3>1. i \in 1..n - 1 /\ i - 1 \in 0..n /\ frames'[i] = frames[i]
      BY <1>1, <1>3, <2>2
    <3>2. Names(frames[i].previous, frames, i - 1)
      BY <2>2, <3>1 DEF SavedIsBelow
    <3>3. QED
      BY <1>5, <3>1, <3>2
  <2>3. QED
    BY <2>1, <2>2
<1>9. Names(Begun(frames[n]), frames, n)
  <2>1. /\ Begun(frames[n]).dispatching /\ Begun(frames[n]).event = frames[n].event
        /\ Begun(frames[n]).start = frames[n].start
    BY <1>2 DEF Begun, Reading
  <2>2. QED
    BY <1>1, <1>6, <2>1, NamesTheTop
<1>10. Names(Begun(frames[n]), frames', n)
  BY <1>1, <1>5, <1>9
<1>11. QED
  BY <1>3, <1>7, <1>8, <1>10 DEF RecordIsNamed

LEMMA StoreKeepsNames ==
    ASSUME HealthInv, SavedIsBelow, RecordIsNamed, NEW f \in Fields, Store(f)
    PROVE  SavedIsBelow' /\ RecordIsNamed'
<1>1. /\ record \in Reading /\ writing \in Writing /\ writing.next \in Reading
      /\ writing.at = "write" /\ frames' = frames
  BY DEF HealthInv, HealthTypeOK, Writing, Store
<1>2. /\ writing'.at = "write" /\ writing'.left = writing.left \ {f}
      /\ writing'.next = writing.next /\ writing'.ends = writing.ends
  BY <1>1 DEF Store, Writing
<1>3. record' = [record EXCEPT ![f] = writing.next[f]]
  BY DEF Store
<1>4. \A g \in Fields : record'[g] = IF g = f THEN writing.next[f] ELSE record[g]
  BY <1>1, <1>3, StoreStores
<1>5. SavedIsBelow'
  BY <1>1, SavedUnchanged
<1>6. \A g \in {"dispatching", "start", "event"} \ writing'.left : record'[g] = writing'.next[g]
  BY <1>1, <1>2, <1>4 DEF RecordIsNamed, Fields
<1>7. QED
  BY <1>1, <1>2, <1>5, <1>6 DEF RecordIsNamed

LEMMA PublishKeepsNames ==
    ASSUME HealthInv, SavedIsBelow, RecordIsNamed, Publish
    PROVE  SavedIsBelow' /\ RecordIsNamed'
<1> DEFINE next == writing.next
           n == IF writing.ends THEN Len(frames) - 1 ELSE Len(frames)
<1>1. /\ writing.at = "write" /\ writing.left = {} /\ record' = record
      /\ frames \in Seq(Frame) /\ Len(frames) \in Nat /\ frames # <<>>
  BY FramesAreFrames DEF Publish, HealthInv, OneInProgress
<1>2. writing'.at = "run"
  BY DEF Publish, Running
<1>3. /\ record["dispatching"] = next["dispatching"] /\ record["event"] = next["event"]
      /\ record["start"] = next["start"]
  BY <1>1 DEF RecordIsNamed
<1>4. Names(next, frames, n) /\ n \in Nat
  BY <1>1 DEF RecordIsNamed
<1>5. Names(record', frames, n)
  <2>1. /\ record.dispatching = next.dispatching /\ record.event = next.event
        /\ record.start = next.start
    BY <1>3
  <2>2. QED
    BY <1>1, <1>4, <2>1, NamesSame
<1>6. CASE writing.ends
  BY <1>1, <1>2, <1>5, <1>6, SavedOfFront DEF Publish, HealthInv, RecordIsNamed
<1>7. CASE ~writing.ends
  <2>1. frames' = frames
    BY <1>7 DEF Publish
  <2>2. QED
    BY <1>1, <1>2, <1>5, <1>7, <2>1, SavedUnchanged DEF RecordIsNamed
<1>8. QED
  BY <1>6, <1>7

LEMMA EndKeepsNames ==
    ASSUME HealthInv, SavedIsBelow, RecordIsNamed, EndDispatch
    PROVE  SavedIsBelow' /\ RecordIsNamed'
<1> DEFINE n == Len(frames)
<1>1. /\ frames \in Seq(Frame) /\ n \in Nat /\ n # 0 /\ n \in 1..n /\ frames # <<>>
      /\ writing.at = "run" /\ Last(frames) = frames[n] /\ frames[n] \in Frame
      /\ record' = record /\ record \in Reading
  BY FramesAreFrames DEF HealthInv, HealthTypeOK, EndDispatch, Last
<1>2. CASE frames[n].tracked
  <2> DEFINE previous == frames[n].previous
  <2>1. Names(previous, frames, n - 1) /\ previous \in Reading
    BY <1>1, <1>2 DEF SavedIsBelow, Frame
  <2>2. /\ frames' = frames
        /\ writing' = [at |-> "write", left |-> Fields, next |-> Ended(previous), ends |-> TRUE]
    BY <1>1, <1>2 DEF EndDispatch, Raise
  <2>3. /\ Ended(previous).dispatching = previous.dispatching
        /\ Ended(previous).event = previous.event
        /\ Ended(previous).start = IF previous.dispatching THEN previous.start ELSE 0
    BY <1>1 DEF Ended, Reading
  <2>4. Names(Ended(previous), frames, n - 1)
    BY <1>1, <2>1, <2>3, NamesSame
  <2> HIDE DEF previous
  <2>5. SavedIsBelow'
    BY <1>1, <2>2, SavedUnchanged
  <2>6. QED
    BY <2>2, <2>4, <2>5 DEF RecordIsNamed, Fields
<1>3. CASE ~frames[n].tracked
  <2>1. frames' = Front(frames) /\ writing' = writing
    BY <1>1, <1>3 DEF EndDispatch
  <2>2. Names(record, frames, n - 1)
    BY <1>1, <1>3, NamesOutOfTracked, SMTT(30) DEF RecordIsNamed
  <2>3. QED
    BY <1>1, <2>1, <2>2, SavedOfFront DEF HealthInv, RecordIsNamed
<1>4. QED
  BY <1>2, <1>3

LEMMA StepNamesInv ==
    ASSUME HealthInv, NamesInv, [HealthNext]_healthVars
    PROVE  NamesInv'
<1>1. CASE RecordBegin
  <2>1. blinded' = (blinded \/ ~tracking)
    BY <1>1 DEF RecordBegin
  <2>2. QED
    BY <1>1, <2>1, RecordKeepsNames DEF NamesInv
<1>2. CASE UNCHANGED <<record, frames, writing, blinded>>
  BY <1>2 DEF NamesInv, SavedIsBelow, RecordIsNamed
<1>3. ASSUME blinded' = blinded,
             \/ \E e \in Events : BeginDispatch(e)
             \/ (\E f \in Fields : Store(f)) \/ Publish \/ EndDispatch
      PROVE  NamesInv'
  BY <1>3, BeginKeepsNames, StoreKeepsNames, PublishKeepsNames, EndKeepsNames DEF NamesInv
<1>4. QED
  BY <1>1, <1>2, <1>3
  DEF HealthNext, SetHealthTrackingEnabled, Health, LoadSeq, Recheck, Load, loopVars, healthVars,
      BeginDispatch, Store, Publish, EndDispatch
-----------------------------------------------------------------------------
(***************************************************************************)
(* The composition.                                                        *)
(***************************************************************************)
LEMMA EventsAreBlocks == Events = Blocks \cup HeapBlocks /\ NoEvent \notin Events /\ Loop \in Threads
  BY QueuedCallsAssumption, EventPoolAssumption

QueueTypes == queue \in Seq(Events) /\ spent \in Events \cup {NoEvent}

\* The loop's thread does not end in the middle of a dispatch.
LoopIsThere ==
    cache[Loop].gone => spent = NoEvent /\ frames = <<>> /\ writing.at = "run"

\* Of the record, a step of the whole is a step of LoopHealth or none.
LEMMA StepOfHealth ==
    ASSUME QueueTypes, [Next]_vars
    PROVE  [HealthNext]_healthVars
<1> USE DEF HealthNext
<1>1. CASE Dispatch
  <2>1. Head(queue) \in Events /\ BeginDispatch(Head(queue))
    BY <1>1 DEF Dispatch, QueueTypes
  <2>2. QED
    BY <2>1
<1>2. CASE HandlerReturns
  BY <1>2 DEF HandlerReturns
<1>3. CASE Report
  BY <1>3 DEF Report
<1>4. CASE ReportIsComplete
  BY <1>4 DEF ReportIsComplete
<1>5. CASE SwitchTracking
  BY <1>5 DEF SwitchTracking
<1>6. ASSUME NEW r \in Readers, AskHealth(r) \/ ReadHealth(r)
      PROVE  [HealthNext]_healthVars
  BY <1>6 DEF AskHealth, ReadHealth
<1>7. CASE UNCHANGED healthVars
  BY <1>7
<1>8. QED
  BY <1>1, <1>2, <1>3, <1>4, <1>5, <1>6, <1>7
  DEF Next, vars, Create, ReserveMore, GoOn, Post, Refuse, Discard, End, Delete, Close

\* Of the pool, too, if the loop's thread was started: what it releases it releases before
\* its cache is gone.
LEMMA StepOfPool ==
    ASSUME ~Adopted, PoolInv, QueueTypes, LoopIsThere, [Next]_vars
    PROVE  [PoolNext]_poolVars
<1> USE DEF PoolNext
<1>1. ASSUME NEW t \in Threads, NEW small \in BOOLEAN, Create(t, small)
      PROVE  [PoolNext]_poolVars
  BY <1>1 DEF Create
<1>2. ASSUME NEW t \in Threads, ReserveMore(t, kDefaultBlocks)
      PROVE  [PoolNext]_poolVars
  <2>1. PICK new \in SUBSET (Blocks \ chunks) : Cardinality(new) = kDefaultBlocks
    BY <1>2 DEF ReserveMore, Reserve, AddChunk
  <2>2. Cardinality(new) <= Cardinality(Blocks)
    BY EventPoolAssumption, FS_Subset
  <2>3. kDefaultBlocks \in 1..Cardinality(Blocks)
    BY <2>1, <2>2, EventPoolAssumption, FiniteBlocks
  <2>4. QED
    BY <1>2, <2>3 DEF ReserveMore
<1>3. ASSUME NEW t \in Threads, GoOn(t)
      PROVE  [PoolNext]_poolVars
  BY <1>3 DEF GoOn
<1>4. ASSUME NEW t \in Threads, Post(t) \/ End(t)
      PROVE  [PoolNext]_poolVars
  BY <1>4 DEF Post, End
<1>5. ASSUME NEW t \in Threads, Refuse(t)
      PROVE  [PoolNext]_poolVars
  <2>1. step[t].block \in held /\ ~cache[t].gone
    BY <1>5, PoolTypes DEF Refuse, Release, MayRelease, PoolInv, StepsAreSane
  <2>2. QED
    BY <1>5, <2>1 DEF Refuse
<1>6. ASSUME NEW t \in Threads, Discard(t)
      PROVE  [PoolNext]_poolVars
  BY <1>6 DEF Discard, Release, MayRelease
<1>7. CASE Delete
  <2>1. spent \in held /\ ~cache[Loop].gone
    BY <1>7 DEF Delete, Release, MayRelease, LoopIsThere
  <2>2. QED
    BY <1>7, <2>1, EventsAreBlocks DEF Delete
<1>8. CASE UNCHANGED poolVars
  BY <1>8
<1>9. QED
  BY <1>1, <1>2, <1>3, <1>4, <1>5, <1>6, <1>7, <1>8
  DEF Next, vars, Dispatch, HandlerReturns, Report, ReportIsComplete, Close, SwitchTracking,
      AskHealth, ReadHealth
-----------------------------------------------------------------------------
\* Between them, the events that are made, queued, dispatched and spent have a block each.
OwnersDiffer ==
    /\ \A i \in 1..Len(queue) :
        /\ queue[i] \in held
        /\ \A j \in 1..Len(queue) : i # j => queue[i] # queue[j]
    /\ \A i \in 1..Len(frames) :
        /\ frames[i].event \in held
        /\ \A j \in 1..Len(queue) : queue[j] # frames[i].event
        /\ \A j \in 1..Len(frames) : i # j => frames[i].event # frames[j].event
    /\ spent # NoEvent =>
        /\ spent \in held
        /\ \A j \in 1..Len(queue) : queue[j] # spent
        /\ \A j \in 1..Len(frames) : frames[j].event # spent
    /\ \A t \in Threads : step[t].at = "has" =>
        /\ step[t].block \in held
        /\ step[t].block # spent
        /\ \A j \in 1..Len(queue) : queue[j] # step[t].block
        /\ \A j \in 1..Len(frames) : frames[j].event # step[t].block
        /\ \A u \in Threads : u # t /\ step[u].at = "has" => step[u].block # step[t].block

CallsInv == PoolInv /\ HealthInv /\ QueueTypes /\ LoopIsThere /\ OwnersDiffer

LEMMA InitCallsInv == Init => CallsInv
<1> SUFFICES ASSUME Init PROVE CallsInv
  OBVIOUS
<1>1. PoolInv /\ HealthInv
  BY InitPoolInv, InitHealthInv DEF Init
<1>2. QueueTypes /\ LoopIsThere
  BY DEF Init, HealthInit, Running, QueueTypes, LoopIsThere
<1>3. OwnersDiffer
  <2>1. Len(queue) = 0 /\ Len(frames) = 0 /\ spent = NoEvent
    BY DEF Init, HealthInit
  <2>2. \A t \in Threads : step[t].at # "has"
    BY IdleIsStep DEF Init, PoolInit
  <2>3. QED
    BY <2>1, <2>2 DEF OwnersDiffer
<1>4. QED
  BY <1>1, <1>2, <1>3 DEF CallsInv

\* No thread is gone but by Exit().
LEMMA GoneStays ==
    ASSUME cache \in [Threads -> CacheState], NEW t \in Threads, NEW F, NEW n,
           cache' = [cache EXCEPT ![t].free = F, ![t].count = n]
    PROVE  \A u \in Threads : cache'[u].gone = cache[u].gone
<1>1. cache' = [cache EXCEPT ![t] = [cache[t] EXCEPT !.free = F, !.count = n]]
  OBVIOUS
<1>2. [cache[t] EXCEPT !.free = F, !.count = n].gone = cache[t].gone
  BY DEF CacheState
<1>3. QED
  BY <1>1, <1>2

LEMMA StepLoopIsThere ==
    ASSUME CallsInv, [Next]_vars
    PROVE  LoopIsThere'
<1> USE DEF LoopIsThere
<1>1. cache \in [Threads -> CacheState] /\ Loop \in Threads
  BY EventsAreBlocks, PoolTypes DEF CallsInv, PoolInv
<1>2. ASSUME NEW t \in Threads, End(t)
      PROVE  LoopIsThere'
  <2>1. CASE t = Loop
    BY <1>2, <2>1 DEF End, InHandler, healthVars, queueVars
  <2>2. CASE t # Loop
    BY <1>1, <1>2, <2>2 DEF End, Exit, healthVars, queueVars, CallsInv
  <2>3. QED
    BY <2>1, <2>2
<1>3. ASSUME cache'[Loop].gone => cache[Loop].gone,
             cache[Loop].gone => UNCHANGED <<spent, frames, writing>>
      PROVE  LoopIsThere'
  BY <1>3 DEF CallsInv
<1>4. ASSUME NEW t \in Threads, NEW b, Keep(t, b)
      PROVE  cache'[Loop].gone = cache[Loop].gone
  <2>1. PICK F : cache' = [cache EXCEPT ![t].free = F, ![t].count = cache[t].count + 1]
    BY <1>4 DEF Keep
  <2>2. QED
    BY <1>1, <2>1, GoneStays
<1>5. ASSUME NEW t \in Threads, FromCache(t) \/ Refill(t) \/ Spill(t)
      PROVE  cache'[Loop].gone = cache[Loop].gone
  <2>1. CASE FromCache(t)
    <3>1. PICK F : cache' = [cache EXCEPT ![t].free = F, ![t].count = cache[t].count - 1]
      BY <2>1 DEF FromCache
    <3>2. QED
      BY <1>1, <3>1, GoneStays
  <2>2. CASE Refill(t)
    <3>1. PICK F, n : cache' = [cache EXCEPT ![t].free = F, ![t].count = n]
      BY <2>2 DEF Refill
    <3>2. QED
      BY <1>1, <3>1, GoneStays
  <2>3. CASE Spill(t)
    <3>1. cache' = [cache EXCEPT ![t].count = cache[t].count - Cardinality(step[t].surplus)]
      BY <2>3 DEF Spill
    <3>2. [cache[t] EXCEPT !.count = cache[t].count - Cardinality(step[t].surplus)].gone
            = cache[t].gone
      BY <1>1 DEF CacheState
    <3>3. QED
      BY <1>1, <3>1, <3>2
  <2>4. QED
    BY <1>5, <2>1, <2>2, <2>3
<1>6. ASSUME NEW t \in Threads,
             \/ \E small \in BOOLEAN : Create(t, small)
             \/ ReserveMore(t, kDefaultBlocks) \/ GoOn(t) \/ Post(t) \/ Refuse(t) \/ Discard(t)
      PROVE  LoopIsThere'
  <2>1. cache'[Loop].gone = cache[Loop].gone
    BY <1>4, <1>5, <1>6
    DEF Create, Allocate, TryPool, Miss, ReserveMore, Reserve, GoOn, AfterMiss, ReserveDefault,
        AllocateAgain, Post, Return, Refuse, Discard, Release, ReleaseToHeap
  <2>2. UNCHANGED <<spent, frames, writing>>
    BY <1>6 DEF Create, ReserveMore, GoOn, Post, Refuse, Discard, healthVars, queueVars
  <2>3. QED
    BY <1>3, <2>1, <2>2
<1>7. CASE Delete
  <2>1. cache'[Loop].gone = cache[Loop].gone
    BY <1>1, <1>4, <1>7 DEF Delete, Release, ReleaseToHeap
  <2>2. ~cache[Loop].gone
    BY <1>7 DEF Delete, CallsInv
  <2>3. QED
    BY <1>3, <2>1, <2>2
<1>8. CASE Dispatch \/ HandlerReturns \/ Report \/ ReportIsComplete
  <2>1. ~cache[Loop].gone
    BY <1>8 DEF Dispatch, HandlerReturns, EndDispatch, Report, RecordBegin, Store,
                ReportIsComplete, Publish, CallsInv
  <2>2. UNCHANGED cache
    BY <1>8 DEF Dispatch, HandlerReturns, Report, ReportIsComplete, poolVars
  <2>3. QED
    BY <1>3, <2>1, <2>2
<1>9. CASE UNCHANGED <<cache, spent, frames, writing>>
  BY <1>9 DEF CallsInv
<1>10. QED
  BY <1>2, <1>6, <1>7, <1>8, <1>9
  DEF Next, vars, poolVars, healthVars, queueVars, Close, SwitchTracking,
      SetHealthTrackingEnabled, AskHealth, Health, ReadHealth, LoadSeq, Load, Recheck, loopVars

LEMMA StepQueueTypes ==
    ASSUME CallsInv, [Next]_vars
    PROVE  QueueTypes'
<1> USE DEF QueueTypes
<1>1. queue \in Seq(Events) /\ spent \in Events \cup {NoEvent} /\ frames \in Seq(Frame)
  BY FramesAreFrames DEF CallsInv, HealthInv
<1>2. ASSUME NEW t \in Threads, Post(t)
      PROVE  QueueTypes'
  <2>1. step[t].at = "has" /\ step[t].block \in held /\ held \subseteq Events
    BY <1>2, EventsAreBlocks DEF Post, Return, CallsInv, OwnersDiffer, PoolInv, PoolTypeOK
  <2>2. QED
    BY <1>1, <1>2, <2>1 DEF Post
<1>3. CASE Dispatch \/ \E t \in Threads : Discard(t)
  <2>1. queue # <<>> /\ queue' = Tail(queue)
    BY <1>3 DEF Dispatch, Discard
  <2>2. Tail(queue) \in Seq(Events)
    BY <1>1, <2>1
  <2>3. spent' = spent
    BY <1>3 DEF Dispatch, Discard
  <2>4. QED
    BY <1>1, <2>1, <2>2, <2>3
<1>4. CASE HandlerReturns \/ ReportIsComplete
  <2>1. frames # <<>> => Last(frames).event \in Events
    <3>1. frames # <<>> => Last(frames) \in Frame
      BY <1>1, FrontAndLast
    <3>2. QED
      BY <3>1 DEF Frame
  <2>2. frames # <<>>
    BY <1>4 DEF HandlerReturns, EndDispatch, ReportIsComplete, Publish, CallsInv, HealthInv,
                OneInProgress
  <2>3. QED
    BY <1>1, <1>4, <2>1, <2>2 DEF HandlerReturns, ReportIsComplete
<1>5. CASE Delete
  BY <1>1, <1>5 DEF Delete
<1>6. CASE UNCHANGED <<queue, spent>>
  BY <1>1, <1>6
<1>7. QED
  BY <1>2, <1>3, <1>4, <1>5, <1>6
  DEF Next, vars, queueVars, Create, ReserveMore, GoOn, Refuse, End, Report, Close,
      SwitchTracking, AskHealth, ReadHealth
-----------------------------------------------------------------------------
LEMMA TailFacts ==
    ASSUME NEW S, NEW s \in Seq(S), s # <<>>
    PROVE  /\ Len(s) \in Nat \ {0} /\ Head(s) = s[1] /\ Len(Tail(s)) = Len(s) - 1
           /\ \A i \in 1..Len(Tail(s)) : i + 1 \in 1..Len(s) /\ Tail(s)[i] = s[i + 1]
  OBVIOUS

LEMMA AppendFacts ==
    ASSUME NEW S, NEW s \in Seq(S), NEW e \in S
    PROVE  /\ Len(s) \in Nat /\ Len(Append(s, e)) = Len(s) + 1
           /\ Append(s, e)[Len(s) + 1] = e
           /\ \A i \in 1..Len(s) : Append(s, e)[i] = s[i]
  OBVIOUS

\* Nobody else's event moves; a thread has a block it had, one nobody had, or none.
LEMMA OneThreadSteps ==
    ASSUME OwnersDiffer, NEW t \in Threads, held \subseteq held',
           Len(frames') = Len(frames),
           \A i \in 1..Len(frames) : frames'[i].event = frames[i].event,
           UNCHANGED <<queue, spent>>,
           \A u \in Threads : u # t => step'[u] = step[u],
           \/ step'[t].at # "has"
           \/ step'[t] = step[t]
           \/ step'[t].block \in held' \ held,
           NoEvent \notin held'
    PROVE  OwnersDiffer'
<1>1. CASE step'[t].at # "has"
  BY <1>1 DEF OwnersDiffer
<1>2. CASE step'[t] = step[t]
  <2>1. \A u \in Threads : step'[u] = step[u]
    BY <1>2
  <2>2. QED
    BY <2>1 DEF OwnersDiffer
<1>3. CASE step'[t].block \in held' \ held
  BY <1>3 DEF OwnersDiffer
<1>4. QED
  BY <1>1, <1>2, <1>3

\* What is queued after one is released was somebody's before, and is not that one.
QueueIsLeft(b) ==
    \A j \in 1..Len(queue') :
        /\ queue'[j] \in held /\ queue'[j] # b
        /\ \A i \in 1..Len(frames) : queue'[j] # frames[i].event
        /\ spent # NoEvent => queue'[j] # spent
        /\ \A u \in Threads : step[u].at = "has" => queue'[j] # step[u].block
        /\ \A i \in 1..Len(queue') : i # j => queue'[i] # queue'[j]

\* One that is released belongs to nobody any more.
LEMMA OneIsReleased ==
    ASSUME OwnersDiffer, NEW b, NEW t \in Threads, held' = held \ {b},
           \A u \in Threads : u # t => step'[u] = step[u],
           step'[t].at # "has",
           spent' \in {spent, NoEvent}, spent' # b \/ spent' = NoEvent,
           QueueIsLeft(b),
           \A i \in 1..Len(frames) : frames[i].event # b,
           \A u \in Threads : u # t /\ step[u].at = "has" => step[u].block # b,
           frames' = frames, NoEvent \notin held
    PROVE  OwnersDiffer'
<1>1. \A u \in Threads : step'[u].at = "has" => u # t /\ step'[u] = step[u]
  OBVIOUS
<1>2. \A i \in 1..Len(queue') :
        /\ queue'[i] \in held'
        /\ \A j \in 1..Len(queue') : i # j => queue'[i] # queue'[j]
  BY DEF QueueIsLeft
<1>3. \A i \in 1..Len(frames') :
        /\ frames'[i].event \in held'
        /\ \A j \in 1..Len(queue') : queue'[j] # frames'[i].event
        /\ \A j \in 1..Len(frames') : i # j => frames'[i].event # frames'[j].event
  BY DEF OwnersDiffer, QueueIsLeft
<1>4. spent' # NoEvent =>
        /\ spent' \in held'
        /\ \A j \in 1..Len(queue') : queue'[j] # spent'
        /\ \A j \in 1..Len(frames') : frames'[j].event # spent'
  BY DEF OwnersDiffer, QueueIsLeft
<1>5. ASSUME NEW u \in Threads, step'[u].at = "has"
      PROVE  /\ step'[u].block \in held'
             /\ step'[u].block # spent'
             /\ \A j \in 1..Len(queue') : queue'[j] # step'[u].block
             /\ \A j \in 1..Len(frames') : frames'[j].event # step'[u].block
             /\ \A v \in Threads : v # u /\ step'[v].at = "has" =>
                    step'[v].block # step'[u].block
  BY <1>1, <1>5 DEF OwnersDiffer, QueueIsLeft
<1>6. QED
  BY <1>2, <1>3, <1>4, <1>5 DEF OwnersDiffer

LEMMA PostKeepsOwners ==
    ASSUME CallsInv, NEW t \in Threads, Post(t)
    PROVE  OwnersDiffer'
<1> DEFINE b == step[t].block
<1>1. b \in Events /\ step[t].at = "has" /\ queue \in Seq(Events)
  BY EventsAreBlocks
  DEF Post, Return, CallsInv, OwnersDiffer, PoolInv, PoolTypeOK, QueueTypes
<1>2. step'[t].at # "has" /\ \A u \in Threads : u # t => step'[u] = step[u]
  BY IdleIsStep, PoolTypes DEF Post, Return, CallsInv, PoolInv
<1>3. /\ Len(queue) \in Nat /\ Len(queue') = Len(queue) + 1 /\ queue'[Len(queue) + 1] = b
      /\ \A i \in 1..Len(queue) : queue'[i] = queue[i]
  BY <1>1, AppendFacts DEF Post
<1>4. UNCHANGED <<held, frames, spent>>
  BY DEF Post, Return, healthVars
<1>5. /\ b \in held /\ b # spent /\ \A j \in 1..Len(queue) : queue[j] # b
      /\ \A j \in 1..Len(frames) : frames[j].event # b
      /\ \A u \in Threads : u # t /\ step[u].at = "has" => step[u].block # b
  BY <1>1 DEF CallsInv, OwnersDiffer
<1> HIDE DEF b
<1>6. \A i \in 1..Len(queue') : \/ (i \in 1..Len(queue) /\ queue'[i] = queue[i])
                                 \/ (i = Len(queue) + 1 /\ queue'[i] = b)
  BY <1>3
<1>7. \A i \in 1..Len(queue') :
        /\ queue'[i] \in held'
        /\ \A j \in 1..Len(queue') : i # j => queue'[i] # queue'[j]
  BY <1>4, <1>5, <1>6 DEF CallsInv, OwnersDiffer
<1>8. \A i \in 1..Len(frames') :
        /\ frames'[i].event \in held'
        /\ \A j \in 1..Len(queue') : queue'[j] # frames'[i].event
        /\ \A j \in 1..Len(frames') : i # j => frames'[i].event # frames'[j].event
  BY <1>4, <1>5, <1>6 DEF CallsInv, OwnersDiffer
<1>9. spent' # NoEvent =>
        /\ spent' \in held'
        /\ \A j \in 1..Len(queue') : queue'[j] # spent'
        /\ \A j \in 1..Len(frames') : frames'[j].event # spent'
  BY <1>4, <1>5, <1>6 DEF CallsInv, OwnersDiffer
<1>10. ASSUME NEW u \in Threads, step'[u].at = "has"
       PROVE  /\ step'[u].block \in held'
              /\ step'[u].block # spent'
              /\ \A j \in 1..Len(queue') : queue'[j] # step'[u].block
              /\ \A j \in 1..Len(frames') : frames'[j].event # step'[u].block
              /\ \A v \in Threads : v # u /\ step'[v].at = "has" =>
                    step'[v].block # step'[u].block
  <2>1. u # t /\ step'[u] = step[u]
    BY <1>2, <1>10
  <2>2. QED
    BY <1>2, <1>4, <1>5, <1>6, <1>10, <2>1 DEF CallsInv, OwnersDiffer
<1>11. QED
  BY <1>7, <1>8, <1>9, <1>10 DEF OwnersDiffer

LEMMA HeldAreEvents ==
    ASSUME PoolInv
    PROVE  held \subseteq Events /\ NoEvent \notin held
  BY EventsAreBlocks DEF PoolInv, PoolTypeOK

\* What Release() does to what a thread is in the middle of.
LEMMA ReleaseSteps ==
    ASSUME PoolInv, NEW t \in Threads, NEW b, Release(t, b)
    PROVE  /\ held' = held \ {b} /\ b \in held
           /\ step'[t].at # "has"
           /\ \A u \in Threads : u # t => step'[u] = step[u]
           /\ step[t].at # "has" \/ step[t].block = b
<1>1. held' = held \ {b} /\ b \in held /\ (step[t].at # "has" \/ step[t].block = b)
  BY DEF Release, MayRelease
<1>2. PICK s \in StepState : step' = [step EXCEPT ![t] = s] /\ s.at # "has"
  <2>1. CASE step' = [step EXCEPT ![t] = Idle]
    BY <2>1, IdleIsStep
  <2>2. ASSUME NEW x \in SUBSET Blocks,
               step' = [step EXCEPT ![t] = [Idle EXCEPT !.at = "spilling", !.surplus = x]]
        PROVE  \E s \in StepState : step' = [step EXCEPT ![t] = s] /\ s.at # "has"
    <3> DEFINE s == [Idle EXCEPT !.at = "spilling", !.surplus = x]
    <3>1. s \in StepState /\ s.at = "spilling"
      BY IdleIsStep DEF StepState
    <3>2. step' = [step EXCEPT ![t] = s]
      BY <2>2
    <3> HIDE DEF s
    <3>3. QED
      BY <3>1, <3>2
  <2>3. CASE b \in Blocks
    <3>1. (cache[t].free \cup {b}) \in SUBSET Blocks
      BY <2>3, PoolTypes DEF PoolInv
    <3>2. CASE Keep(t, b)
      <4>1. \/ step' = [step EXCEPT ![t] = Idle]
            \/ \E kept \in SUBSET (cache[t].free \cup {b}) :
                  step' = [step EXCEPT ![t] = [Idle EXCEPT !.at = "spilling",
                                                   !.surplus = (cache[t].free \cup {b}) \ kept]]
        BY <3>2 DEF Keep
      <4>2. \A kept : ((cache[t].free \cup {b}) \ kept) \in SUBSET Blocks
        BY <3>1
      <4>3. QED
        <5>1. ASSUME NEW kept \in SUBSET (cache[t].free \cup {b}),
                     step' = [step EXCEPT ![t] = [Idle EXCEPT !.at = "spilling",
                                                  !.surplus = (cache[t].free \cup {b}) \ kept]]
              PROVE  \E s \in StepState : step' = [step EXCEPT ![t] = s] /\ s.at # "has"
          <6> DEFINE x == (cache[t].free \cup {b}) \ kept
          <6>1. x \in SUBSET Blocks
            BY <4>2
          <6>2. step' = [step EXCEPT ![t] = [Idle EXCEPT !.at = "spilling", !.surplus = x]]
            BY <5>1
          <6> HIDE DEF x
          <6>3. QED
            BY <2>2, <6>1, <6>2
        <5>2. QED
          BY <2>1, <4>1, <5>1
    <3>3. QED
      BY <2>1, <3>2 DEF Release, ReleaseToHeap
  <2>4. CASE b \notin Blocks
    BY <2>1, <2>4 DEF Release, ReleaseToHeap, Keep
  <2>5. QED
    BY <2>3, <2>4
<1>3. step'[t] = s /\ \A u \in Threads : u # t => step'[u] = step[u]
  BY <1>2, PoolTypes DEF PoolInv
<1>4. QED
  BY <1>1, <1>2, <1>3

LEMMA RefuseKeepsOwners ==
    ASSUME CallsInv, NEW t \in Threads, Refuse(t)
    PROVE  OwnersDiffer'
<1> DEFINE b == step[t].block
<1>1. /\ held' = held \ {b} /\ step'[t].at # "has" /\ NoEvent \notin held
      /\ \A u \in Threads : u # t => step'[u] = step[u]
  BY ReleaseSteps, HeldAreEvents DEF Refuse, CallsInv
<1>2. step[t].at = "has" /\ UNCHANGED <<queue, spent, frames>>
  BY DEF Refuse, healthVars, queueVars
<1>3. OwnersDiffer
  BY DEF CallsInv
<1>4. /\ b # spent /\ \A j \in 1..Len(queue) : queue[j] # b
      /\ \A j \in 1..Len(frames) : frames[j].event # b
      /\ \A u \in Threads : u # t /\ step[u].at = "has" => step[u].block # b
  BY <1>2, <1>3 DEF OwnersDiffer
<1> HIDE DEF b
<1>5. QueueIsLeft(b)
  BY <1>2, <1>3, <1>4 DEF OwnersDiffer, QueueIsLeft
<1>6. QED
  BY <1>1, <1>2, <1>3, <1>4, <1>5, OneIsReleased

LEMMA DiscardKeepsOwners ==
    ASSUME CallsInv, NEW t \in Threads, Discard(t)
    PROVE  OwnersDiffer'
<1> DEFINE b == Head(queue)
<1>1. /\ held' = held \ {b} /\ step'[t].at # "has" /\ NoEvent \notin held
      /\ \A u \in Threads : u # t => step'[u] = step[u]
  BY ReleaseSteps, HeldAreEvents DEF Discard, CallsInv
<1>2. UNCHANGED <<spent, frames>> /\ OwnersDiffer
  BY DEF Discard, healthVars, CallsInv
<1>3. /\ Len(queue) \in Nat \ {0} /\ b = queue[1] /\ Len(queue') = Len(queue) - 1
      /\ \A i \in 1..Len(queue') : i + 1 \in 1..Len(queue) /\ queue'[i] = queue[i + 1]
  BY TailFacts DEF Discard, CallsInv, QueueTypes
<1>4. /\ spent # NoEvent => b # spent
      /\ \A j \in 1..Len(frames) : frames[j].event # b
      /\ \A u \in Threads : step[u].at = "has" => step[u].block # b
      /\ \A j \in 2..Len(queue) : queue[j] # b
  <2>1. 1 \in 1..Len(queue) /\ \A j \in 2..Len(queue) : j \in 1..Len(queue) /\ j # 1
    BY <1>3
  <2>2. QED
    BY <1>2, <1>3, <2>1 DEF OwnersDiffer
<1> HIDE DEF b
<1>5. QueueIsLeft(b)
  <2>1. ASSUME NEW j \in 1..Len(queue')
        PROVE  j + 1 \in 1..Len(queue) /\ j + 1 \in 2..Len(queue) /\ queue'[j] = queue[j + 1]
    BY <1>3
  <2>2. ASSUME NEW i \in 1..Len(queue'), NEW j \in 1..Len(queue'), i # j
        PROVE  queue'[i] # queue'[j]
    <3>1. i + 1 # j + 1
      BY <1>3, <2>2
    <3>2. QED
      BY <1>2, <2>1, <3>1 DEF OwnersDiffer
  <2>3. ASSUME NEW j \in 1..Len(queue')
        PROVE  /\ queue'[j] \in held /\ queue'[j] # b
               /\ \A i \in 1..Len(frames) : queue'[j] # frames[i].event
               /\ spent # NoEvent => queue'[j] # spent
               /\ \A u \in Threads : step[u].at = "has" => queue'[j] # step[u].block
    BY <1>2, <1>4, <2>1 DEF OwnersDiffer
  <2>4. QED
    BY <2>2, <2>3 DEF QueueIsLeft
<1>6. spent' # b \/ spent' = NoEvent
  BY <1>2, <1>4
<1>7. QED
  BY <1>1, <1>2, <1>4, <1>5, <1>6, OneIsReleased

LEMMA DeleteKeepsOwners ==
    ASSUME CallsInv, Delete
    PROVE  OwnersDiffer'
<1>1. /\ held' = held \ {spent} /\ step'[Loop].at # "has" /\ NoEvent \notin held
      /\ \A u \in Threads : u # Loop => step'[u] = step[u]
  BY ReleaseSteps, HeldAreEvents, EventsAreBlocks DEF Delete, CallsInv
<1>2. UNCHANGED <<queue, frames>> /\ spent' = NoEvent /\ spent # NoEvent /\ OwnersDiffer
  BY DEF Delete, healthVars, CallsInv
<1>3. /\ \A j \in 1..Len(queue) : queue[j] # spent
      /\ \A j \in 1..Len(frames) : frames[j].event # spent
      /\ \A u \in Threads : step[u].at = "has" => step[u].block # spent
  BY <1>2 DEF OwnersDiffer
<1>4. QueueIsLeft(spent)
  BY <1>2, <1>3 DEF OwnersDiffer, QueueIsLeft
<1>5. QED
  BY <1>1, <1>2, <1>3, <1>4, OneIsReleased, EventsAreBlocks

LEMMA DispatchKeepsOwners ==
    ASSUME CallsInv, Dispatch
    PROVE  OwnersDiffer'
<1> DEFINE e == Head(queue)
           frame == [event |-> e, tracked |-> tracking, start |-> clock + 1, previous |-> Empty]
<1>1. /\ Len(queue) \in Nat \ {0} /\ e = queue[1] /\ Len(queue') = Len(queue) - 1
      /\ \A i \in 1..Len(queue') : i + 1 \in 1..Len(queue) /\ queue'[i] = queue[i + 1]
  BY TailFacts DEF Dispatch, CallsInv, QueueTypes
<1>2. e \in Events /\ frames \in Seq(Frame) /\ OwnersDiffer
  BY FramesAreFrames DEF Dispatch, CallsInv, HealthInv, QueueTypes
<1>3. frame \in Frame /\ frame.event = e
  BY <1>2, EmptyIsReading DEF CallsInv, HealthInv, HealthTypeOK, Frame
<1>4. frames' = Append(frames, frame)
  BY DEF Dispatch, BeginDispatch
<1> HIDE DEF frame
<1>5. /\ Len(frames) \in Nat /\ Len(frames') = Len(frames) + 1
      /\ frames'[Len(frames) + 1].event = e
      /\ \A i \in 1..Len(frames) : frames'[i].event = frames[i].event
  BY <1>2, <1>3, <1>4, AppendFacts
<1>6. UNCHANGED <<held, step, spent>>
  BY DEF Dispatch, poolVars
<1>7. /\ e \in held /\ \A j \in 2..Len(queue) : queue[j] # e
      /\ \A i \in 1..Len(frames) : frames[i].event # e
      /\ spent # NoEvent => e # spent
      /\ \A t \in Threads : step[t].at = "has" => step[t].block # e
  <2>1. 1 \in 1..Len(queue) /\ \A j \in 2..Len(queue) : j \in 1..Len(queue) /\ j # 1
    BY <1>1
  <2>2. QED
    BY <1>1, <1>2, <2>1 DEF OwnersDiffer
<1> HIDE DEF e
<1>8. \A i \in 1..Len(frames') :
        \/ (i \in 1..Len(frames) /\ frames'[i].event = frames[i].event)
        \/ (i = Len(frames) + 1 /\ frames'[i].event = e)
  BY <1>5
<1>9. \A j \in 1..Len(queue') :
        j + 1 \in 1..Len(queue) /\ j + 1 \in 2..Len(queue) /\ queue'[j] = queue[j + 1]
  BY <1>1
<1>10. \A i \in 1..Len(queue') :
        /\ queue'[i] \in held'
        /\ \A j \in 1..Len(queue') : i # j => queue'[i] # queue'[j]
  <2>1. \A i, j \in 1..Len(queue') : i # j => i + 1 # j + 1
    BY <1>1
  <2>2. QED
    BY <1>2, <1>6, <1>9, <2>1 DEF OwnersDiffer
<1>11. \A i \in 1..Len(frames') :
        /\ frames'[i].event \in held'
        /\ \A j \in 1..Len(queue') : queue'[j] # frames'[i].event
        /\ \A j \in 1..Len(frames') : i # j => frames'[i].event # frames'[j].event
  <2>1. ASSUME NEW i \in 1..Len(frames')
        PROVE  frames'[i].event \in held'
    BY <1>2, <1>6, <1>7, <1>8 DEF OwnersDiffer
  <2>2. ASSUME NEW i \in 1..Len(frames'), NEW j \in 1..Len(queue')
        PROVE  queue'[j] # frames'[i].event
    <3>1. CASE i \in 1..Len(frames) /\ frames'[i].event = frames[i].event
      BY <1>2, <1>9, <3>1 DEF OwnersDiffer
    <3>2. CASE frames'[i].event = e
      BY <1>7, <1>9, <3>2
    <3>3. QED
      BY <1>8, <3>1, <3>2
  <2>3. ASSUME NEW i \in 1..Len(frames'), NEW j \in 1..Len(frames'), i # j
        PROVE  frames'[i].event # frames'[j].event
    <3>1. CASE i \in 1..Len(frames) /\ frames'[i].event = frames[i].event
      <4>1. CASE j \in 1..Len(frames) /\ frames'[j].event = frames[j].event
        BY <1>2, <2>3, <3>1, <4>1 DEF OwnersDiffer
      <4>2. CASE frames'[j].event = e
        BY <1>7, <3>1, <4>2
      <4>3. QED
        BY <1>8, <4>1, <4>2
    <3>2. CASE i = Len(frames) + 1 /\ frames'[i].event = e
      BY <1>7, <1>8, <2>3, <3>2
    <3>3. QED
      BY <1>8, <3>1, <3>2
  <2>4. QED
    BY <2>1, <2>2, <2>3
<1>12. spent' # NoEvent =>
        /\ spent' \in held'
        /\ \A j \in 1..Len(queue') : queue'[j] # spent'
        /\ \A j \in 1..Len(frames') : frames'[j].event # spent'
  BY <1>2, <1>6, <1>7, <1>8, <1>9 DEF OwnersDiffer
<1>13. ASSUME NEW u \in Threads, step'[u].at = "has"
       PROVE  /\ step'[u].block \in held'
              /\ step'[u].block # spent'
              /\ \A j \in 1..Len(queue') : queue'[j] # step'[u].block
              /\ \A j \in 1..Len(frames') : frames'[j].event # step'[u].block
              /\ \A v \in Threads : v # u /\ step'[v].at = "has" =>
                    step'[v].block # step'[u].block
  BY <1>2, <1>6, <1>7, <1>8, <1>9, <1>13 DEF OwnersDiffer
<1>14. QED
  BY <1>10, <1>11, <1>12, <1>13 DEF OwnersDiffer

\* The innermost dispatch is over: its event is the one to delete.
LEMMA FrameIsOver ==
    ASSUME OwnersDiffer, frames \in Seq(Frame), frames # <<>>, NoEvent \notin held,
           frames' = Front(frames), spent' = Last(frames).event,
           UNCHANGED <<queue, held, step>>
    PROVE  OwnersDiffer'
<1> DEFINE n == Len(frames)
<1>1. /\ n \in Nat \ {0} /\ n \in 1..n /\ spent' = frames[n].event /\ Len(frames') = n - 1
      /\ \A i \in 1..Len(frames') : i \in 1..n /\ i # n /\ frames'[i] = frames[i]
  BY FrontFacts
<1> HIDE DEF n
<1>2. \A i \in 1..Len(frames') :
        /\ frames'[i].event \in held'
        /\ \A j \in 1..Len(queue') : queue'[j] # frames'[i].event
        /\ \A j \in 1..Len(frames') : i # j => frames'[i].event # frames'[j].event
  BY <1>1 DEF OwnersDiffer, n
<1>3. /\ spent' \in held'
      /\ \A j \in 1..Len(queue') : queue'[j] # spent'
      /\ \A j \in 1..Len(frames') : frames'[j].event # spent'
  BY <1>1 DEF OwnersDiffer, n
<1>4. ASSUME NEW u \in Threads, step'[u].at = "has"
      PROVE  /\ step'[u].block \in held'
             /\ step'[u].block # spent'
             /\ \A j \in 1..Len(queue') : queue'[j] # step'[u].block
             /\ \A j \in 1..Len(frames') : frames'[j].event # step'[u].block
             /\ \A v \in Threads : v # u /\ step'[v].at = "has" =>
                   step'[v].block # step'[u].block
  BY <1>1, <1>4 DEF OwnersDiffer, n
<1>5. \A i \in 1..Len(queue') :
        /\ queue'[i] \in held'
        /\ \A j \in 1..Len(queue') : i # j => queue'[i] # queue'[j]
  BY DEF OwnersDiffer
<1>6. QED
  BY <1>2, <1>3, <1>4, <1>5 DEF OwnersDiffer

\* A thread that tries the pool gets a block nobody had, or none.
LEMMA TryPoolSteps ==
    ASSUME PoolInv, NEW t \in Threads, NEW small \in BOOLEAN, TryPool(t, small)
    PROVE  /\ held \subseteq held'
           /\ \A u \in Threads : u # t => step'[u] = step[u]
           /\ step'[t].at # "has" \/ step'[t].block \in held' \ held
<1>0. step \in [Threads -> StepState]
  BY PoolTypes DEF PoolInv
<1>1. CASE Miss(t, small)
  BY <1>0, <1>1, IdleIsStep DEF Miss
<1>2. ASSUME NEW b \in Blocks, b \notin held, Gets(t, b)
      PROVE  /\ held \subseteq held' /\ \A u \in Threads : u # t => step'[u] = step[u]
             /\ step'[t].block \in held' \ held
  BY <1>0, <1>2 DEF Gets, Has
<1>3. CASE FromCache(t)
  <2>1. PICK b \in cache[t].free : Gets(t, b)
    BY <1>3 DEF FromCache
  <2>2. b \in Blocks /\ b \notin held
    BY PoolTypes DEF PoolInv, Apart
  <2>3. QED
    BY <1>2, <2>1, <2>2
<1>4. CASE Refill(t)
  <2>1. PICK b \in free : Gets(t, b)
    BY <1>4 DEF Refill, Batches
  <2>2. b \in Blocks /\ b \notin held
    BY DEF PoolInv, Apart, PoolTypeOK
  <2>3. QED
    BY <1>2, <2>1, <2>2
<1>5. QED
  BY <1>1, <1>3, <1>4 DEF TryPool

\* So does one that goes on with what it was doing.
LEMMA GoOnSteps ==
    ASSUME PoolInv, NEW t \in Threads,
           AfterMiss(t) \/ ReserveDefault(t) \/ AllocateAgain(t) \/ Spill(t)
    PROVE  /\ held \subseteq held'
           /\ \A u \in Threads : u # t => step'[u] = step[u]
           /\ step'[t].at # "has" \/ step'[t].block \in held' \ held
<1>0. step \in [Threads -> StepState]
  BY PoolTypes DEF PoolInv
<1>1. CASE AfterMiss(t)
  <2>1. CASE step' = [step EXCEPT ![t].at = "reserving"] /\ UNCHANGED held
    <3>1. step'[t].at = "reserving"
      BY <1>0, <2>1 DEF StepState
    <3>2. \A u \in Threads : u # t => step'[u] = step[u]
      BY <1>0, <2>1
    <3>3. QED
      BY <2>1, <3>1, <3>2
  <2>2. ASSUME NEW b \in HeapBlocks \ held, Gets(t, b)
        PROVE  /\ held \subseteq held' /\ \A u \in Threads : u # t => step'[u] = step[u]
               /\ step'[t].block \in held' \ held
    BY <1>0, <2>2 DEF Gets, Has
  <2>3. QED
    BY <1>1, <2>1, <2>2 DEF AfterMiss
<1>2. CASE ReserveDefault(t)
  <2>1. step' = [step EXCEPT ![t].at = "retry"] /\ UNCHANGED held
    BY <1>2 DEF ReserveDefault
  <2>2. step'[t].at = "retry"
    BY <1>0, <2>1 DEF StepState
  <2>3. \A u \in Threads : u # t => step'[u] = step[u]
    BY <1>0, <2>1
  <2>4. QED
    BY <2>1, <2>2, <2>3
<1>3. CASE AllocateAgain(t)
  BY <1>3, TryPoolSteps DEF AllocateAgain
<1>4. CASE Spill(t)
  BY <1>0, <1>4, IdleIsStep DEF Spill
<1>5. QED
  BY <1>1, <1>2, <1>3, <1>4

\* The two ways a dispatch is over, and the report of its beginning.
LEMMA LoopKeepsOwners ==
    ASSUME CallsInv, HandlerReturns \/ ReportIsComplete \/ Report
    PROVE  OwnersDiffer'
<1>1. OwnersDiffer /\ frames \in Seq(Frame) /\ NoEvent \notin held /\ UNCHANGED <<queue, held, step>>
  BY FramesAreFrames, HeldAreEvents
  DEF CallsInv, HealthInv, HandlerReturns, ReportIsComplete, Report, poolVars, queueVars
<1>2. writing.at # "run" => frames # <<>>
  BY DEF CallsInv, HealthInv, OneInProgress
<1>3. CASE UNCHANGED <<frames, spent>>
  BY <1>1, <1>3 DEF OwnersDiffer
<1>4. CASE HandlerReturns
  <2>1. CASE Last(frames).tracked
    BY <1>3, <1>4, <2>1 DEF HandlerReturns, EndDispatch, InHandler
  <2>2. CASE ~Last(frames).tracked
    <3>1. frames # <<>> /\ frames' = Front(frames) /\ spent' = Last(frames).event
      BY <1>4, <2>2 DEF HandlerReturns, EndDispatch
    <3>2. QED
      BY <1>1, <3>1, FrameIsOver
  <2>3. QED
    BY <2>1, <2>2
<1>5. CASE ReportIsComplete
  <2>1. CASE writing.ends
    <3>1. frames # <<>> /\ frames' = Front(frames) /\ spent' = Last(frames).event
      BY <1>2, <1>5, <2>1 DEF ReportIsComplete, Publish
    <3>2. QED
      BY <1>1, <3>1, FrameIsOver
  <2>2. CASE ~writing.ends
    BY <1>3, <1>5, <2>2 DEF ReportIsComplete, Publish
  <2>3. QED
    BY <2>1, <2>2
<1>6. CASE RecordBegin /\ UNCHANGED spent
  <2>1. frames # <<>>
    BY <1>2, <1>6 DEF RecordBegin
  <2>2. PICK p : frames' = [frames EXCEPT ![Len(frames)].previous = p]
    BY <1>6 DEF RecordBegin
  <2>3. Len(frames') = Len(frames)
    BY <1>1, <2>2
  <2>4. \A i \in 1..Len(frames) : frames'[i].event = frames[i].event
    <3>1. ASSUME NEW i \in 1..Len(frames)
          PROVE  frames'[i].event = frames[i].event
      <4>1. frames[i] \in Frame
        BY <1>1
      <4>2. CASE i = Len(frames)
        <5>1. frames'[i] = [frames[i] EXCEPT !.previous = p]
          BY <1>1, <2>2, <4>2
        <5>2. QED
          BY <4>1, <5>1 DEF Frame
      <4>3. CASE i # Len(frames)
        BY <1>1, <2>2, <4>3
      <4>4. QED
        BY <4>2, <4>3
    <3>2. QED
      BY <3>1
  <2>5. QED
    BY <1>1, <1>6, <2>3, <2>4 DEF OwnersDiffer
<1>7. CASE Report
  BY <1>3, <1>6, <1>7, SMTT(30) DEF Report, queueVars, Store
<1>8. QED
  BY <1>4, <1>5, <1>7

LEMMA StepOwnersDiffer ==
    ASSUME CallsInv, PoolInv', [Next]_vars
    PROVE  OwnersDiffer'
<1>1. OwnersDiffer /\ PoolInv
  BY DEF CallsInv
<1>2. NoEvent \notin held'
  BY EventsAreBlocks DEF PoolInv, PoolTypeOK
<1>3. ASSUME NEW t \in Threads, UNCHANGED <<frames, queue, spent>>, held \subseteq held',
             \A u \in Threads : u # t => step'[u] = step[u],
             step'[t].at # "has" \/ step'[t].block \in held' \ held
      PROVE  OwnersDiffer'
  BY <1>1, <1>2, <1>3, OneThreadSteps
<1>4. ASSUME NEW t \in Threads, NEW small \in BOOLEAN, Create(t, small)
      PROVE  OwnersDiffer'
  <2>1. TryPool(t, small) /\ UNCHANGED <<frames, queue, spent>>
    BY <1>4 DEF Create, Allocate, healthVars
  <2>2. QED
    BY <1>1, <1>3, <2>1, TryPoolSteps
<1>5. ASSUME NEW t \in Threads, GoOn(t)
      PROVE  OwnersDiffer'
  <2>1. UNCHANGED <<frames, queue, spent>>
    BY <1>5 DEF GoOn, healthVars, queueVars
  <2>2. AfterMiss(t) \/ ReserveDefault(t) \/ AllocateAgain(t) \/ Spill(t)
    BY <1>5 DEF GoOn
  <2>3. QED
    BY <1>1, <1>3, <2>1, <2>2, GoOnSteps
<1>6. CASE UNCHANGED <<frames, queue, spent, held, step>>
  BY <1>1, <1>6 DEF OwnersDiffer
<1>7. QED
  BY <1>4, <1>5, <1>6, PostKeepsOwners, RefuseKeepsOwners, DiscardKeepsOwners,
     DeleteKeepsOwners, DispatchKeepsOwners, LoopKeepsOwners
  DEF Next, vars, poolVars, healthVars, queueVars, ReserveMore, Reserve, End, Exit, Close,
      SwitchTracking, SetHealthTrackingEnabled, AskHealth, Health, ReadHealth, LoadSeq, Load,
      Recheck, loopVars

LEMMA StepCallsInv ==
    ASSUME ~Adopted, CallsInv, [Next]_vars
    PROVE  CallsInv'
<1>1. PoolInv'
  BY StepOfPool, StepPoolInv DEF CallsInv
<1>2. HealthInv'
  BY StepOfHealth, StepHealthInv DEF CallsInv
<1>3. QED
  BY <1>1, <1>2, StepQueueTypes, StepLoopIsThere, StepOwnersDiffer DEF CallsInv

LEMMA CallsInvImplies == CallsInv => CallsHaveTheirBlocks /\ ReadingIsOneMoment
<1> SUFFICES ASSUME CallsInv PROVE CallsHaveTheirBlocks /\ ReadingIsOneMoment
  OBVIOUS
<1>1. BlocksAreKept
  BY OnePlace DEF CallsInv, PoolInv, StepsAreSane, BlocksAreKept
<1>2. ReadingIsOneMoment
  BY DEF CallsInv, HealthInv, LockHolds, ReadingIsOneMoment
<1>3. DOMAIN queue = 1..Len(queue) /\ DOMAIN frames = 1..Len(frames)
  BY FramesAreFrames DEF CallsInv, HealthInv, QueueTypes
<1>4. QED
  BY <1>1, <1>2, <1>3 DEF CallsInv, OwnersDiffer, CallsHaveTheirBlocks

\* The loop of a thread that was started loses no block and gives no event's block away
\* while the event is queued or being dispatched, whoever posts to it, ends or refills
\* meanwhile; and whoever asks what it is doing is told of one moment.
THEOREM QueuedCallsHaveTheirBlocks ==
    ASSUME ~Adopted
    PROVE  Spec => [](CallsHaveTheirBlocks /\ ReadingIsOneMoment)
<1>1. Init => CallsInv
  BY InitCallsInv
<1>2. CallsInv /\ [Next]_vars => CallsInv'
  BY StepCallsInv
<1>3. CallsInv => CallsHaveTheirBlocks /\ ReadingIsOneMoment
  BY CallsInvImplies
<1>4. QED
  BY <1>1, <1>2, <1>3, PTL DEF Spec
-----------------------------------------------------------------------------
LEMMA StepQueueTypeOK ==
    ASSUME CallsInv, QueueTypeOK, [Next]_vars
    PROVE  QueueTypeOK'
<1>1. queue' \in Seq(Events) /\ spent' \in Events \cup {NoEvent}
  BY StepQueueTypes DEF QueueTypes
<1>2. watched' = watched /\ accepting' \in BOOLEAN
  BY DEF QueueTypeOK, Next, vars, queueVars, Create, ReserveMore, GoOn, Post, Refuse, Discard, End,
         Dispatch, HandlerReturns, Report, ReportIsComplete, Delete, Close, SwitchTracking,
         AskHealth, ReadHealth
<1>3. \/ made' = made
      \/ \E bound : \/ Count("calls", bound) \/ Count("chunks", bound)
                     \/ Count("readings", bound) \/ Count("switches", bound)
  BY DEF Next, vars, queueVars, Create, ReserveMore, GoOn, Post, Refuse, Discard, End, Dispatch,
         HandlerReturns, Report, ReportIsComplete, Delete, Close, SwitchTracking, AskHealth,
         ReadHealth
<1>4. made' \in [calls : Nat, chunks : Nat, readings : Nat, switches : Nat]
  BY <1>3, SMTT(30) DEF QueueTypeOK, Count
<1>5. QED
  BY <1>1, <1>2, <1>4 DEF QueueTypeOK

\* Whoever asks the loop of a thread that was started what it is doing is told of one moment,
\* and in between two writes the record names the innermost dispatch that is tracked, however
\* passes are nested, and whoever posts, reads or switches the tracking meanwhile.
THEOREM HealthIsAlwaysTold ==
    ASSUME ~Adopted
    PROVE  Spec => []HealthIsTold
<1> DEFINE ToldInv == CallsInv /\ NamesInv /\ QueueTypeOK
<1>1. Init => ToldInv
  <2>1. Init => CallsInv /\ NamesInv
    BY InitCallsInv, InitNamesInv DEF Init
  <2>2. Init => QueueTypeOK
    BY DEF Init, QueueTypeOK
  <2>3. QED
    BY <2>1, <2>2
<1>2. ToldInv /\ [Next]_vars => ToldInv'
  <2>1. CallsInv /\ [Next]_vars => [HealthNext]_healthVars
    BY StepOfHealth DEF CallsInv
  <2>2. CallsInv /\ NamesInv /\ [Next]_vars => NamesInv'
    BY <2>1, StepNamesInv DEF CallsInv
  <2>3. QED
    BY <2>2, StepCallsInv, StepQueueTypeOK
<1>3. ToldInv => HealthIsTold
  <2>1. CallsInv => PoolTypeOK /\ HealthTypeOK /\ ReadingIsOneMoment
    BY CallsInvImplies DEF CallsInv, PoolInv, HealthInv
  <2>2. NamesInv => InnermostIsNamed
    BY DEF NamesInv, RecordIsNamed, InnermostIsNamed
  <2>3. QED
    BY <2>1, <2>2 DEF HealthIsTold, TypeOK
<1>4. QED
  BY <1>1, <1>2, <1>3, PTL DEF Spec
=============================================================================
