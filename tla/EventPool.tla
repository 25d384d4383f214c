------------------------------ MODULE EventPool ------------------------------
(***************************************************************************)
(* EventPool.cpp: the blocks that events are made in.  Each thread keeps a *)
(* list of free blocks of its own, which it refills from a central list    *)
(* and spills to it, a batch at a time and under a mutex; a block may be   *)
(* released on another thread than the one that allocated it.              *)
(*                                                                         *)
(* One step is one hold of the central mutex, or what a thread does to its *)
(* own list between two of them.  Blocks are interchangeable, so a free    *)
(* list is a set; its length, which the code counts beside it, is kept     *)
(* apart.                                                                  *)
(***************************************************************************)
EXTENDS Naturals, FiniteSets

CONSTANTS
    Threads,
    Blocks,          \* what operator new may return for a chunk, block by block
    HeapBlocks,      \* what it may return for a single block
    kBatchSize,
    kDefaultBlocks,
    None

ASSUME EventPoolAssumption ==
    /\ IsFiniteSet(Blocks)
    /\ Blocks \cap HeapBlocks = {}
    /\ None \notin Blocks \cup HeapBlocks
    /\ kBatchSize \in Nat \ {0}
    /\ kDefaultBlocks \in Nat \ {0}

VARIABLES
    free,        \* Central::mFree
    freeCount,   \* Central::mFreeCount
    reserved,    \* Central::mReserved
    chunks,      \* the blocks of Central::mChunks
    misses,      \* gMisses
    cache,       \* each thread's ThreadCache: mFree, mCount, and whether it was destroyed
    held,        \* blocks allocated and not yet released
    step         \* what each thread is in the middle of

poolVars == <<free, freeCount, reserved, chunks, misses, cache, held, step>>

Idle == [at |-> "idle", small |-> TRUE, block |-> None, surplus |-> {}]
Missed(small) == [Idle EXCEPT !.at = "missed", !.small = small]
Has(b) == [Idle EXCEPT !.at = "has", !.block = b]

PoolTypeOK ==
    /\ free \subseteq Blocks
    /\ freeCount \in Nat /\ reserved \in Nat /\ misses \in Nat
    /\ chunks \subseteq Blocks
    /\ cache \in [Threads -> [free : SUBSET Blocks, count : Nat, gone : BOOLEAN]]
    /\ held \subseteq Blocks \cup HeapBlocks
    /\ step \in [Threads -> [at : {"idle", "missed", "reserving", "retry", "has", "spilling"},
                             small : BOOLEAN,
                             block : Blocks \cup HeapBlocks \cup {None},
                             surplus : SUBSET Blocks]]

PoolInit ==
    /\ free = {} /\ freeCount = 0 /\ reserved = 0 /\ chunks = {} /\ misses = 0
    /\ cache = [t \in Threads |-> [free |-> {}, count |-> 0, gone |-> FALSE]]
    /\ held = {}
    /\ step = [t \in Threads |-> Idle]

Batches == {m \in SUBSET free : /\ m # {}
                                /\ \/ Cardinality(m) = kBatchSize
                                   \/ m = free /\ Cardinality(m) <= kBatchSize}

\* reserve(): a chunk of n blocks, on the central list.
AddChunk(n) ==
    \E new \in SUBSET (Blocks \ chunks) :
        /\ Cardinality(new) = n
        /\ free' = free \cup new
        /\ freeCount' = freeCount + n
        /\ reserved' = reserved + n
        /\ chunks' = chunks \cup new

Reserve(t, n) ==
    /\ step[t].at = "idle" /\ ~cache[t].gone
    /\ AddChunk(n)
    /\ UNCHANGED <<misses, cache, held, step>>

Gets(t, b) ==
    /\ held' = held \cup {b}
    /\ step' = [step EXCEPT ![t] = Has(b)]

\* The three ways through the first half of allocate(): a block of the thread's
\* own, one of a batch it fetches, or a miss.
FromCache(t) ==
    \E b \in cache[t].free :
        /\ cache' = [cache EXCEPT ![t].free = @ \ {b}, ![t].count = @ - 1]
        /\ Gets(t, b)
        /\ UNCHANGED <<free, freeCount, reserved, chunks, misses>>

Refill(t) ==
    /\ cache[t].free = {}
    /\ \E moved \in Batches : \E b \in moved :
        /\ free' = free \ moved
        /\ freeCount' = freeCount - Cardinality(moved)
        /\ cache' = [cache EXCEPT ![t].free = moved \ {b},
                                  ![t].count = @ + Cardinality(moved) - 1]
        /\ Gets(t, b)
    /\ UNCHANGED <<reserved, chunks, misses>>

Miss(t, small) ==
    /\ small => cache[t].free = {} /\ free = {}
    /\ misses' = misses + 1
    /\ step' = [step EXCEPT ![t] = Missed(small)]
    /\ UNCHANGED <<free, freeCount, reserved, chunks, cache, held>>

TryPool(t, small) ==
    \/ small /\ (FromCache(t) \/ Refill(t))
    \/ Miss(t, small)

Allocate(t, small) ==
    /\ step[t].at = "idle" /\ ~cache[t].gone
    /\ TryPool(t, small)

\* A pool nobody reserved reserves itself, however many threads miss at once;
\* any other miss is served by the heap.
AfterMiss(t) ==
    /\ step[t].at = "missed"
    /\ IF step[t].small /\ reserved = 0
       THEN step' = [step EXCEPT ![t].at = "reserving"] /\ UNCHANGED held
       ELSE \E b \in HeapBlocks \ held : Gets(t, b)
    /\ UNCHANGED <<free, freeCount, reserved, chunks, misses, cache>>

ReserveDefault(t) ==
    /\ step[t].at = "reserving"
    /\ AddChunk(kDefaultBlocks)
    /\ step' = [step EXCEPT ![t].at = "retry"]
    /\ UNCHANGED <<misses, cache, held>>

AllocateAgain(t) == step[t].at = "retry" /\ TryPool(t, TRUE)

\* The caller has put the block to use.
Return(t) ==
    /\ step[t].at = "has"
    /\ step' = [step EXCEPT ![t] = Idle]
    /\ UNCHANGED <<free, freeCount, reserved, chunks, misses, cache, held>>

\* release(): to the heap, or to the list of the thread that releases.  A list
\* that has grown past two batches is cut to one, and the rest kept in hand until
\* the mutex is held; mCount is put right only then.
MayRelease(t, b) ==
    /\ b \in held
    /\ step[t].at = "idle" \/ (step[t].at = "has" /\ step[t].block = b)

ReleaseToHeap(t, b) ==
    /\ b \in HeapBlocks
    /\ step' = [step EXCEPT ![t] = Idle]
    /\ UNCHANGED cache

Keep(t, b) ==
    LET all == cache[t].free \cup {b} IN
    /\ b \in Blocks
    /\ IF cache[t].count + 1 > 2 * kBatchSize
       THEN \E kept \in {k \in SUBSET all : Cardinality(k) = kBatchSize} :
                /\ cache' = [cache EXCEPT ![t].free = kept, ![t].count = @ + 1]
                /\ step' = [step EXCEPT ![t] = [Idle EXCEPT !.at = "spilling",
                                                            !.surplus = all \ kept]]
       ELSE /\ cache' = [cache EXCEPT ![t].free = all, ![t].count = @ + 1]
            /\ step' = [step EXCEPT ![t] = Idle]

Release(t, b) ==
    /\ MayRelease(t, b)
    /\ held' = held \ {b}
    /\ ReleaseToHeap(t, b) \/ Keep(t, b)
    /\ UNCHANGED <<free, freeCount, reserved, chunks, misses>>

\* Mutant: the thread goes on counting what it has given away.
SpillUncounted(t) ==
    /\ step[t].at = "spilling"
    /\ free' = free \cup step[t].surplus
    /\ freeCount' = freeCount + Cardinality(step[t].surplus)
    /\ step' = [step EXCEPT ![t] = Idle]
    /\ UNCHANGED <<reserved, chunks, misses, cache, held>>

Spill(t) ==
    LET surplus == step[t].surplus IN
    /\ step[t].at = "spilling"
    /\ free' = free \cup surplus
    /\ freeCount' = freeCount + Cardinality(surplus)
    /\ cache' = [cache EXCEPT ![t].count = @ - Cardinality(surplus)]
    /\ step' = [step EXCEPT ![t] = Idle]
    /\ UNCHANGED <<reserved, chunks, misses, held>>

\* ~ThreadCache(), at the end of a thread.
Exit(t) ==
    /\ step[t].at = "idle" /\ ~cache[t].gone
    /\ free' = free \cup cache[t].free
    /\ freeCount' = freeCount + cache[t].count
    /\ cache' = [cache EXCEPT ![t] = [free |-> {}, count |-> 0, gone |-> TRUE]]
    /\ UNCHANGED <<reserved, chunks, misses, held, step>>

\* What the pool may be asked to do by threads that release nothing once their
\* cache is gone.
PoolNext ==
    \E t \in Threads :
        \/ \E n \in 1..Cardinality(Blocks) : Reserve(t, n)
        \/ \E small \in BOOLEAN : Allocate(t, small)
        \/ AfterMiss(t) \/ ReserveDefault(t) \/ AllocateAgain(t) \/ Return(t)
        \/ \E b \in held : ~cache[t].gone /\ Release(t, b)
        \/ Spill(t) \/ Exit(t)

PoolSpec == PoolInit /\ [][PoolNext]_poolVars
-----------------------------------------------------------------------------
\* Where a block of the pool may be.
PlacesOf(b) ==
    (IF b \in free THEN {"central"} ELSE {})
    \cup (IF b \in held THEN {"held"} ELSE {})
    \cup {<<t, "cache">> : t \in {u \in Threads : b \in cache[u].free}}
    \cup {<<t, "surplus">> : t \in {u \in Threads : b \in step[u].surplus}}

CountsAreLengths ==
    /\ freeCount = Cardinality(free)
    /\ reserved = Cardinality(chunks)
    /\ \A t \in Threads :
        cache[t].count = Cardinality(cache[t].free) + Cardinality(step[t].surplus)

\* A block is in one place, whichever threads allocated it, released it and ended
\* meanwhile; none is lost to a thread that ended ("so a program that starts and
\* stops threads does not lose blocks to the ones that ended", ~ThreadCache()); and
\* the counts that decide on refilling and spilling are the lengths of the lists.
BlocksAreKept ==
    /\ \A b \in chunks : Cardinality(PlacesOf(b)) = 1
    /\ \A t \in Threads : cache[t].gone => cache[t].free = {}
    /\ CountsAreLengths
=============================================================================
