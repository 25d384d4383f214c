---------------------------- MODULE QueuedCalls -----------------------------
(***************************************************************************)
(* A queued call from the block it is made in to the report of its         *)
(* dispatch: threads allocate and post (Event.hpp, MetaCallEvent), a loop  *)
(* dispatches, in nested passes too, and releases, and a watchdog reads    *)
(* what the loop is doing.  EventPool has the blocks, LoopHealth the       *)
(* record; the queue between them is as simple as can be, since            *)
(* EventDispatcher has it whole.                                           *)
(***************************************************************************)
EXTENDS EventPool, LoopHealth

CONSTANTS
    Loop,            \* the thread whose queue it is
    Adopted,         \* it is a native thread that was adopted
    MaxCalls, MaxWatchedCalls, MaxDepth, MaxReserves, MaxReadings, MaxSwitches

ASSUME QueuedCallsAssumption ==
    /\ Loop \in Threads
    /\ Adopted \in BOOLEAN
    /\ Events = Blocks \cup HeapBlocks /\ NoEvent = None
    /\ {MaxCalls, MaxWatchedCalls, MaxDepth, MaxReserves, MaxReadings, MaxSwitches} \subseteq Nat

VARIABLES
    queue,       \* the blocks of the events posted and not yet dispatched
    accepting,   \* the dispatcher takes events
    spent,       \* the event whose dispatch is over, until it is deleted
    watched,     \* a bound: this behaviour is about what the loop says, or about the blocks
    made         \* calls, chunks, readings and switches so far

queueVars == <<queue, accepting, spent, watched, made>>
vars == <<poolVars, healthVars, queueVars>>

QueueTypeOK ==
    /\ queue \in Seq(Events) /\ accepting \in BOOLEAN
    /\ spent \in Events \cup {NoEvent} /\ watched \in BOOLEAN
    /\ made \in [calls : Nat, chunks : Nat, readings : Nat, switches : Nat]

Init ==
    /\ PoolInit /\ HealthInit
    /\ queue = <<>> /\ accepting = TRUE /\ spent = NoEvent
    /\ watched \in BOOLEAN /\ (tracking => watched)
    /\ made = [calls |-> 0, chunks |-> 0, readings |-> 0, switches |-> 0]

Count(what, bound) == made[what] < bound /\ made' = [made EXCEPT ![what] = @ + 1]

\* The loop's thread is in a handler, or outside of its passes.
InHandler == writing.at = "run" /\ spent = NoEvent
Free(t) == t = Loop => InHandler

\* A bound: while somebody reads, nobody creates, posts or ends.  Such a step and one
\* of a reader have no variable in common.
NobodyReads == \A r \in Readers : reader[r].at = "idle"
-----------------------------------------------------------------------------
Create(t, small) ==
    /\ Free(t) /\ NobodyReads /\ Count("calls", IF watched THEN MaxWatchedCalls ELSE MaxCalls)
    /\ watched => small /\ t # Loop
    /\ Allocate(t, small)
    /\ UNCHANGED <<healthVars, queue, accepting, spent, watched>>

ReserveMore(t, n) ==
    /\ ~watched /\ Free(t) /\ Count("chunks", MaxReserves)
    /\ Reserve(t, n)
    /\ UNCHANGED <<healthVars, queue, accepting, spent, watched>>

GoOn(t) ==
    /\ t = Loop \/ NobodyReads
    /\ AfterMiss(t) \/ ReserveDefault(t) \/ AllocateAgain(t) \/ Spill(t)
    /\ UNCHANGED <<healthVars, queueVars>>

Post(t) ==
    /\ accepting /\ NobodyReads
    /\ queue' = Append(queue, step[t].block)
    /\ Return(t)
    /\ UNCHANGED <<healthVars, accepting, spent, made, watched>>

\* The dispatcher is closed, or the callable cannot be copied into the block.
Refuse(t) ==
    /\ step[t].at = "has" /\ NobodyReads
    /\ Release(t, step[t].block)
    /\ UNCHANGED <<healthVars, queueVars>>

Dispatch ==
    /\ InHandler /\ step[Loop].at = "idle" /\ ~cache[Loop].gone
    /\ queue # <<>> /\ Len(frames) < MaxDepth
    /\ BeginDispatch(Head(queue))
    /\ queue' = Tail(queue)
    /\ UNCHANGED <<poolVars, accepting, spent, made, watched>>

\* The handler of the innermost dispatch returns; an event nobody tracked is deleted
\* at once, another when its end is on record.
HandlerReturns ==
    /\ InHandler /\ step[Loop].at = "idle"
    /\ EndDispatch
    /\ spent' = IF Last(frames).tracked THEN NoEvent ELSE Last(frames).event
    /\ UNCHANGED <<poolVars, queue, accepting, made, watched>>

Report ==
    /\ RecordBegin \/ \E f \in Fields : Store(f)
    /\ UNCHANGED <<poolVars, queueVars>>

ReportIsComplete ==
    /\ Publish
    /\ spent' = IF writing.ends THEN Last(frames).event ELSE spent
    /\ UNCHANGED <<poolVars, queue, accepting, made, watched>>

Delete ==
    /\ spent # NoEvent
    /\ Release(Loop, spent)
    /\ spent' = NoEvent
    /\ UNCHANGED <<healthVars, queue, accepting, made, watched>>

\* A thread that was started closes its queue before it ends; an adopted one does in
\* ~Thread(), which runs when its cache is gone.
Close ==
    /\ InHandler /\ frames = <<>> /\ step[Loop].at = "idle" /\ NobodyReads
    /\ accepting /\ Adopted => cache[Loop].gone
    /\ accepting' = FALSE
    /\ UNCHANGED <<poolVars, healthVars, queue, spent, made, watched>>

\* What is still queued is deleted with the dispatcher, by whoever held it last.
Discard(t) ==
    /\ ~accepting /\ queue # <<>> /\ NobodyReads
    /\ cache[t].gone => Adopted /\ t = Loop
    /\ Release(t, Head(queue))
    /\ queue' = Tail(queue)
    /\ UNCHANGED <<healthVars, accepting, spent, made, watched>>

End(t) ==
    /\ NobodyReads
    /\ t = Loop => /\ InHandler /\ frames = <<>>
                   /\ Adopted \/ (~accepting /\ queue = <<>>)
    /\ Exit(t)
    /\ UNCHANGED <<healthVars, queueVars>>

SwitchTracking ==
    /\ watched /\ Count("switches", MaxSwitches)
    /\ \E enabled \in BOOLEAN : SetHealthTrackingEnabled(enabled)
    /\ UNCHANGED <<poolVars, queue, accepting, spent, watched>>

AskHealth(r) ==
    /\ watched /\ Count("readings", MaxReadings)
    /\ Health(r)
    /\ UNCHANGED <<poolVars, queue, accepting, spent, watched>>

ReadHealth(r) ==
    /\ LoadSeq(r) \/ Recheck(r) \/ \E f \in Fields : Load(r, f)
    /\ UNCHANGED <<poolVars, queueVars>>

Next ==
    \/ \E t \in Threads :
        \/ \E small \in BOOLEAN : Create(t, small)
        \/ ReserveMore(t, kDefaultBlocks)
        \/ GoOn(t) \/ Post(t) \/ Refuse(t) \/ Discard(t) \/ End(t)
    \/ Dispatch \/ Report \/ ReportIsComplete \/ HandlerReturns \/ Delete \/ Close
    \/ SwitchTracking
    \/ \E r \in Readers : AskHealth(r) \/ ReadHealth(r)

Spec == Init /\ [][Next]_vars
\* Blocks of the pool are interchangeable.
Symmetry == Permutations(Blocks)
-----------------------------------------------------------------------------
TypeOK == PoolTypeOK /\ HealthTypeOK /\ QueueTypeOK

\* What the loop is told to be doing it is doing, or was at one moment of the reading.
HealthIsTold == TypeOK /\ ReadingIsOneMoment /\ InnermostIsNamed

\* The events of a queue are in blocks nobody else has.
CallsHaveTheirBlocks ==
    /\ BlocksAreKept
    /\ \A i \in DOMAIN queue : queue[i] \in held
    /\ \A i, j \in DOMAIN queue : i # j => queue[i] # queue[j]
    /\ \A i \in DOMAIN frames : frames[i].event \in held
=============================================================================
