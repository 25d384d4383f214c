-------------------------- MODULE EventDispatcher --------------------------
(***************************************************************************)
(* The event queue of one thread: class EventDispatcherDefault.            *)
(*                                                                         *)
(* Any thread posts, in two steps: it resolves where the receiver lives,   *)
(* and later locks that thread's queue.  In between the receiver may die,  *)
(* move away or have its address handed out again.  The loop's own thread  *)
(* runs passes: a pass takes the whole queue in one swap and dispatches it *)
(* with the mutex released, so every event has to be found wherever it     *)
(* currently is: in the queue, in a slot of a running pass (passes nest,   *)
(* because a handler may itself call processEvents), or in the hands of    *)
(* the code dispatching it.                                                *)
(*                                                                         *)
(* One action is one hold of mMutex together with the thread-local work    *)
(* that follows it.  Time is abstracted: any registered timer may be due   *)
(* when a pass collects.  The wait of an idle pass and the interrupt and   *)
(* wake-up flags do not touch the state kept here: module ThreadLoop has   *)
(* them.                                                                   *)
(***************************************************************************)
EXTENDS Integers, FiniteSets, SequencesExt, Subsequences

CONSTANTS
    Receivers,    \* addresses at which an Object may live
    Posters,      \* the calls that may be posting at one time, on any thread
    Priorities,   \* the priorities applications post at; kNormal is among them
    Capacities,   \* values given to setEventQueueCapacity; 0 is unbounded
    MaxEvents,    \* bound: events (posts, expiries, re-posts) numbered in a behaviour
    MaxDepth,     \* bound: passes nested inside one another
    MayMove,      \* bound: whether objects come and go between threads
    Bystanders,   \* bound: objects that only receive events: they stay, without timers
    None          \* a cleared slot, an empty hand

kNormal == 0

ASSUME DispatcherAssumption ==
    /\ kNormal \in Priorities
    /\ Priorities \subseteq Int
    /\ Capacities \subseteq Nat
    /\ 0 \in Capacities
    /\ MaxEvents \in Nat
    /\ MaxDepth \in Nat \ {0}
    /\ MayMove \in BOOLEAN
    /\ Bystanders \subseteq Receivers

Policies == {"DropNewest", "DropOldest", "Coalesce"}
Types    == {"User", "MetaCall", "Timer", "DeferredDelete"}

\* What became of the object an event was aimed at, between the reading of its
\* affinity and the queuing of the event.  "here": it lives here still.  "gone": it
\* was destroyed.  "stray": it moved to another thread; of an event carried here by
\* a move or by a starting thread, it left in either way.
Fates == {"here", "gone", "stray"}

\* An EventPair: the ticket it was queued with, the receiver it is keyed by, the
\* type of its event, its rank, and what its receiver had become.
Entry == [id : Nat, recv : Receivers, type : Types, prio : Int, target : Fates]

\* An event on its way to this queue: its receiver's affinity has been read.
Post == [recv : Receivers, type : Types, carried : BOOLEAN, target : Fates]

ASSUME NoneAssumption == None \notin Entry \cup Post

VARIABLES
    queue,      \* mEventQueue: descending priority, posting order within one
    frames,     \* mDispatchFrames with each pass's locals; the innermost is last
    timers,     \* mTimers: the receivers owning a timer, in registration order
    capacity,   \* mCapacity
    accepting,  \* mAcceptingEvents
    object,     \* what lives at each address: nothing, an object of this thread, one moved away
    deleting,   \* the objects of this thread whose kDeleteLaterPosted flag is set
    posting,    \* the event each poster has in flight
    nextId      \* the next ticket

vars == <<queue, frames, timers, capacity, accepting, object, deleting, posting, nextId>>

-----------------------------------------------------------------------------
(* The queue: insertion, admission, removal.                               *)

\* A position no other position of P precedes.
First(P) == CHOOSE k \in P : \A j \in P : k <= j

\* insertByPriorityLocked() with the search turned round: before the equals.
InsertBeforeEquals(q, e) ==
    LET behind == {k \in Positions(q) : q[k].prio <= e.prio}
    IN  IF behind = {} THEN Append(q, e) ELSE InsertAt(q, First(behind), e)

\* insertByPriorityLocked(): after every entry that ranks as high, before the rest.
InsertByPriority(q, e) ==
    LET behind == {k \in Positions(q) : q[k].prio < e.prio}
    IN  IF behind = {} THEN Append(q, e) ELSE InsertAt(q, First(behind), e)

\* What a receiver's destruction, or its move, leaves of a queue.
Without(q, r) == Picked(q, {k \in Positions(q) : q[k].recv # r})

\* What it leaves of a running pass: the slots stay, cleared.
Cleared(batch, r) ==
    [k \in Positions(batch) |->
        IF batch[k] # None /\ batch[k].recv = r THEN None ELSE batch[k]]

ClearedInFrame(f, r) ==
    [f EXCEPT !.batch = Cleared(f.batch, r), !.timers = Cleared(f.timers, r)]

\* cancelInEveryFrame() that stops after the innermost pass.
ClearedInInnermost(r) ==
    [k \in Positions(frames) |->
        IF k = Len(frames) THEN ClearedInFrame(frames[k], r) ELSE frames[k]]

\* cancelInEveryFrame(): the chain is walked from the innermost pass outwards.
ClearedInEveryFrame(r) ==
    [k \in Positions(frames) |-> ClearedInFrame(frames[k], r)]

\* Droppable() that forgets what a deferred delete is for.
AnyEntry(q) == Positions(q)

\* Entries a full queue may evict: never a deferred delete.
Droppable(q) == {k \in Positions(q) : q[k].type # "DeferredDelete"}

\* The oldest entry of the lowest band present.
Victim(q) ==
    CHOOSE k \in Droppable(q) : \A j \in Droppable(q) :
        \/ q[k].prio < q[j].prio
        \/ q[k].prio = q[j].prio /\ k <= j

Full(q) == capacity # 0 /\ Len(q) >= capacity

Coalesces(q, e, policy) ==
    /\ policy = "Coalesce"
    /\ \E k \in Positions(q) : q[k].recv = e.recv /\ q[k].type = e.type

\* DropOldest makes room only for a newcomer that ranks at least as high.
Evicts(q, e, policy) ==
    /\ policy = "DropOldest"
    /\ Droppable(q) # {}
    /\ e.prio >= q[Victim(q)].prio

\* admitLocked(): the queue after e is coalesced, queued, queued in place of a
\* victim, or refused.
AfterAdmission(q, e, policy) ==
    IF Coalesces(q, e, policy) THEN q
    ELSE IF ~Full(q) \/ e.type = "DeferredDelete" THEN InsertByPriority(q, e)
    ELSE IF Evicts(q, e, policy) THEN InsertByPriority(Picked(q, Positions(q) \ {Victim(q)}), e)
    ELSE q

-----------------------------------------------------------------------------
(* Passes.                                                                 *)

Frame(kind, batch, due) ==
    [kind |-> kind, batch |-> batch, timers |-> due, i |-> 1, j |-> 1,
     budget |-> Len(batch), deleted |-> {}, hand |-> None, ran |-> 0]

Top == frames[Len(frames)]

\* The loop's thread is between passes or inside a handler: the code that may
\* destroy, move, start timers, or run a nested pass.  A call queued for an object
\* that was gone by then finds its life token dead and runs nothing.
InUserCode == frames # <<>> => Top.hand # None /\ Top.hand.target # "gone"

SetTop(f) == frames' = [frames EXCEPT ![Len(frames)] = f]

\* The events a pass, or the queue, holds and nobody is dispatching yet.
Slots ==
    {<<"queue", 0, k>> : k \in Positions(queue)}
    \cup (UNION {{<<"batch", d, k>> : k \in Positions(frames[d].batch)} : d \in Positions(frames)})
    \cup (UNION {{<<"timer", d, k>> : k \in Positions(frames[d].timers)} : d \in Positions(frames)})
    \cup {<<"hand", d, 0>> : d \in Positions(frames)}

At(slot) ==
    CASE slot[1] = "queue" -> queue[slot[3]]
      [] slot[1] = "batch" -> frames[slot[2]].batch[slot[3]]
      [] slot[1] = "timer" -> frames[slot[2]].timers[slot[3]]
      [] slot[1] = "hand"  -> frames[slot[2]].hand

Occupied == {s \in Slots : At(s) # None}

-----------------------------------------------------------------------------
Init ==
    /\ queue = <<>>
    /\ frames = <<>>
    /\ timers = <<>>
    /\ capacity = 0
    /\ accepting = TRUE
    /\ object = [r \in Receivers |-> "here"]
    /\ deleting = {}
    /\ posting = [p \in Posters |-> None]
    /\ nextId = 1

TimersWithout(r) == Picked(timers, {k \in Positions(timers) : timers[k] # r})

\* removeEventsForReceiver(), takeTimersForReceiver() and takeEventsForReceiver().
Strip(r) ==
    /\ queue' = Without(queue, r)
    /\ frames' = ClearedInEveryFrame(r)
    /\ timers' = TimersWithout(r)

\* Stripping reaches no event in flight: those aimed at r go on, for an object that is not
\* where it was.
InFlightTo(p, r) == posting[p] # None /\ posting[p].recv = r

Outlived(p, r, fate) ==
    IF InFlightTo(p, r) /\ posting[p].target = "here"
    THEN [posting[p] EXCEPT !.target = IF posting[p].carried THEN "stray" ELSE fate]
    ELSE posting[p]

Outlive(r, fate) == posting' = [p \in Posters |-> Outlived(p, r, fate)]

\* A receiver passed to postEvent(), and one told to delete itself, are alive for the
\* duration of the call; the context of a queued connection need not be.
Spoken(p, r) == InFlightTo(p, r) /\ ~posting[p].carried /\ posting[p].type # "MetaCall"

SpokenOf(r) == \E p \in Posters : Spoken(p, r)

\* An object is not destroyed twice: not while its deferred delete is running.
BeingDeleted(r) ==
    \E d \in Positions(frames) :
        frames[d].hand # None /\ frames[d].hand.type = "DeferredDelete" /\ frames[d].hand.recv = r

\* ~Object() of an object of this thread.
Destroyed(r) ==
    /\ Strip(r)
    /\ object' = [object EXCEPT ![r] = "none"]
    /\ deleting' = deleting \ {r}

DestroyObject(r) ==
    /\ r \notin Bystanders
    /\ InUserCode
    /\ object[r] = "here"
    /\ ~BeingDeleted(r)
    /\ ~SpokenOf(r)
    /\ Destroyed(r)
    /\ Outlive(r, "gone")
    /\ UNCHANGED <<capacity, accepting, nextId>>

\* The allocator hands the address out again once its destructor has returned.
CreateObject(r) ==
    /\ InUserCode
    /\ object[r] = "none"
    /\ ~BeingDeleted(r)
    /\ object' = [object EXCEPT ![r] = "here"]
    /\ UNCHANGED <<queue, frames, timers, capacity, accepting, deleting, posting, nextId>>

\* moveToThread() to another thread: takeTimersForReceiver() and
\* takeEventsForReceiver() empty this dispatcher of r as its destruction would.
MoveAway(r) ==
    /\ r \notin Bystanders
    /\ MayMove
    /\ InUserCode
    /\ object[r] = "here"
    /\ ~BeingDeleted(r)
    /\ Strip(r)
    /\ Outlive(r, "stray")
    /\ object' = [object EXCEPT ![r] = "away"]
    /\ deleting' = deleting \ {r}
    /\ UNCHANGED <<capacity, accepting, nextId>>

\* Elsewhere the object is destroyed, or moved back here.
LeaveOrReturn(r) ==
    /\ object[r] = "away"
    /\ \/ object' = [object EXCEPT ![r] = "here"]
       \/ ~SpokenOf(r) /\ object' = [object EXCEPT ![r] = "none"]
    /\ UNCHANGED <<queue, frames, timers, capacity, accepting, deleting, posting, nextId>>

-----------------------------------------------------------------------------
(* Posting: first the receiver's affinity is read, then the queue is locked. *)

Resolve(p, r, type, carried) ==
    /\ object[r] = "here"
    /\ posting[p] = None
    /\ nextId <= MaxEvents
    /\ posting' = [posting EXCEPT
            ![p] = [recv |-> r, type |-> type, carried |-> carried, target |-> "here"]]

\* Object::postEvent(), or an emit or call that is to be queued for r's thread.
BeginPost(p, r, type) ==
    /\ type \in {"User", "MetaCall"}
    /\ Resolve(p, r, type, FALSE)
    /\ UNCHANGED <<queue, frames, timers, capacity, accepting, object, deleting, nextId>>

\* Where the deferred delete of r is held, if anywhere.
DeferredDeleteHeld(r) ==
    \E s \in Occupied : At(s).type = "DeferredDelete" /\ At(s).recv = r

\* It is held, or on its way into the queue.
DeferredDeletePendingFor(r) ==
    \/ DeferredDeleteHeld(r)
    \/ \E p \in Posters : InFlightTo(p, r) /\ posting[p].type = "DeferredDelete"

\* deleteLater(): the flag lets one deferred delete per object be posted (one that a
\* returning object left behind when it moved counts).
BeginDeleteLater(p, r) ==
    /\ r \notin Bystanders
    /\ r \notin deleting
    /\ ~DeferredDeletePendingFor(r)
    /\ Resolve(p, r, "DeferredDelete", FALSE)
    /\ deleting' = deleting \cup {r}
    /\ UNCHANGED <<queue, frames, timers, capacity, accepting, object, nextId>>

\* migratePostedEvents() of an object that moved here, or the handing over of what was
\* parked: the affinity is this thread's already, the event not in its queue yet.
BeginCarry(p, r, type) ==
    /\ r \notin Bystanders
    /\ MayMove
    /\ type = "DeferredDelete" => r \notin deleting /\ ~DeferredDeletePendingFor(r)
    /\ Resolve(p, r, type, TRUE)
    /\ deleting' = IF type = "DeferredDelete" THEN deleting \cup {r} ELSE deleting
    /\ UNCHANGED <<queue, frames, timers, capacity, accepting, object, nextId>>

\* The event of p, queued with the next ticket.
Ticketed(p, prio) ==
    [id |-> nextId, recv |-> posting[p].recv, type |-> posting[p].type, prio |-> prio,
     target |-> posting[p].target]

Arrived(p) == posting' = [posting EXCEPT ![p] = None]

\* postEvent() of the dispatcher.  Only an application's event has a policy and a rank.
PostEvent(p, policy, prio) ==
    /\ posting[p] # None /\ ~posting[p].carried
    /\ accepting
    /\ nextId <= MaxEvents
    /\ posting[p].type # "User" => policy = "DropNewest" /\ prio = kNormal
    /\ queue' = AfterAdmission(queue, Ticketed(p, prio), policy)
    /\ nextId' = nextId + 1
    /\ Arrived(p)
    /\ UNCHANGED <<frames, timers, capacity, accepting, object, deleting>>

\* postEventUnconditionally(), whatever the capacity; an event moved here has lost its
\* rank, one that was parked kept it.
PostEventUnconditionally(p, prio) ==
    /\ posting[p] # None /\ posting[p].carried
    /\ accepting
    /\ nextId <= MaxEvents
    /\ posting[p].type \in {"Timer", "DeferredDelete"} => prio = kNormal
    /\ queue' = InsertByPriority(queue, Ticketed(p, prio))
    /\ nextId' = nextId + 1
    /\ Arrived(p)
    /\ UNCHANGED <<frames, timers, capacity, accepting, object, deleting>>

\* A closed queue frees the event.
RefusePost(p) ==
    /\ posting[p] # None
    /\ ~accepting
    /\ posting[p].type = "DeferredDelete" => posting[p].carried
    /\ Arrived(p)
    /\ UNCHANGED <<queue, frames, timers, capacity, accepting, object, deleting, nextId>>

\* deleteLater() refused by a closed queue deletes at once, on the calling thread.
DeleteAtOnce(p) ==
    /\ posting[p] # None /\ ~posting[p].carried
    /\ posting[p].type = "DeferredDelete"
    /\ ~accepting
    /\ LET r == posting[p].recv IN
         /\ ~BeingDeleted(r)
         /\ \A o \in Posters \ {p} : ~Spoken(o, r)
         /\ IF object[r] = "here" THEN Destroyed(r)
            ELSE /\ object' = [object EXCEPT ![r] = "none"]
                 /\ UNCHANGED <<queue, frames, timers, deleting>>
         /\ posting' = [o \in Posters |-> IF o = p THEN None ELSE Outlived(o, r, "gone")]
    /\ UNCHANGED <<capacity, accepting, nextId>>

SetEventQueueCapacity(c) ==
    /\ capacity' = c
    /\ UNCHANGED <<queue, frames, timers, accepting, object, deleting, posting, nextId>>

\* registerTimer(): startTimer() is confined to the object's own thread.
RegisterTimer(r) ==
    /\ r \notin Bystanders
    /\ InUserCode
    /\ object[r] = "here"
    /\ r \notin ToSet(timers)
    /\ timers' = Append(timers, r)
    /\ UNCHANGED <<queue, frames, capacity, accepting, object, deleting, posting, nextId>>

\* unregisterTimer(), takeTimerLocked(): the expiries already queued or collected go too.
IsExpiryOf(e, r) == e # None /\ e.type = "Timer" /\ e.recv = r

WithoutExpiries(batch, r) ==
    [k \in Positions(batch) |-> IF IsExpiryOf(batch[k], r) THEN None ELSE batch[k]]

UnregisterTimer(r) ==
    /\ InUserCode
    /\ object[r] = "here"
    /\ timers' = TimersWithout(r)
    /\ queue' = Picked(queue, {k \in Positions(queue) : ~IsExpiryOf(queue[k], r)})
    /\ frames' = [d \in Positions(frames) |->
                    [frames[d] EXCEPT !.batch = WithoutExpiries(@, r),
                                      !.timers = WithoutExpiries(@, r)]]
    /\ UNCHANGED <<capacity, accepting, object, deleting, posting, nextId>>

\* close(): one-way, by the thread that is about to drain for the last time.
Close ==
    /\ frames = <<>>
    /\ accepting
    /\ accepting' = FALSE
    /\ UNCHANGED <<queue, frames, timers, capacity, object, deleting, posting, nextId>>

-----------------------------------------------------------------------------
(* processEvents().                                                        *)

\* The expiries of the timers that are due, in registration order.
Expiries(due) ==
    LET fired == Picked(timers, {k \in Positions(timers) : timers[k] \in due})
    IN  [k \in Positions(fired) |->
            [id |-> nextId + k - 1, recv |-> fired[k], type |-> "Timer", prio |-> kNormal,
             target |-> "here"]]

\* Collecting the due timers, swapping the queue out, publishing the frame.
BeginPass(due) ==
    /\ InUserCode
    /\ Len(frames) < MaxDepth
    /\ nextId + Len(Expiries(due)) <= MaxEvents + 1
    /\ frames' = Append(frames, Frame("pass", queue, Expiries(due)))
    /\ queue' = <<>>
    /\ nextId' = nextId + Len(Expiries(due))
    /\ UNCHANGED <<timers, capacity, accepting, object, deleting, posting>>

BetweenDispatches(kind) ==
    /\ frames # <<>>
    /\ Top.kind = kind
    /\ Top.hand = None

\* Dispatching e, unless its slot was cleared or its receiver was deleted earlier
\* in this pass: then the event is freed and the pass goes on.
TakeUp(f, e) ==
    IF e = None \/ e.recv \in f.deleted THEN f
    ELSE [f EXCEPT !.hand = e, !.ran = @ + 1]

BatchLeft == Top.i <= Len(Top.batch)

\* Preemption that lets an equal rank overtake.
PreemptsEquals ==
    /\ Top.budget > 0
    /\ queue # <<>>
    /\ Top.batch[Top.i] # None
    /\ Head(queue).prio >= Top.batch[Top.i].prio

\* The front of the live queue outranks the batch entry about to run.
Preempts ==
    /\ Top.budget > 0
    /\ queue # <<>>
    /\ Top.batch[Top.i] # None
    /\ Head(queue).prio > Top.batch[Top.i].prio

Steal ==
    /\ SetTop(TakeUp([Top EXCEPT !.budget = @ - 1], Head(queue)))
    /\ queue' = Tail(queue)

\* Claiming the slot without clearing it.
ClaimKeepingSlot ==
    /\ SetTop(TakeUp([Top EXCEPT !.i = @ + 1], Top.batch[Top.i]))
    /\ UNCHANGED queue

ClaimSlot ==
    /\ SetTop(TakeUp([Top EXCEPT !.batch[Top.i] = None, !.i = @ + 1], Top.batch[Top.i]))
    /\ UNCHANGED queue

NextEvent ==
    /\ BetweenDispatches("pass")
    /\ BatchLeft
    /\ IF Preempts THEN Steal ELSE ClaimSlot
    /\ UNCHANGED <<timers, capacity, accepting, object, deleting, posting, nextId>>

NextExpiry ==
    /\ BetweenDispatches("pass")
    /\ ~BatchLeft
    /\ Top.j <= Len(Top.timers)
    /\ SetTop(TakeUp([Top EXCEPT !.timers[Top.j] = None, !.j = @ + 1], Top.timers[Top.j]))
    /\ UNCHANGED <<queue, timers, capacity, accepting, object, deleting, posting, nextId>>

EndPass ==
    /\ BetweenDispatches("pass")
    /\ ~BatchLeft
    /\ Top.j > Len(Top.timers)
    /\ frames' = Front(frames)
    /\ UNCHANGED <<queue, timers, capacity, accepting, object, deleting, posting, nextId>>

\* A deferred delete runs the destructor of its receiver, which strips what is left.  Of
\* an object that moved away while its deferred delete was in flight this is the wrong
\* thread: the destructor strips the queue of the other one.
RunDeferredDelete ==
    /\ frames # <<>>
    /\ Top.hand # None
    /\ Top.hand.type = "DeferredDelete"
    /\ LET r == Top.hand.recv IN
         /\ ~SpokenOf(r)
         /\ \/ object[r] = "here" /\ Destroyed(r) /\ Outlive(r, "gone")
            \/ /\ object[r] = "away"
               /\ object' = [object EXCEPT ![r] = "none"]
               /\ UNCHANGED <<queue, frames, timers, deleting, posting>>
    /\ UNCHANGED <<capacity, accepting, nextId>>

\* The handler returns and the event is freed; a pass remembers whom it deleted.
EndDispatch ==
    /\ frames # <<>>
    /\ Top.hand # None
    /\ Top.hand.type = "DeferredDelete" => object[Top.hand.recv] = "none"
    /\ SetTop([Top EXCEPT !.hand = None,
                          !.deleted = IF Top.hand.type = "DeferredDelete"
                                      THEN @ \cup {Top.hand.recv} ELSE @])
    /\ UNCHANGED <<queue, timers, capacity, accepting, object, deleting, posting, nextId>>

-----------------------------------------------------------------------------
(* processDeferredDeletes(), run by a thread that is finishing.            *)

DeferredDeletes == Picked(queue, {k \in Positions(queue) : queue[k].type = "DeferredDelete"})

DrainedQueue == Picked(queue, {k \in Positions(queue) : queue[k].type # "DeferredDelete"})

BeginDrain ==
    /\ frames = <<>>
    /\ ~accepting
    /\ frames' = <<Frame("drain", DeferredDeletes, <<>>)>>
    /\ queue' = DrainedQueue
    /\ UNCHANGED <<timers, capacity, accepting, object, deleting, posting, nextId>>

NextDeferredDelete ==
    /\ BetweenDispatches("drain")
    /\ BatchLeft
    /\ ClaimSlot
    /\ UNCHANGED <<timers, capacity, accepting, object, deleting, posting, nextId>>

\* The batch is done: sweep again until the queue holds no deferred delete.
DrainAgain ==
    /\ BetweenDispatches("drain")
    /\ ~BatchLeft
    /\ IF DeferredDeletes # <<>>
       THEN SetTop([Frame("drain", DeferredDeletes, <<>>) EXCEPT !.deleted = Top.deleted])
       ELSE frames' = Front(frames)
    /\ queue' = DrainedQueue
    /\ UNCHANGED <<timers, capacity, accepting, object, deleting, posting, nextId>>

-----------------------------------------------------------------------------
Next ==
    \/ \E p \in Posters, r \in Receivers, type \in Types :
        \/ BeginPost(p, r, type)
        \/ BeginCarry(p, r, type)
    \/ \E p \in Posters, r \in Receivers : BeginDeleteLater(p, r)
    \/ \E p \in Posters, policy \in Policies, prio \in Priorities : PostEvent(p, policy, prio)
    \/ \E p \in Posters, prio \in Priorities : PostEventUnconditionally(p, prio)
    \/ \E p \in Posters : RefusePost(p) \/ DeleteAtOnce(p)
    \/ \E r \in Receivers :
        \/ DestroyObject(r)
        \/ CreateObject(r)
        \/ MoveAway(r)
        \/ LeaveOrReturn(r)
        \/ RegisterTimer(r)
        \/ UnregisterTimer(r)
    \/ \E c \in Capacities : SetEventQueueCapacity(c)
    \/ Close
    \/ \E due \in SUBSET ToSet(timers) : BeginPass(due)
    \/ NextEvent
    \/ NextExpiry
    \/ EndPass
    \/ RunDeferredDelete
    \/ EndDispatch
    \/ BeginDrain
    \/ NextDeferredDelete
    \/ DrainAgain

Spec == Init /\ [][Next]_vars

-----------------------------------------------------------------------------
(* Properties.                                                             *)

Slot == Entry \cup {None}

FrameType ==
    [kind : {"pass", "drain"}, batch : Seq(Slot), timers : Seq(Slot), i : Nat \ {0},
     j : Nat \ {0}, budget : Nat, deleted : SUBSET Receivers, hand : Slot, ran : Nat]

\* Every variable has its type.
TypeOK ==
    /\ queue \in Seq(Entry)
    /\ frames \in Seq(FrameType)
    /\ timers \in Seq(Receivers)
    /\ capacity \in Capacities
    /\ accepting \in BOOLEAN
    /\ object \in [Receivers -> {"here", "away", "none"}]
    /\ deleting \in SUBSET Receivers
    /\ posting \in [Posters -> Post \cup {None}]
    /\ nextId \in Nat \ {0}

\* An event has one owner.  Whatever posts, passes, nested passes, kills and
\* destructions interleave, no event sits in two places at once: in the queue, in
\* a slot of a batch or of a pass's expiries, or in the hands of a dispatch.  The
\* code frees by hand, so a second owner is a double free.
OneOwner ==
    \A s, t \in Occupied : At(s).id = At(t).id => s = t

\* "Higher runs first, and equal priorities keep posting order": the queue is
\* always ordered by rank, and by ticket within a rank.
Ordered(q) ==
    \A k, l \in Positions(q) : k < l =>
        \/ q[k].prio > q[l].prio
        \/ q[k].prio = q[l].prio /\ q[k].id < q[l].id

QueueOrdered == Ordered(queue)

\* Nothing but a call with its own life token waits for an object that is gone.
\* ~Object() and moveToThread() reach the queue and every pass of the chain, so an event
\* yet to be dispatched that was aimed at an object, and entered while it was here, names
\* an object that is here still.  An event that entered after its object was destroyed is
\* a MetaCall: what else is posted holds its receiver to life for the duration.  (Strays,
\* in flight across a move, are left out.)
RightlyAimed(e) ==
    /\ e.target = "here" => object[e.recv] = "here"
    /\ e.target = "gone" => e.type = "MetaCall"

NothingForTheGone ==
    /\ \A s \in Occupied : s[1] # "hand" => RightlyAimed(At(s))
    /\ \A p \in Posters : posting[p] # None => RightlyAimed(posting[p])

\* A pass ends: it dispatches at most twice what it took, and its expiries,
\* however fast handlers post events that outrank its batch.
PassBounded ==
    \A d \in Positions(frames) :
        frames[d].ran <= 2 * Len(frames[d].batch) + Len(frames[d].timers)

\* Preemption never breaks the order within a rank: an event taken up by a pass is
\* older than every equal-ranked event the pass could have taken up instead.
\* (Events of the passes it is nested in are out of its reach.)
TakesUp(e) ==
    /\ Len(frames') = Len(frames)
    /\ frames # <<>>
    /\ Top.kind = "pass"
    /\ Top.hand = None /\ Top'.hand = e /\ e # None
    /\ Top'.j = Top.j

Overtaken(e, s) ==
    \E k \in Positions(s) : s[k] # None /\ s[k].prio = e.prio /\ s[k].id < e.id

EqualPriorityKeepsOrder ==
    [][\A s \in Occupied : TakesUp(At(s)) =>
            ~Overtaken(At(s), queue') /\ ~Overtaken(At(s), Top'.batch)]_vars

\* A deferred delete, once posted, stays pending while its object lives here: it is
\* admitted whatever the depth, never evicted and never coalesced away, by whatever
\* calls are in flight.  (The exceptions: the address reuse DeferredDeletePending speaks
\* of, and a delete carried to a queue that has closed.)
CarriedInVain(r) ==
    /\ ~accepting
    /\ \E p \in Posters :
        InFlightTo(p, r) /\ posting[p].carried /\ posting[p].type = "DeferredDelete"

DeferredDeleteKept ==
    [][\A r \in Receivers :
        DeferredDeletePendingFor(r) /\ object[r] = "here" /\ object'[r] = "here" =>
            \/ DeferredDeletePendingFor(r)'
            \/ CarriedInVain(r)
            \/ \E d \in Positions(frames) : r \in frames[d].deleted]_vars

\* The same, as AbstractEventDispatcher::postEvent() has it ("A DeferredDelete is
\* admitted whatever the depth: dropping one leaks the object it names"): while the
\* queue is open, an object that was told to delete itself later has its deferred
\* delete pending.
DeferredDeletePending ==
    accepting => \A r \in deleting : DeferredDeletePendingFor(r)

\* The final drain is final: when processDeferredDeletes() returns, no deferred
\* delete is left, and a closed queue never takes one again.
DrainIsFinal ==
    [][/\ (frames # <<>> /\ frames[1].kind = "drain" /\ frames' = <<>>)
            => \A r \in Receivers : ~DeferredDeleteHeld(r)'
       /\ \A r \in Receivers :
            ~accepting /\ ~DeferredDeleteHeld(r) => ~DeferredDeleteHeld(r)']_vars

\* What every reader of mEventQueue relies on: typed, and in dispatching order, whatever
\* was inserted, evicted, cancelled and put back (EventDispatcherDefault.cpp, postEvent()
\* and the splicing of an unfinished batch).
QueueIsSound == TypeOK /\ QueueOrdered

\* What a pass may do whatever its handlers and other threads do: what it took is for no
\* receiver that died or left meanwhile, and it comes to an end.
PassesAreSound == NothingForTheGone /\ PassBounded

\* deleteLater() keeps its word: what it posted is held until it runs, and the final drain
\* leaves none behind.
DeferredDeletesAreKept == DeferredDeleteKept /\ DrainIsFinal
============================================================================
