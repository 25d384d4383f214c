------------------------------ MODULE Affinity ------------------------------
(***************************************************************************)
(* Which thread an object lives on, and what has to follow when that       *)
(* changes: Object::moveToThread() with the sweep of posted events and the *)
(* hand-over of timers, the posting that resolves the affinity at the same *)
(* time on another thread, and callLater() with its registry.              *)
(*                                                                         *)
(* The affinity is one atomic pointer.  A poster reads it, fetches that    *)
(* thread's dispatcher (or parks) and queues the event: three steps.  The  *)
(* mover takes the timers, swaps the pointer, sweeps the old queue and     *)
(* re-posts what it finds, one event at a time.  A thread works on one     *)
(* call at a time, op[t]; it calls from what its loop delivers.            *)
(*                                                                         *)
(* queue[t] stands for t's queue and the batches of its passes, which a    *)
(* sweep empties together, the queue first; in what order it hands their   *)
(* events over is not modelled.  Nor are deadlines: a timer is registered  *)
(* or it is not.  The ends of threads are ThreadLoop's, the ends of        *)
(* objects Signal's: no thread ends here and no object dies.  Children     *)
(* move as their parent does, each on its own, before it.                  *)
(***************************************************************************)
EXTENDS Naturals, FiniteSets, SequencesExt, Subsequences

CONSTANTS
    Threads,    \* threads, each with its ThreadData
    Objects,    \* objects without a parent
    TimerIds,   \* ids of TimerIdPool
    None,       \* no thread, no node, nothing
    MaxPosts,   \* bound: calls posted
    MaxLater,   \* bound: calls of callLater()
    MaxMoves,   \* bound: moves of an object
    MaxSweeps,  \* kMaxSweeps
    Careful     \* the application keeps the rules Allowed and MayKill state

ASSUME AffinityAssumption ==
    /\ {MaxPosts, MaxLater, MaxMoves, MaxSweeps} \subseteq Nat
    /\ MaxSweeps > 0
    /\ Careful \in BOOLEAN
    /\ None \notin Threads \cup Objects \cup TimerIds /\ None \notin Nat

VARIABLES
    loop,      \* "unstarted", "coming" (running, no dispatcher yet) or "up"
    home,      \* Affinity::mData of each object
    queue,     \* what each thread's dispatcher holds
    parked,    \* ThreadData::mParkedEvents
    timerAt,   \* TimerRegistrations: whose each id is, on each thread's dispatcher
    ids,       \* Extras::mRunningTimerIds
    pool,      \* TimerIdPool: ids that may be issued
    pending,   \* CallLaterRegistry::sPending: the node of each object's key
    invoker,   \* CallLaterNode::mInvoker: the call each node would make; 0 is none
    op,        \* what each thread is in the middle of
    outcome,   \* auxiliary: what became of each posted call
    later,     \* callLater() calls made
    moves,     \* how often each object's affinity was swapped
    abandoned  \* auxiliary: nodes whose event a move to no thread deleted

posted == <<queue, parked>>
clocks == <<timerAt, ids, pool>>
registry == <<pending, invoker, later, abandoned>>
affinityVars == <<loop, home, posted, clocks, registry, op, outcome, moves>>

-----------------------------------------------------------------------------
(* Events.  arg is a posted call's number, a callLater node, or the ids to *)
(* register again; stray says that the event was queued or parked at a     *)
(* thread its object had already left.                                     *)

Event(o, kind, arg) == [to |-> o, kind |-> kind, arg |-> arg, stray |-> FALSE]
NoEvent == Event(None, "none", 0)

Events ==
    LET Of(kind, args) == [to : Objects, kind : {kind}, arg : args, stray : BOOLEAN]
    IN Of("call", 1 .. MaxPosts) \cup Of("later", 1 .. MaxLater) \cup Of("timers", SUBSET TimerIds)

Idle == [at |-> "idle", ev |-> NoEvent, data |-> None, taken |-> <<>>, timers |-> {},
         sweeps |-> 0, fresh |-> FALSE, value |-> 0]

Calling(t) == loop[t] = "up" /\ op[t].at = "idle"
Goes(t, step) == op' = [op EXCEPT ![t] = step]
Done(t) == Goes(t, Idle)

Landed(e, t) == [e EXCEPT !.stray = home[e.to] # t]

Settle(c, how) == outcome' = [outcome EXCEPT ![c] = how]

AffinityInit ==
    /\ loop \in [Threads -> {"unstarted", "up"}]
    /\ home \in [Objects -> {t \in Threads : loop[t] = "up"}]
    /\ queue = [t \in Threads |-> <<>>]
    /\ parked = [t \in Threads |-> <<>>]
    /\ timerAt = [t \in Threads |-> [i \in TimerIds |-> None]]
    /\ ids = [o \in Objects |-> {}]
    /\ pool = TimerIds
    /\ pending = [o \in Objects |-> None]
    /\ invoker = [n \in 1 .. MaxLater |-> 0]
    /\ op = [t \in Threads |-> Idle]
    /\ outcome = <<>>
    /\ later = 0
    /\ moves = [o \in Objects |-> 0]
    /\ abandoned = {}

-----------------------------------------------------------------------------
(* Threads coming up.                                                      *)

\* start(): the running flag is up before there is a dispatcher.
Start(t) ==
    /\ loop[t] = "unstarted"
    /\ loop' = [loop EXCEPT ![t] = "coming"]
    /\ UNCHANGED <<home, posted, clocks, registry, op, outcome, moves>>

\* setDispatcher(): what was parked is handed over.
Install(t) ==
    /\ loop[t] = "coming"
    /\ loop' = [loop EXCEPT ![t] = "up"]
    /\ queue' = [queue EXCEPT ![t] = @ \o parked[t]]
    /\ parked' = [parked EXCEPT ![t] = <<>>]
    /\ UNCHANGED <<home, clocks, registry, op, outcome, moves>>

-----------------------------------------------------------------------------
(* Posting.                                                                *)

\* A posted call was refused, and its poster told so; a callLater() that could not
\* be dispatched takes its registry entry out again; timers are given up.
Refused(t) ==
    LET e == op[t].ev IN
    /\ Goes(t, IF e.kind = "later" THEN [op[t] EXCEPT !.at = "unlist"] ELSE Idle)
    /\ IF e.kind = "call" THEN Settle(e.arg, "refused") ELSE UNCHANGED outcome

\* An emission, or any other post, of a call to o.
BeginPost(t, o) ==
    /\ Calling(t)
    /\ Len(outcome) < MaxPosts
    /\ outcome' = Append(outcome, "open")
    /\ Goes(t, [Idle EXCEPT !.at = "resolve", !.ev = Event(o, "call", Len(outcome) + 1)])
    /\ UNCHANGED <<loop, home, posted, clocks, registry, moves>>

\* The affinity is read, once.
Resolve(t) ==
    LET e == op[t].ev IN
    /\ op[t].at = "resolve"
    /\ IF home[e.to] = None
       THEN Refused(t)
       ELSE /\ Goes(t, [op[t] EXCEPT !.at = "fetch", !.data = home[e.to]])
            /\ UNCHANGED outcome
    /\ UNCHANGED <<loop, home, posted, clocks, registry, moves>>

\* postEventTo(): a thread that runs has a dispatcher or parks; one that does not, refuses.
Fetch(t) ==
    LET d == op[t].data IN
    /\ op[t].at = "fetch"
    /\ \/ /\ loop[d] = "up"
          /\ Goes(t, [op[t] EXCEPT !.at = "land"])
          /\ UNCHANGED <<parked, outcome>>
       \/ /\ loop[d] = "coming"
          /\ parked' = [parked EXCEPT ![d] = Append(@, Landed(op[t].ev, d))]
          /\ Done(t)
          /\ UNCHANGED outcome
       \/ /\ loop[d] = "unstarted"
          /\ Refused(t)
          /\ UNCHANGED parked
    /\ UNCHANGED <<loop, home, queue, clocks, registry, moves>>

\* postEvent() of the dispatcher that was fetched.
Land(t) ==
    /\ op[t].at = "land"
    /\ queue' = [queue EXCEPT ![op[t].data] = Append(@, Landed(op[t].ev, op[t].data))]
    /\ Done(t)
    /\ UNCHANGED <<loop, home, parked, clocks, registry, outcome, moves>>

-----------------------------------------------------------------------------
(* callLater().                                                            *)

\* The registry is asked for the key, under its mutex; a first call makes a node.
CallLater(t, o) ==
    LET n == later + 1
        fresh == pending[o] = None
    IN
    /\ Calling(t)
    /\ later < MaxLater
    /\ later' = n
    /\ pending' = [pending EXCEPT ![o] = IF fresh THEN n ELSE @]
    /\ Goes(t, [Idle EXCEPT !.at = "arm", !.ev = Event(o, "later", pending'[o]), !.fresh = fresh,
                            !.value = n])
    /\ UNCHANGED <<loop, home, posted, clocks, invoker, outcome, moves, abandoned>>

\* The node is given this call, under its own mutex, in place of any before it.
Arm(t) ==
    /\ op[t].at = "arm"
    /\ invoker' = [invoker EXCEPT ![op[t].ev.arg] = op[t].value]
    /\ IF op[t].fresh THEN Goes(t, [Idle EXCEPT !.at = "resolve", !.ev = op[t].ev]) ELSE Done(t)
    /\ UNCHANGED <<loop, home, posted, clocks, pending, outcome, later, moves, abandoned>>

\* Unlist() that leaves the entry.
UnlistNothing(t) ==
    /\ op[t].at = "unlist"
    /\ Done(t)
    /\ UNCHANGED <<loop, home, posted, clocks, registry, outcome, moves>>

\* The call could not be dispatched: the next one must find no entry.
Unlist(t) ==
    /\ op[t].at = "unlist"
    /\ pending' = [pending EXCEPT ![op[t].ev.to] = None]
    /\ Done(t)
    /\ UNCHANGED <<loop, home, posted, clocks, invoker, outcome, later, moves, abandoned>>

-----------------------------------------------------------------------------
(* Delivery: t's loop takes its next event.                                *)

Takes(t, kind) ==
    /\ Calling(t)
    /\ queue[t] # <<>>
    /\ Head(queue[t]).kind = kind
    /\ queue' = [queue EXCEPT ![t] = Tail(@)]

Deliver(t) ==
    /\ Takes(t, "call")
    /\ Settle(Head(queue[t]).arg, "ran")
    /\ UNCHANGED <<loop, home, parked, clocks, registry, op, moves>>

\* A deferred call frees its key, ...
DeliverLater(t) ==
    /\ Takes(t, "later")
    /\ pending' = [pending EXCEPT ![Head(queue[t]).to] = None]
    /\ Goes(t, [Idle EXCEPT !.at = "disarm", !.ev = Head(queue[t])])
    /\ UNCHANGED <<loop, home, parked, clocks, invoker, outcome, later, moves, abandoned>>

\* ... takes what the node holds by now, and calls it.
Disarm(t) ==
    /\ op[t].at = "disarm"
    /\ invoker' = [invoker EXCEPT ![op[t].ev.arg] = 0]
    /\ Done(t)
    /\ UNCHANGED <<loop, home, posted, clocks, pending, outcome, later, moves, abandoned>>

\* What moveSelfToThread() queued: the timers start again where the object lives.  That
\* is read and the timers registered in one step, for only t moves an object away from t.
DeliverTimers(t) ==
    LET e == Head(queue[t])
        h == home[e.to]
    IN
    /\ Takes(t, "timers")
    /\ IF h # None /\ loop[h] = "up"
       THEN timerAt' = [timerAt EXCEPT ![h] =
                          [i \in TimerIds |-> IF i \in e.arg THEN e.to ELSE @[i]]]
       ELSE UNCHANGED timerAt
    /\ UNCHANGED <<loop, home, parked, ids, pool, registry, op, outcome, moves>>

-----------------------------------------------------------------------------
(* Timers, on the object's own thread.                                     *)

RegisteredAt(t, o) == {i \in TimerIds : timerAt[t][i] = o}

StartTimer(t, o, i) ==
    /\ Calling(t)
    /\ home[o] = t
    /\ i \in pool
    /\ pool' = pool \ {i}
    /\ timerAt' = [timerAt EXCEPT ![t][i] = o]
    /\ ids' = [ids EXCEPT ![o] = @ \cup {i}]
    /\ UNCHANGED <<loop, home, posted, registry, op, outcome, moves>>

\* A careful application kills no timer that is on its way to a thread, and none of
\* another object.
MayKill(t, o, i) == Careful => timerAt[t][i] = o

\* Only an id the object holds goes back to the pool; whose timer it is is not asked.
KillTimer(t, o, i) ==
    /\ Calling(t)
    /\ home[o] = t
    /\ i \in TimerIds \ pool
    /\ MayKill(t, o, i)
    /\ ids' = [ids EXCEPT ![o] = @ \ {i}]
    /\ timerAt' = [timerAt EXCEPT ![t][i] = None]
    /\ pool' = IF i \in ids[o] THEN pool \cup {i} ELSE pool
    /\ UNCHANGED <<loop, home, posted, registry, op, outcome, moves>>

-----------------------------------------------------------------------------
(* moveToThread().                                                         *)

Moving(o) == {t \in Threads : op[t].at \in {"swap", "sweep", "repost", "forget"} /\ op[t].ev.to = o}
HandingTimers(o) == {t \in Threads : op[t].ev.kind = "timers" /\ op[t].ev.to = o}

\* A careful application does not move an object whose last move is still going on, nor
\* one with timers to a thread that was not started; and it clears no affinity while
\* timers are on their way.
Allowed(t, o, d) ==
    Careful =>
        /\ Moving(o) \cup HandingTimers(o) = {}
        /\ d \in Threads /\ ids[o] # {} => loop[d] # "unstarted"
        /\ d = None => ids[o] \subseteq RegisteredAt(t, o)

\* Pushed by its own thread, or adopted by the caller when it has none; the timers
\* leave the old dispatcher first.
BeginMove(t, o, d) ==
    LET taken == RegisteredAt(t, o) IN
    /\ Calling(t)
    /\ d # home[o]
    /\ home[o] = t \/ (home[o] = None /\ d = t)
    /\ moves[o] < MaxMoves
    /\ Allowed(t, o, d)
    /\ timerAt' = [timerAt EXCEPT ![t] =
                      [i \in TimerIds |-> IF home[o] = t /\ i \in taken THEN None ELSE @[i]]]
    /\ Goes(t, [Idle EXCEPT !.at = "swap", !.ev = Event(o, "move", 0), !.data = d,
                            !.timers = IF home[o] = t THEN taken ELSE {}])
    /\ UNCHANGED <<loop, home, posted, ids, pool, registry, outcome, moves>>

\* The timers follow by an event of their own, or are given up with the affinity.
AfterSweeps(t) ==
    LET m == op[t] IN
    IF m.timers = {} THEN Idle
    ELSE IF m.data = None THEN [Idle EXCEPT !.at = "forget", !.ev = m.ev, !.timers = m.timers]
    ELSE [Idle EXCEPT !.at = "resolve", !.ev = Event(m.ev.to, "timers", m.timers)]

\* The affinity is swapped; without an old dispatcher there is nothing to sweep.
Swap(t) ==
    LET o == op[t].ev.to IN
    /\ op[t].at = "swap"
    /\ home' = [home EXCEPT ![o] = op[t].data]
    /\ moves' = [moves EXCEPT ![o] = @ + 1]
    /\ Goes(t, IF home[o] = None THEN AfterSweeps(t) ELSE [op[t] EXCEPT !.at = "sweep"])
    /\ UNCHANGED <<loop, posted, clocks, registry, outcome>>

\* takeEventsForReceiver(), until it finds nothing or has been called often enough.
Sweep(t) ==
    LET ours == {k \in Positions(queue[t]) : queue[t][k].to = op[t].ev.to}
        taken == Picked(queue[t], ours)
    IN
    /\ op[t].at = "sweep"
    /\ queue' = [queue EXCEPT ![t] = Picked(@, Positions(@) \ ours)]
    /\ Goes(t, IF taken = <<>> THEN AfterSweeps(t)
               ELSE [op[t] EXCEPT !.at = "repost", !.taken = taken, !.sweeps = @ + 1])
    /\ UNCHANGED <<loop, home, parked, clocks, registry, outcome, moves>>

AfterRepost(t) ==
    LET m == [op[t] EXCEPT !.taken = Tail(@)] IN
    IF m.taken # <<>> THEN m
    ELSE IF m.sweeps < MaxSweeps THEN [m EXCEPT !.at = "sweep"]
    ELSE AfterSweeps(t)

\* dispatcherOrPark(), and no admission: the event was admitted once already.
Repost(t) ==
    LET d == op[t].data
        e == Landed(Head(op[t].taken), op[t].data)
    IN
    /\ op[t].at = "repost"
    /\ d # None
    /\ IF loop[d] = "up"
       THEN queue' = [queue EXCEPT ![d] = Append(@, e)] /\ UNCHANGED parked
       ELSE parked' = [parked EXCEPT ![d] = Append(@, e)] /\ UNCHANGED queue
    /\ Goes(t, AfterRepost(t))
    /\ UNCHANGED <<loop, home, clocks, registry, outcome, moves>>

\* Moved to no thread: the events are deleted.
Drop(t) ==
    LET e == Head(op[t].taken) IN
    /\ op[t].at = "repost"
    /\ op[t].data = None
    /\ IF e.kind = "call" THEN Settle(e.arg, "dropped") ELSE UNCHANGED outcome
    /\ abandoned' = IF e.kind = "later" THEN abandoned \cup {e.arg} ELSE abandoned
    /\ Goes(t, AfterRepost(t))
    /\ UNCHANGED <<loop, home, posted, clocks, pending, invoker, later, moves>>

\* ForgetTimers() that leaves the object's own record.
ReleaseOnly(t) ==
    /\ op[t].at = "forget"
    /\ pool' = pool \cup op[t].timers
    /\ Done(t)
    /\ UNCHANGED <<loop, home, posted, timerAt, ids, registry, outcome, moves>>

\* No thread will serve the timers: the object forgets their ids, the pool has them back.
ForgetTimers(t) ==
    /\ op[t].at = "forget"
    /\ ids' = [ids EXCEPT ![op[t].ev.to] = @ \ op[t].timers]
    /\ pool' = pool \cup op[t].timers
    /\ Done(t)
    /\ UNCHANGED <<loop, home, posted, timerAt, registry, outcome, moves>>

-----------------------------------------------------------------------------
AffinityNext ==
    \E t \in Threads :
        \/ Start(t) \/ Install(t)
        \/ Resolve(t) \/ Fetch(t) \/ Land(t)
        \/ Arm(t) \/ Unlist(t) \/ Disarm(t)
        \/ Deliver(t) \/ DeliverLater(t) \/ DeliverTimers(t)
        \/ Swap(t) \/ Sweep(t) \/ Repost(t) \/ Drop(t) \/ ForgetTimers(t)
        \/ \E o \in Objects :
            \/ BeginPost(t, o)
            \/ CallLater(t, o)
            \/ \E i \in TimerIds : StartTimer(t, o, i) \/ KillTimer(t, o, i)
            \/ \E d \in Threads \cup {None} : BeginMove(t, o, d)

AffinitySpec == AffinityInit /\ [][AffinityNext]_affinityVars

-----------------------------------------------------------------------------
(* Properties.                                                             *)

OpRecords ==
    [at : {"idle", "resolve", "fetch", "land", "arm", "unlist", "disarm", "swap", "sweep",
           "repost", "forget"},
     ev : Events \cup {NoEvent} \cup {Event(o, "move", 0) : o \in Objects},
     data : Threads \cup {None},
     taken : Seq(Events),
     timers : SUBSET TimerIds,
     sweeps : 0 .. MaxSweeps,
     fresh : BOOLEAN,
     value : 0 .. MaxLater]

\* Every variable holds values of its type; a move sweeps no oftener than it may.
AffinityTypeOK ==
    /\ loop \in [Threads -> {"unstarted", "coming", "up"}]
    /\ home \in [Objects -> Threads \cup {None}]
    /\ queue \in [Threads -> Seq(Events)]
    /\ parked \in [Threads -> Seq(Events)]
    /\ timerAt \in [Threads -> [TimerIds -> Objects \cup {None}]]
    /\ ids \in [Objects -> SUBSET TimerIds]
    /\ pool \subseteq TimerIds
    /\ pending \in [Objects -> 1 .. MaxLater \cup {None}]
    /\ invoker \in [1 .. MaxLater -> 0 .. MaxLater]
    /\ op \in [Threads -> OpRecords]
    /\ \A t \in Threads : op[t].at = "sweep" => op[t].sweeps < MaxSweeps
    /\ outcome \in Seq({"open", "ran", "refused", "dropped"})
    /\ Len(outcome) <= MaxPosts
    /\ later \in 0 .. MaxLater
    /\ moves \in [Objects -> 0 .. MaxMoves]
    /\ abandoned \subseteq 1 .. MaxLater

\* Where an event may be: queued or parked at a thread, or in the hands of a thread that
\* posts or moves it.
Lines == {"queued", "parked", "taken", "held"}
Line(t) ==
    [queued |-> queue[t], parked |-> parked[t], taken |-> op[t].taken,
     held |-> IF op[t].at \in {"resolve", "fetch", "land"} THEN <<op[t].ev>> ELSE <<>>]
Held(t) == UNION {ToSet(Line(t)[l]) : l \in Lines}

IsCall(e, c) == e.kind = "call" /\ e.arg = c
CallPlaces(c) ==
    UNION {{<<t, l, k>> : k \in {j \in Positions(Line(t)[l]) : IsCall(Line(t)[l][j], c)}} :
              t \in Threads, l \in Lines}

\* No call is lost or runs twice, whatever is swept, parked, handed over or refused
\* meanwhile: it is in one place until it has run, was refused to its poster, or was
\* deleted because its receiver moved to no thread.  And "a queued call posted just
\* before the move" runs where the object lives now: what was queued or parked where the
\* object lived is not left there, once the mover is done.  (What a poster that had read
\* the old affinity queues after that is left there: a stray.)
CallsAreInOnePlace ==
    \A c \in DOMAIN outcome :
        Cardinality(CallPlaces(c)) = IF outcome[c] = "open" THEN 1 ELSE 0

EventsFollow ==
    \A t \in Threads : \A e \in ToSet(queue[t]) \cup ToSet(parked[t]) :
        ~e.stray => home[e.to] = t \/ t \in Moving(e.to)

EventsAreKept == AffinityTypeOK /\ CallsAreInOnePlace /\ EventsFollow

\* "Leaving it behind is what made this failure permanent": an entry of the registry has
\* an event on its way that will take it out, or a caller about to send one or to take
\* it out itself; else no callLater() would ever call that slot again.  And the event has
\* something to call.  (The exception is an event that a move to no thread has deleted.)
Handles(t, n) == op[t].ev.kind = "later" /\ op[t].ev.arg = n
Arming(n) == {t \in Threads : op[t].at = "arm" /\ op[t].fresh /\ Handles(t, n)}

PendingWillRun ==
    \A o \in Objects :
        pending[o] # None =>
            /\ \/ pending[o] \in abandoned
               \/ Arming(pending[o]) # {}
               \/ \E t \in Threads :
                    \/ op[t].at = "unlist" /\ Handles(t, pending[o])
                    \/ \E e \in Held(t) : e.to = o /\ e.kind = "later" /\ e.arg = pending[o]
            /\ Arming(pending[o]) = {} => invoker[pending[o]] # 0

\* No call and no callLater() slot is lost to a move, a refusal or a sweep: an event runs
\* or is deleted exactly once and follows its object, and a slot that is pending will be
\* called (ThreadData.cpp, Object.cpp: postToThread(), moveToThread(), callLater()).
WorkIsKept == EventsAreKept /\ PendingWillRun

\* Where timer i of object o is: registered with a dispatcher, taken by a mover, or in
\* the event that will register it again.
TimerPlaces(o, i) ==
    {<<"registered", t>> : t \in {u \in Threads : timerAt[u][i] = o}}
        \cup {<<"taken", t>> : t \in {u \in Threads : i \in op[u].timers /\ op[u].ev.to = o}}
        \cup {<<"sent", t>> : t \in {u \in Threads :
                  \E e \in Held(u) : e.kind = "timers" /\ e.to = o /\ i \in e.arg}}

\* moveSelfToThread() has it that timers are "stopped in the current thread and restarted,
\* with the same interval, in the targetThread": while its object lives on a thread, a
\* running timer is nowhere lost.
RunningTimersAreKept ==
    \A o \in Objects : home[o] # None => \A i \in ids[o] : TimerPlaces(o, i) # {}

\* Nor is it in two places, so that it ran twice; nor does it run on after it was killed,
\* or where its object does not live, or under an id the pool may issue again.
TimersAreWhereTheyBelong ==
    /\ RunningTimersAreKept
    /\ \A o \in Objects, i \in TimerIds :
        /\ Cardinality(TimerPlaces(o, i)) <= 1
        /\ TimerPlaces(o, i) # {} => i \in ids[o]
        /\ \A t \in Threads : timerAt[t][i] = o => home[o] = t
    /\ \A i \in TimerIds : Cardinality({o \in Objects : i \in ids[o]})
                               = IF i \in pool THEN 0 ELSE 1
=============================================================================
