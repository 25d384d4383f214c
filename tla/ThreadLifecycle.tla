-------------------------- MODULE ThreadLifecycle --------------------------
(***************************************************************************)
(* Starting, joining and restarting one Thread: Thread::start(), wait(),   *)
(* setPriority() and the ends of threadBody(), on POSIX.                   *)
(*                                                                         *)
(* Any number of callers use the Thread object while the native threads it *)
(* created, one per run, pass through threadBody().  Three locks and flags *)
(* tie them together: mPriorityMutex, held by start() from the moment the  *)
(* run is announced until the handle is published, and by wait() across    *)
(* pthread_join(); mHasFinished with its condition variable, which wait()  *)
(* sleeps on without mPriorityMutex; and mJoinable, claimed by one joiner. *)
(*                                                                         *)
(* One action is one atomic access or one hold of a mutex.  What the loop  *)
(* does between its first and its last step is module ThreadLoop's.        *)
(***************************************************************************)
EXTENDS Naturals, FiniteSets

CONSTANTS
    Callers,      \* threads calling start(), wait() and setPriority()
    Priorities,   \* values of Thread::Priority other than InheritPriority
    Inherit,      \* InheritPriority
    Unheeded,     \* no priority: the system did not take the last one it was to have
    MaxRuns,      \* bound: native threads created in a behaviour
    StartsAlone,  \* no two threads are in start() at once
    WaitsApart,   \* no thread is in wait() while another is in start()
    None          \* a free mutex, an idle caller

ASSUME LifecycleAssumption ==
    /\ Inherit \notin Priorities
    /\ Unheeded \notin Priorities \cup {Inherit}
    /\ MaxRuns \in Nat \ {0}
    /\ StartsAlone \in BOOLEAN
    /\ WaitsApart \in BOOLEAN
    /\ None \notin Callers

Runs == 1 .. MaxRuns

VARIABLES
    mutex,        \* mPriorityMutex: the caller holding it, or None
    running,      \* ThreadData::mThreadRunning
    finishing,    \* mFinishing, what isFinished() reports
    hasFinished,  \* mHasFinished, what wait() sleeps on
    joinable,     \* mJoinable
    handle,       \* mThreadId: the run whose native thread it names; 0 before the first
    priority,     \* mPriority
    needsReset,   \* mPriorityNeedsReset
    native,       \* where each run's native thread is in threadBody()
    osPriority,   \* the priority the system took for it last; Unheeded: it took none
    call          \* what each caller is doing: the call, the step it is at, start()'s argument

object == <<running, finishing, hasFinished, joinable, handle, priority, needsReset>>
lifecycleVars == <<mutex, object, native, osPriority, call>>

-----------------------------------------------------------------------------
Idle == [op |-> "none", at |-> "idle", prio |-> Inherit]

Goes(c, step) == call' = [call EXCEPT ![c].at = step]

Returns(c) == call' = [call EXCEPT ![c] = Idle]

Created == {n \in Runs : native[n] # "none"}

Starting == {c \in Callers : call[c].op = "start"}
Waiting  == {c \in Callers : call[c].op \in {"wait", "timed wait"}}

MayStart == (StartsAlone => Starting = {}) /\ (WaitsApart => Waiting = {})
MayWait  == WaitsApart => Starting = {}

LifecycleInit ==
    /\ mutex = None
    /\ running = FALSE
    /\ finishing = FALSE
    /\ hasFinished = FALSE
    /\ joinable = FALSE
    /\ handle = 0
    /\ priority = Inherit
    /\ needsReset = FALSE
    /\ native = [n \in Runs |-> "none"]
    /\ osPriority = [n \in Runs |-> Inherit]
    /\ call = [c \in Callers |-> Idle]

-----------------------------------------------------------------------------
(* wait(), also the first half of start().                                 *)

Wait(c, op) ==
    /\ call[c] = Idle
    /\ MayWait
    /\ call' = [call EXCEPT ![c] = [Idle EXCEPT !.op = op, !.at = "claim"]]
    /\ UNCHANGED <<mutex, object, native, osPriority>>

\* wait() is over: its caller goes on with start(), or returns.
WaitReturns(c) == IF call[c].op = "start" THEN Goes(c, "launch") ELSE Returns(c)

\* Nothing to wait for, or on to the condition variable, without the mutex.
Claim(c) ==
    /\ call[c].at = "claim"
    /\ mutex = None
    /\ IF joinable THEN Goes(c, "check") ELSE WaitReturns(c)
    /\ UNCHANGED <<mutex, object, native, osPriority>>

\* The predicate, evaluated under mWaitMutex: false puts the caller to sleep.
Check(c) ==
    /\ call[c].at = "check"
    /\ Goes(c, IF hasFinished THEN "join" ELSE "asleep")
    /\ UNCHANGED <<mutex, object, native, osPriority>>

\* TimeOut() that does not look at what wait_for() returned.
TimeOutAndJoin(c) ==
    /\ call[c].op = "timed wait"
    /\ call[c].at = "asleep"
    /\ Goes(c, "join")
    /\ UNCHANGED <<mutex, object, native, osPriority>>

\* wait_for() gives up, unless the predicate holds by then.
TimeOut(c) ==
    /\ call[c].op = "timed wait"
    /\ call[c].at = "asleep"
    /\ IF hasFinished THEN Goes(c, "join") ELSE Returns(c)
    /\ UNCHANGED <<mutex, object, native, osPriority>>

\* Join() that gives mJoinable up before pthread_join() and joins unlocked.
JoinUnlocked(c) ==
    /\ call[c].at = "join"
    /\ mutex = None
    /\ IF joinable THEN Goes(c, "joining") ELSE WaitReturns(c)
    /\ joinable' = FALSE
    /\ UNCHANGED <<mutex, running, finishing, hasFinished, handle, priority, needsReset,
                   native, osPriority>>

\* One caller claims mJoinable, and keeps the mutex across pthread_join().
Join(c) ==
    /\ call[c].at = "join"
    /\ mutex = None
    /\ IF joinable
       THEN mutex' = c /\ Goes(c, "joining")
       ELSE WaitReturns(c) /\ UNCHANGED mutex
    /\ UNCHANGED <<object, native, osPriority>>

\* pthread_join() returns once the native thread is gone.
Joined(c) ==
    /\ call[c].at = "joining"
    /\ native[handle] = "exited"
    /\ native' = [native EXCEPT ![handle] = "joined"]
    /\ joinable' = FALSE
    /\ mutex' = None
    /\ WaitReturns(c)
    /\ UNCHANGED <<running, finishing, hasFinished, handle, priority, needsReset, osPriority>>

-----------------------------------------------------------------------------
(* start().                                                                *)

\* A running thread is left alone; one that has ended is waited for first.
Start(c, p) ==
    /\ call[c] = Idle
    /\ MayStart
    /\ Cardinality(Created) < MaxRuns
    /\ ~running
    /\ call' = [call EXCEPT ![c] = [op |-> "start", at |-> "claim", prio |-> p]]
    /\ UNCHANGED <<mutex, object, native, osPriority>>

\* The run is announced before its thread exists.
Launch(c) ==
    /\ call[c].at = "launch"
    /\ mutex = None
    /\ mutex' = c
    /\ running' = TRUE
    /\ finishing' = FALSE
    /\ hasFinished' = FALSE
    /\ needsReset' = FALSE
    /\ priority' = call[c].prio
    /\ Goes(c, "create")
    /\ UNCHANGED <<joinable, handle, native, osPriority>>

\* pthread_create(): the thread exists at the priority asked for, or inherits one and is
\* to fix it up itself; it inherits one for good when the policy or its range could not
\* be determined.  Or it cannot be created.
Create(c) ==
    /\ call[c].at = "create"
    /\ Cardinality(Created) < MaxRuns
    /\ LET n == Cardinality(Created) + 1 IN
         \E granted \in {call[c].prio, Inherit, Unheeded} :
             /\ call[c].prio = Inherit => granted = Inherit
             /\ needsReset' = (granted \notin {call[c].prio, Unheeded})
             /\ native' = [native EXCEPT ![n] = "fixup"]
             /\ osPriority' = [osPriority EXCEPT ![n] = granted]
    /\ Goes(c, "publish")
    /\ UNCHANGED <<mutex, running, finishing, hasFinished, joinable, handle, priority>>

CreateFails(c) ==
    /\ call[c].at = "create"
    /\ \E tried \in {FALSE, call[c].prio # Inherit} : needsReset' = tried
    /\ running' = FALSE
    /\ mutex' = None
    /\ Returns(c)
    /\ UNCHANGED <<finishing, hasFinished, joinable, handle, priority, native, osPriority>>

\* mThreadId and mJoinable are set, and the mutex is released.
Publish(c) ==
    /\ call[c].at = "publish"
    /\ handle' = Cardinality(Created)
    /\ joinable' = TRUE
    /\ mutex' = None
    /\ Returns(c)
    /\ UNCHANGED <<running, finishing, hasFinished, priority, needsReset, native, osPriority>>

-----------------------------------------------------------------------------
(* setPriority().                                                          *)

\* applyPriority(), which tells nobody when the system does not do as it is asked.
Apply(p) ==
    \E taken \in {p, Unheeded} : osPriority' = [osPriority EXCEPT ![handle] = taken]

\* Refused, and so without effect, when no run is on.
SetPriority(c, p) ==
    /\ call[c] = Idle
    /\ mutex = None
    /\ running
    /\ joinable
    /\ priority' = p
    /\ Apply(p)
    /\ UNCHANGED <<mutex, running, finishing, hasFinished, joinable, handle, needsReset,
                   native, call>>

-----------------------------------------------------------------------------
(* threadBody().                                                           *)

\* The thread's first step: a priority the kernel refused at creation is applied,
\* through mThreadId, under the mutex start() holds until it is published.
FixUp(n) ==
    /\ native[n] = "fixup"
    /\ mutex = None
    /\ needsReset' = FALSE
    /\ IF needsReset THEN Apply(priority) ELSE UNCHANGED osPriority
    /\ native' = [native EXCEPT ![n] = "body"]
    /\ UNCHANGED <<mutex, running, finishing, hasFinished, joinable, handle, priority, call>>

\* run() has returned, and the end of the run is reported under the mutex.
RunReturns(n) ==
    /\ native[n] = "body"
    /\ mutex = None
    /\ running' = FALSE
    /\ native' = [native EXCEPT ![n] = "ending"]
    /\ UNCHANGED <<mutex, finishing, hasFinished, joinable, handle, priority, needsReset,
                   osPriority, call>>

\* finished is emitted, the dispatcher closed, drained and let go.
Finish(n) ==
    /\ native[n] = "ending"
    /\ finishing' = TRUE
    /\ native' = [native EXCEPT ![n] = "finishing"]
    /\ UNCHANGED <<mutex, running, hasFinished, joinable, handle, priority, needsReset,
                   osPriority, call>>

ReleaseWaiters(n) ==
    /\ native[n] = "finishing"
    /\ hasFinished' = TRUE
    /\ native' = [native EXCEPT ![n] = "notifying"]
    /\ UNCHANGED <<mutex, running, finishing, joinable, handle, priority, needsReset,
                   osPriority, call>>

Sleepers == {c \in Callers : call[c].at = "asleep"}

\* notify_all()
Woken ==
    [c \in Callers |-> IF c \in Sleepers THEN [call[c] EXCEPT !.at = "check"] ELSE call[c]]

\* The sleepers are woken, under mWaitMutex, and the native thread ends.
NotifyWaiters(n) ==
    /\ native[n] = "notifying"
    /\ call' = Woken
    /\ native' = [native EXCEPT ![n] = "exited"]
    /\ UNCHANGED <<mutex, object, osPriority>>

-----------------------------------------------------------------------------
Proceed(c) ==
    \/ Claim(c)
    \/ Check(c)
    \/ Join(c)
    \/ Joined(c)
    \/ Launch(c)
    \/ Create(c)
    \/ CreateFails(c)
    \/ Publish(c)

Body(n) == FixUp(n) \/ RunReturns(n) \/ Finish(n) \/ ReleaseWaiters(n) \/ NotifyWaiters(n)

LifecycleNext ==
    \/ \E c \in Callers :
        \/ \E op \in {"wait", "timed wait"} : Wait(c, op)
        \/ \E p \in Priorities \cup {Inherit} : Start(c, p)
        \/ \E p \in Priorities : SetPriority(c, p)
        \/ TimeOut(c)
        \/ Proceed(c)
    \/ \E n \in Runs : Body(n)

LifecycleSpec == LifecycleInit /\ [][LifecycleNext]_lifecycleVars

\* Every thread that can take a step eventually does, and every run() returns (who
\* asks it to, and why it then obeys, is module ThreadLoop's subject).  Nobody is
\* obliged to call anything, and no timeout is obliged to strike.
FairSpec ==
    /\ LifecycleSpec
    /\ \A c \in Callers : WF_lifecycleVars(Proceed(c))
    /\ \A n \in Runs : WF_lifecycleVars(Body(n))

-----------------------------------------------------------------------------
(* Properties.                                                             *)

Step == {"idle", "claim", "check", "asleep", "join", "joining", "launch", "create", "publish"}

\* Every variable has its type.
LifecycleTypeOK ==
    /\ mutex \in Callers \cup {None}
    /\ running \in BOOLEAN /\ finishing \in BOOLEAN /\ hasFinished \in BOOLEAN
    /\ joinable \in BOOLEAN /\ needsReset \in BOOLEAN
    /\ handle \in Created \cup {0}
    /\ priority \in Priorities \cup {Inherit}
    /\ native \in [Runs -> {"none", "fixup", "body", "ending", "finishing", "notifying",
                            "exited", "joined"}]
    /\ osPriority \in [Runs -> Priorities \cup {Inherit, Unheeded}]
    /\ call \in [Callers -> [op : {"none", "start", "wait", "timed wait"}, at : Step,
                             prio : Priorities \cup {Inherit}]]

\* One run at a time, and none forgotten: a native thread that was created and not
\* joined is the one mThreadId names (or start() is about to name), so start() never
\* overwrites the handle of a thread nobody reaped.
Unreaped == {n \in Runs : native[n] \notin {"none", "joined"}}

OneUnreapedThread ==
    \A n \in Unreaped :
        \/ joinable /\ n = handle
        \/ ~joinable /\ Unreaped = {n} /\ \E c \in Callers : call[c].at = "publish"

\* "The pthread_join() that follows is only ever the already-finished kind": nobody
\* joins a thread that has yet to pass its own last step.  The joiner holds
\* mPriorityMutex, which such a thread still needs.
JoinsOnlyFinished ==
    \A c \in Callers : call[c].at = "joining" => native[handle] \in {"notifying", "exited"}

\* wait() returning true means the run is over and its thread reaped, whoever did the
\* reaping: a second waiter is not let go before pthread_join() is done.
WaitMeansReaped ==
    [][\A c \in Callers :
        /\ c \in Waiting
        /\ call'[c] = Idle
        /\ call[c].at # "asleep"
        => \A n \in Runs : native'[n] \in {"none", "joined"}]_lifecycleVars

\* While a run's body executes, what the system was last told to run it at is what
\* priority() reports, however start()'s fallback and setPriority() interleave: no older
\* request is left standing, and none goes to another run.  Whether the system obeyed
\* is not promised ("a successful call does not promise the thread's scheduling
\* actually changed", Thread.cpp:497).
PriorityIsTheLastAsked ==
    running /\ joinable /\ native[handle] = "body" => osPriority[handle] \in {priority, Unheeded}

\* No call hangs: every start() and every wait() returns.
EveryCallReturns == \A c \in Callers : call[c].op # "none" ~> call[c].op = "none"

\* A wait() returns, and finds what it waited for done: the run over and its thread reaped
\* (Thread.cpp:251, ThreadPosix.cpp:346).
WaitsReturnReaped == WaitMeansReaped /\ EveryCallReturns

\* mThreadId is right whenever it is used: it names the one thread nobody has reaped, is
\* joined only when that thread is over, and the priority kept beside it is the last one
\* asked for that thread (ThreadPosix.cpp, start(), wait() and setPriority()).
HandleIsRight == LifecycleTypeOK /\ OneUnreapedThread /\ JoinsOnlyFinished /\ PriorityIsTheLastAsked
============================================================================
