------------------------------ MODULE LoopWait ------------------------------
(***************************************************************************)
(* How an idle loop waits and how it is woken: EventDispatcherDefault's    *)
(* condition variable, EventDispatcherLinux's poll() over an eventfd and   *)
(* the registered descriptors, and EventDispatcherWin32's wait for an      *)
(* auto-reset event, or for a posted message when it has no event.         *)
(*                                                                         *)
(* Only mMutex makes steps one: what is done between taking it and giving  *)
(* it back is an action.  Everything else is a step of its own, above all  *)
(* the four steps of a wake-up (flag, descriptor, descriptor, flag), which *)
(* two threads interleave.  Batches, priorities and timers are modelled in *)
(* EventDispatcher: here a queue is what has to be noticed.                *)
(***************************************************************************)
EXTENDS Naturals, Sequences, FiniteSets, SequencesExt, Subsequences

CONSTANTS
    Others,            \* threads that are not the loop's
    Fds,               \* descriptor numbers registered as event sources
    NotifyFd,          \* the one of them that is SignalWatcher's
    Backends,          \* the dispatchers tried: some of AllBackends
    MaxSources,        \* kMaxEventSources
    MaxPosts,          \* bound: events posted
    MaxRequests,       \* bound: wakeUp() and interrupt() calls
    MaxRegistrations,  \* bound: calls of registerEventSource()
    MaxInput           \* the native message queue's length

Loop == "loop"
Threads == Others \cup {Loop}
AllBackends == {"condition-variable", "poll", "event", "message"}
Native == {"event", "message"}             \* EventDispatcherWin32

ASSUME LoopWaitAssumption ==
    /\ Loop \notin Others /\ NotifyFd \in Fds /\ Backends \subseteq AllBackends
    /\ {MaxSources, MaxInput} \subseteq Nat \ {0}
    /\ {MaxPosts, MaxRequests, MaxRegistrations} \subseteq Nat

VARIABLES
    backend,
    queue, wakeUpRequested, interrupted,    \* mEventQueue, mWakeUpRequested, mInterrupt
    sources, nextGeneration,                \* mSources, mNextGeneration
    pc, batch, ready,                       \* the loop's pass
    waker,                                  \* [Threads -> step of wakeWaiter()]
    wakeFd, wakePending,                    \* eventfd, event or message; mWakePending
    notified, input, readable,              \* external: mCv, messages, data on a descriptor
    called,                                 \* history: the last source called back
    refused,                                \* history: PostMessage() has failed
    left                                    \* what is left of the bounds

Source == [fd : Fds, generation : Nat]
Event == <<"event", 0>>
NoSource == [fd |-> "none", generation |-> 0]

queueVars == <<queue, wakeUpRequested, interrupted>>
sourceVars == <<sources, nextGeneration>>
passVars == <<pc, batch, ready, called>>
wakeVars == <<waker, wakeFd, wakePending, notified, refused>>
waitVars ==
    <<backend, queueVars, sourceVars, passVars, wakeVars, input, readable, left>>

Steps == {"idle", "notify", "exchange", "write", "undo"}
Phases == {"pass", "collect", "blocked", "read", "clear", "sources", "callback",
           "relock", "platform", "pump-clear", "dispatch"}

LoopWaitTypeOK ==
    /\ backend \in Backends /\ pc \in Phases /\ waker \in [Threads -> Steps]
    /\ {wakeUpRequested, interrupted, wakePending, notified, refused} \subseteq BOOLEAN
    /\ \A s \in Range(sources) \cup ready : s \in Source
    /\ wakeFd \in Nat /\ nextGeneration \in Nat /\ readable \subseteq Fds
    /\ Len(sources) <= MaxSources /\ Len(input) <= MaxInput

LoopWaitInit(bounds) ==
    /\ backend \in Backends
    /\ queue = <<>> /\ wakeUpRequested = FALSE /\ interrupted = FALSE
    /\ sources = <<>> /\ nextGeneration = 1
    /\ pc = "pass" /\ batch = <<>> /\ ready = {} /\ called = NoSource
    /\ waker = [t \in Threads |-> "idle"]
    /\ wakeFd = 0 /\ wakePending = FALSE /\ notified = FALSE
    /\ refused = FALSE /\ input = <<>> /\ readable = {}
    /\ left = bounds

\* What is called in one behaviour: posts and requests, or posts and sources.
Bounds == {[posts |-> MaxPosts, requests |-> MaxRequests, registrations |-> 0],
           [posts |-> 1, requests |-> 0, registrations |-> MaxRegistrations]}

Spend(what) == left[what] > 0 /\ left' = [left EXCEPT ![what] = @ - 1]

\* The loop's thread runs user code while it dispatches or calls a source back,
\* and before its loop runs; any other thread always does.
MayCall(t) ==
    /\ waker[t] = "idle"
    /\ t = Loop => pc \in {"pass", "dispatch", "callback"}

----------------------------------------------------------------------------
\* wakeWaiter(), called with mMutex released.

WakeWaiter(t) == waker' = [waker EXCEPT ![t] = "notify"]
StepsOn(t, step) == waker' = [waker EXCEPT ![t] = step]

Notify(t) ==
    /\ waker[t] = "notify"
    /\ notified' = (notified \/ (backend = "condition-variable" /\ pc = "blocked"))
    /\ StepsOn(t, IF backend = "condition-variable" THEN "idle" ELSE "exchange")
    /\ UNCHANGED <<backend, refused, queueVars, sourceVars, passVars, wakeFd, wakePending,
                   input, readable, left>>

Exchange(t) ==
    /\ waker[t] = "exchange"
    /\ wakePending' = TRUE
    /\ StepsOn(t, IF wakePending THEN "idle" ELSE "write")
    /\ UNCHANGED <<backend, refused, queueVars, sourceVars, passVars, wakeFd, notified,
                   input, readable, left>>

\* write() on the eventfd, SetEvent() or PostMessage(); the last fails on a full queue.
MessageQueueFull == backend = "message" /\ Len(input) + wakeFd >= MaxInput
Write(t) ==
    /\ waker[t] = "write"
    /\ wakeFd' = CASE MessageQueueFull   -> wakeFd
                   [] backend = "event" -> 1
                   [] OTHER             -> wakeFd + 1
    /\ refused' = (refused \/ MessageQueueFull)
    /\ StepsOn(t, IF MessageQueueFull THEN "undo" ELSE "idle")
    /\ UNCHANGED <<backend, queueVars, sourceVars, passVars, wakePending, notified,
                   input, readable, left>>

Undo(t) ==
    /\ waker[t] = "undo"
    /\ wakePending' = FALSE
    /\ StepsOn(t, "idle")
    /\ UNCHANGED <<backend, refused, queueVars, sourceVars, passVars, wakeFd, notified,
                   input, readable, left>>

WakeStep(t) == Notify(t) \/ Exchange(t) \/ Write(t) \/ Undo(t)

----------------------------------------------------------------------------
\* The calls that have to be noticed.

PostItem(t, item) ==
    /\ queue' = Append(queue, item)
    /\ WakeWaiter(t)

Post(t) ==
    /\ MayCall(t) /\ Spend("posts")
    /\ PostItem(t, Event)
    /\ UNCHANGED <<backend, refused, wakeUpRequested, interrupted, sourceVars, passVars,
                   wakeFd, wakePending, notified, input, readable>>

WakeUp(t) ==
    /\ MayCall(t) /\ Spend("requests")
    /\ wakeUpRequested' = TRUE /\ WakeWaiter(t)
    /\ UNCHANGED <<backend, refused, queue, interrupted, sourceVars, passVars, wakeFd,
                   wakePending, notified, input, readable>>

Interrupt(t) ==
    /\ MayCall(t) /\ Spend("requests")
    /\ interrupted' = TRUE /\ WakeWaiter(t)
    /\ UNCHANGED <<backend, refused, queue, wakeUpRequested, sourceVars, passVars, wakeFd,
                   wakePending, notified, input, readable>>

IndexOfFd(fd) == {i \in DOMAIN sources : sources[i].fd = fd}

\* Registering a descriptor again replaces its registration in place, under a
\* new generation; a full table refuses, and then nobody is woken.
AddSource(t, fd) ==
    LET source == [fd |-> fd, generation |-> nextGeneration]
        at == IndexOfFd(fd)
        full == at = {} /\ Len(sources) >= MaxSources
    IN  /\ nextGeneration' = nextGeneration + 1
        /\ sources' = IF full THEN sources
                      ELSE IF at = {} THEN Append(sources, source)
                      ELSE [i \in DOMAIN sources |-> IF i \in at THEN source ELSE sources[i]]
        /\ IF full THEN UNCHANGED waker ELSE WakeWaiter(t)

RegisterEventSource(t, fd) ==
    /\ backend = "poll" /\ MayCall(t) /\ Spend("registrations")
    /\ AddSource(t, fd)
    /\ UNCHANGED <<backend, refused, queueVars, passVars, wakeFd, wakePending, notified,
                   input, readable>>

RemoveSource(t, fd) ==
    /\ sources' = Picked(sources, {i \in Positions(sources) : sources[i].fd # fd})
    /\ IF IndexOfFd(fd) = {} THEN UNCHANGED waker ELSE WakeWaiter(t)

UnregisterEventSource(t, fd) ==
    /\ backend = "poll" /\ MayCall(t)
    /\ IndexOfFd(fd) # {}
    /\ RemoveSource(t, fd)
    /\ UNCHANGED <<backend, refused, queueVars, nextGeneration, passVars, wakeFd, wakePending,
                   notified, input, readable, left>>

\* External: data arrives on a descriptor, a message in the thread's queue.
BecomesReadable(fd) ==
    /\ IndexOfFd(fd) # {} /\ fd \notin readable
    /\ readable' = readable \cup {fd}
    /\ UNCHANGED <<backend, queueVars, sourceVars, passVars, wakeVars, input, left>>

InputArrives(message) ==
    /\ backend \in Native /\ Spend("requests")
    /\ Len(input) + wakeFd < MaxInput
    /\ input' = Append(input, message)
    /\ UNCHANGED <<backend, queueVars, sourceVars, passVars, wakeVars, readable>>

----------------------------------------------------------------------------
\* One pass of the loop: processEvents(WaitForMoreEvents).

LoopFree == waker[Loop] = "idle"

BeginPass ==
    /\ pc = "pass" /\ LoopFree
    /\ interrupted' = FALSE
    /\ pc' = IF interrupted THEN "pass" ELSE "collect"
    /\ UNCHANGED <<backend, queue, wakeUpRequested, sourceVars, batch, ready, called,
                   wakeVars, input, readable, left>>

\* The batch is taken in the hold of mMutex that found the queue not empty; an
\* interrupt that came since the pass began is consumed instead of it.
TakeBatch ==
    /\ interrupted' = FALSE
    /\ batch' = IF interrupted THEN <<>> ELSE queue
    /\ queue' = IF interrupted THEN queue ELSE <<>>
    /\ pc' = IF interrupted THEN "pass" ELSE "platform"

CollectWork ==
    /\ pc = "collect" /\ queue # <<>>
    /\ TakeBatch
    /\ UNCHANGED <<backend, wakeUpRequested, sourceVars, ready, called, wakeVars,
                   input, readable, left>>

\* waitForEvents(): the condition variable tests its predicate in this hold of
\* mMutex; the others copy what they poll and let go of it.
Predicate == queue # <<>> \/ interrupted \/ wakeUpRequested

BeginWait ==
    /\ pc = "collect" /\ queue = <<>>
    /\ ready' = Range(sources)
    /\ notified' = FALSE
    /\ pc' = IF backend = "condition-variable" /\ Predicate THEN "relock" ELSE "blocked"
    /\ UNCHANGED <<backend, refused, queueVars, sourceVars, batch, called, waker, wakeFd,
                   wakePending, input, readable, left>>

\* A notified waiter takes mMutex and tests again.
WakeFromCondition ==
    /\ pc = "blocked" /\ backend = "condition-variable" /\ notified
    /\ notified' = FALSE
    /\ pc' = IF Predicate THEN "relock" ELSE "blocked"
    /\ UNCHANGED <<backend, refused, queueVars, sourceVars, batch, ready, called, waker,
                   wakeFd, wakePending, input, readable, left>>

ReturnFromPoll ==
    /\ pc = "blocked" /\ backend = "poll"
    /\ wakeFd > 0 \/ \E s \in ready : s.fd \in readable
    /\ ready' = {s \in ready : s.fd \in readable}
    /\ pc' = IF wakeFd > 0 THEN "read" ELSE "sources"
    /\ UNCHANGED <<backend, queueVars, sourceVars, batch, called, wakeVars, input,
                   readable, left>>

\* drainWakeFd(): the descriptor first, the flag after it.
ReadWakeFd ==
    /\ pc = "read"
    /\ wakeFd' = 0
    /\ pc' = "clear"
    /\ UNCHANGED <<backend, refused, queueVars, sourceVars, batch, ready, called, waker,
                   wakePending, notified, input, readable, left>>

\* Mutant: the flag stays set over the emptied descriptor.
ClearWakePendingForgotten ==
    /\ pc = "clear"
    /\ pc' = IF backend = "poll" THEN "sources" ELSE "relock"
    /\ UNCHANGED <<backend, queueVars, sourceVars, batch, ready, called, wakeVars,
                   input, readable, left>>

ClearWakePending ==
    /\ pc = "clear"
    /\ wakePending' = FALSE
    /\ pc' = IF backend = "poll" THEN "sources" ELSE "relock"
    /\ UNCHANGED <<backend, refused, queueVars, sourceVars, batch, ready, called, waker,
                   wakeFd, notified, input, readable, left>>

\* MsgWaitForMultipleObjectsEx() takes the event, if that is what ended the wait.
ReturnFromMsgWait ==
    /\ pc = "blocked" /\ backend \in Native
    /\ wakeFd > 0 \/ input # <<>>
    /\ \/ backend = "event" /\ wakeFd > 0 /\ wakeFd' = 0
       \/ (backend = "event" => input # <<>>) /\ UNCHANGED wakeFd
    /\ pc' = IF backend = "event" THEN "clear" ELSE "relock"
    /\ UNCHANGED <<backend, refused, queueVars, sourceVars, batch, ready, called, waker,
                   wakePending, notified, input, readable, left>>

\* EINTR, a spurious wake of the condition variable, an APC: a wait with nothing
\* to return for is over.
ReturnForNothing ==
    /\ pc = "blocked"
    /\ wakeFd = 0 /\ input = <<>> /\ \A s \in ready : s.fd \notin readable
    /\ pc' = CASE backend = "event" -> "clear"
               [] backend = "condition-variable" /\ ~Predicate -> "blocked"
               [] OTHER -> "relock"
    /\ UNCHANGED <<backend, queueVars, sourceVars, batch, ready, called, wakeVars,
                   input, readable, left>>

\* callbackIfStillRegistered(), under mMutex; the callback then runs without it.
\* Mutant: the descriptor number taken for an identity.
IsStillRegisteredByNumber(source) == IndexOfFd(source.fd) # {}

IsStillRegistered(source) == source \in Range(sources)

CallSource(source) ==
    /\ pc = "sources" /\ LoopFree /\ source \in ready
    /\ ready' = ready \ {source}
    /\ IF IsStillRegistered(source)
       THEN /\ pc' = "callback"
            /\ called' = CHOOSE s \in Range(sources) : s.fd = source.fd
       ELSE UNCHANGED <<pc, called>>
    /\ UNCHANGED <<backend, queueVars, sourceVars, batch, wakeVars, input, readable, left>>

ReturnFromCallback ==
    /\ pc = "callback" /\ LoopFree /\ called.fd # NotifyFd
    /\ readable' \in {readable, readable \ {called.fd}}
    /\ pc' = "sources" /\ called' = NoSource
    /\ UNCHANGED <<backend, queueVars, sourceVars, batch, ready, wakeVars, input, left>>

SourcesDone ==
    /\ pc = "sources" /\ ready = {}
    /\ pc' = "relock"
    /\ UNCHANGED <<backend, queueVars, sourceVars, batch, ready, called, wakeVars,
                   input, readable, left>>

\* The wait has returned with mMutex held again.
Relock ==
    /\ pc = "relock"
    /\ wakeUpRequested' = FALSE /\ ready' = {}
    /\ TakeBatch
    /\ UNCHANGED <<backend, sourceVars, called, wakeVars, input, readable, left>>

\* processPlatformEvents() takes every message; its own clears the flag, WM_QUIT
\* interrupts, and the others are dispatched.
PumpMessage ==
    /\ pc = "platform" /\ LoopFree /\ backend \in Native
    /\ \/ /\ backend = "message" /\ wakeFd > 0
          /\ wakeFd' = wakeFd - 1 /\ pc' = "pump-clear"
          /\ UNCHANGED <<input, interrupted, waker>>
       \/ /\ input # <<>> /\ input' = Tail(input)
          /\ IF Head(input) = "quit"
             THEN interrupted' = TRUE /\ WakeWaiter(Loop) /\ pc' = "dispatch"
             ELSE UNCHANGED <<interrupted, waker, pc>>
          /\ UNCHANGED wakeFd
    /\ UNCHANGED <<backend, refused, queue, wakeUpRequested, sourceVars, batch, ready, called,
                   wakePending, notified, readable, left>>

PumpClears ==
    /\ pc = "pump-clear"
    /\ wakePending' = FALSE /\ pc' = "platform"
    /\ UNCHANGED <<backend, refused, queueVars, sourceVars, batch, ready, called, waker, wakeFd,
                   notified, input, readable, left>>

PumpDone ==
    /\ pc = "platform" /\ LoopFree
    /\ backend \in Native => input = <<>> /\ (backend = "message" => wakeFd = 0)
    /\ pc' = "dispatch"
    /\ UNCHANGED <<backend, queueVars, sourceVars, batch, ready, called, wakeVars,
                   input, readable, left>>

\* Mutant: the window procedure drops the message, as DefWindowProc() does.
ForeignLoopDropsWakeUp ==
    /\ pc = "dispatch" /\ LoopFree /\ backend = "message" /\ wakeFd > 0
    /\ wakeFd' = wakeFd - 1
    /\ UNCHANGED <<backend, refused, queueVars, sourceVars, passVars, waker, wakePending, notified,
                   input, readable, left>>

\* A handler runs a foreign message loop, which takes the wake-up message off
\* the queue: messageWindowProc() clears the flag for it.
ForeignLoopTakesWakeUp ==
    /\ pc = "dispatch" /\ LoopFree /\ backend = "message" /\ wakeFd > 0
    /\ wakeFd' = wakeFd - 1 /\ wakePending' = FALSE
    /\ UNCHANGED <<backend, refused, queueVars, sourceVars, passVars, waker, notified, input,
                   readable, left>>

\* Handlers are told from one another only by the modules that extend this one.
Dispatch(item) ==
    /\ pc = "dispatch" /\ LoopFree /\ batch # <<>> /\ Head(batch) = item
    /\ batch' = Tail(batch)
    /\ UNCHANGED <<backend, refused, sourceVars, pc, ready, called, wakeFd, wakePending,
                   notified, input, readable, left>>

DispatchEvent ==
    /\ Dispatch(Event)
    /\ UNCHANGED <<queueVars, waker>>

EndPass ==
    /\ pc = "dispatch" /\ LoopFree /\ batch = <<>>
    /\ pc' = "pass"
    /\ UNCHANGED <<backend, queueVars, sourceVars, batch, ready, called, wakeVars,
                   input, readable, left>>

LoopStep ==
    \/ BeginPass \/ CollectWork \/ BeginWait \/ WakeFromCondition \/ ReturnFromPoll
    \/ ReadWakeFd \/ ClearWakePending \/ ReturnFromMsgWait
    \/ \E source \in ready : CallSource(source)
    \/ ReturnFromCallback \/ SourcesDone \/ Relock
    \/ PumpMessage \/ PumpClears \/ PumpDone \/ DispatchEvent \/ EndPass

Calls(t) ==
    \/ Post(t) \/ WakeUp(t) \/ Interrupt(t)
    \/ \E fd \in Fds \ {NotifyFd} : RegisterEventSource(t, fd) \/ UnregisterEventSource(t, fd)

OutsideStep ==
    \/ \E t \in Threads : WakeStep(t)
    \/ \E t \in Others : Calls(t)
    \/ \E fd \in Fds \ {NotifyFd} : BecomesReadable(fd)
    \/ \E message \in {"input", "quit"} : InputArrives(message)

LoopThreadStep == LoopStep \/ ReturnForNothing \/ ForeignLoopTakesWakeUp \/ Calls(Loop)

----------------------------------------------------------------------------
\* A loop asleep with work to do has its wake-up on the way: the descriptor,
\* event or message is there, a message keeps the wait from sleeping, or a thread
\* is still in wakeWaiter() and will write.  The wake-up is one flag and one
\* descriptor that each side writes in two steps, and a flag left set over an
\* empty descriptor silences every later one (EventDispatcherLinux.cpp:264-304,
\* EventDispatcherWin32.cpp:256-292).  wakeUp() promises to end a wait under way:
\* the message of one that came before the wait may be pumped before it.  A message
\* refused by a full queue is let off: the flag is put back too late for a thread
\* that found it set meanwhile.
HasWork ==
    /\ ~refused
    /\ queue # <<>> \/ interrupted \/ (wakeUpRequested /\ backend # "message")
WakeOnItsWay ==
    \/ wakeFd > 0 \/ input # <<>> \/ notified
    \/ \E t \in Others :
          waker[t] \in {"notify", "write"} \/ (waker[t] = "exchange" /\ ~wakePending)
Asleep == pc = "blocked" /\ HasWork
WorkWakesTheLoop == Asleep => WakeOnItsWay

\* What the loop polls for is what is registered, or it is being told otherwise:
\* a source registered from another thread is not left for the next wake-up to
\* find (EventDispatcherLinux.cpp:108-114).
SourcesArePolled ==
    pc = "blocked" /\ backend = "poll" /\ ready # Range(sources) => WakeOnItsWay

\* No sleeping loop is left with something to notice: work, or a source it does not poll.
WakeIsNotLost == LoopWaitTypeOK /\ WorkWakesTheLoop /\ SourcesArePolled

\* A callback runs only for the registration whose descriptor was polled: one
\* unregistered and registered again under the same number in between, on any
\* thread, is not called for the old one's readiness
\* (EventDispatcherLinux.cpp:246-261).
CallsWhatWasPolled ==
    [][called' # called /\ called' # NoSource => called' \in ready]_waitVars
============================================================================
