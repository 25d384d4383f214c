--------------------------- MODULE SignalWatcher ---------------------------
(***************************************************************************)
(* SignalWatcher: a shutdown request of the operating system, turned into  *)
(* one emission on the loop LoopWait waits with.  On Linux a handler writes*)
(* its signal into a pipe, or a signalfd is read, and the descriptor is an *)
(* event source; on Windows a console handler runs on a thread of its own, *)
(* posts to the loop and waits for it.                                     *)
(*                                                                         *)
(* A signal comes at any moment, between any two statements of the watcher:*)
(* its constructor and stopWatching() are as many steps as they have       *)
(* process-wide effects.  The kernel's part (dispositions, the mask, the   *)
(* console) is external.                                                   *)
(***************************************************************************)
EXTENDS LoopWait, FiniteSetsExt

CONSTANTS
    MaxWatchers,  \* bound: watchers made, one after another
    MaxSignals    \* bound: signals and console events that arrive

ASSUME SignalWatcherAssumption ==
    {MaxWatchers, MaxSignals} \subseteq Nat

VARIABLES
    mode,          \* how the watchers receive; "none" in a program without one
    watcher,       \* the living watcher, and what has become of the request
    handlerFd,     \* gHandlerWriteFd: the watcher whose pipe it is, or 0
    console,       \* gHandlerMutex's state
    kernel         \* external: dispositions, pending signals, running handlers

Signals == {"INT", "TERM"}      \* kWatchedSignals
NoWatcher == 0
ModeOf == [none |-> AllBackends, Handler |-> {"poll"}, SignalFd |-> {"poll"},
           Console |-> Native]

watcherVars == <<mode, watcher, handlerFd, console, kernel>>
vars == <<waitVars, watcherVars>>

WatcherState ==
    [id : Nat, phase : {"none", "registered", "published", "half-installed", "watching",
                        "stopping", "restored"},
     delivered : BOOLEAN,           \* mDelivered
     saved : [Signals -> {"default", "handler"}],  \* gSavedActions
     acknowledging : BOOLEAN,       \* deliverFromConsole() after deliver()
     emitted : Nat,                 \* history: emissions of this watcher
     asked : BOOLEAN]               \* history: a request was taken for it

ConsoleState ==
    [installed : BOOLEAN,           \* SetConsoleCtrlHandler()
     holder : Threads \cup {"nobody"},  \* who has gHandlerMutex between steps
     watcher : Nat, delivering : BOOLEAN, acknowledged : BOOLEAN,
     handler : [Others -> {"idle", "called", "posting", "waiting", "heard", "gave-up"}],
     told : [Others -> Nat]]        \* history: the watcher a handler posted to

TypeOK ==
    /\ LoopWaitTypeOK
    /\ watcher \in WatcherState /\ console \in ConsoleState
    /\ kernel.disposition \in [Signals -> {"default", "handler"}]
    /\ handlerFd \in Nat

NewWatcher(id, phase) ==
    [id |-> id, phase |-> phase, delivered |-> FALSE, acknowledging |-> FALSE,
     saved |-> [s \in Signals |-> "default"],
     emitted |-> 0, asked |-> FALSE]

Init ==
    /\ mode \in DOMAIN ModeOf
    /\ \E bounds \in Bounds :
          LoopWaitInit(IF mode = "none" THEN bounds
                       ELSE [posts |-> 0, requests |-> 0, registrations |-> 0])
    /\ backend \in ModeOf[mode]
    /\ watcher = NewWatcher(NoWatcher, "none")
    /\ handlerFd = NoWatcher
    /\ console = [installed |-> FALSE, holder |-> "nobody", watcher |-> NoWatcher,
                  delivering |-> FALSE, acknowledged |-> FALSE,
                  handler |-> [t \in Others |-> "idle"], told |-> [t \in Others |-> NoWatcher]]
    /\ kernel = [disposition |-> [s \in Signals |-> "default"],
                 blocked |-> mode = "SignalFd", pending |-> {}, pipe |-> <<>>,
                 running |-> {}, killed |-> FALSE, signals |-> 0]

----------------------------------------------------------------------------
\* The watcher, on the loop's thread.

Running == ~kernel.killed
Settled == watcher.phase \in {"none", "watching"} /\ ~watcher.acknowledging
LoopCalls == Running /\ Settled /\ MayCall(Loop)

\* SignalWatcher(): one at a time; a table with no room for its source refuses it.
MayConstruct ==
    /\ LoopCalls
    /\ watcher.phase = "none" /\ watcher.id < MaxWatchers

HasRoom == IndexOfFd(NotifyFd) # {} \/ Len(sources) < MaxSources

RegisterNotifyFd(phase) ==
    /\ AddSource(Loop, NotifyFd)
    /\ watcher' = [NewWatcher(watcher.id + 1, IF HasRoom THEN phase ELSE "none")
                       EXCEPT !.asked = kernel.pending # {}]
    /\ UNCHANGED <<backend, refused, queueVars, passVars, wakeFd, wakePending, notified, input,
                   left, mode, handlerFd, console>>

StartHandlerMode ==
    /\ mode = "Handler" /\ MayConstruct
    /\ RegisterNotifyFd("registered")
    /\ UNCHANGED <<readable, kernel>>

\* Mutant: the handler is not given its descriptor.
PublishHandlerFdForgotten ==
    /\ Running /\ watcher.phase = "registered"
    /\ watcher' = [watcher EXCEPT !.phase = "published"]
    /\ UNCHANGED <<waitVars, mode, handlerFd, console, kernel>>

PublishHandlerFd ==
    /\ Running /\ watcher.phase = "registered"
    /\ handlerFd' = watcher.id
    /\ watcher' = [watcher EXCEPT !.phase = "published"]
    /\ UNCHANGED <<waitVars, mode, console, kernel>>

\* sigaction() for one signal after the other.
InstallHandler(s) ==
    /\ Running
    /\ \/ s = "INT" /\ watcher.phase = "published"
       \/ s = "TERM" /\ watcher.phase = "half-installed"
    /\ kernel' = [kernel EXCEPT !.disposition[s] = "handler"]
    /\ watcher' = [watcher EXCEPT !.saved[s] = kernel.disposition[s],
                                  !.phase = IF s = "INT" THEN "half-installed" ELSE "watching"]
    /\ UNCHANGED <<waitVars, mode, handlerFd, console>>

\* The signals have to be blocked already; what is pending is readable at once.
StartSignalFdMode ==
    /\ mode = "SignalFd" /\ kernel.blocked /\ MayConstruct
    /\ RegisterNotifyFd("watching")
    /\ readable' = IF kernel.pending # {} /\ HasRoom THEN readable \cup {NotifyFd} ELSE readable
    /\ UNCHANGED kernel

StartConsoleHandler ==
    /\ mode = "Console" /\ MayConstruct /\ console.holder = "nobody"
    /\ console' = [console EXCEPT !.installed = TRUE, !.watcher = watcher.id + 1,
                                  !.delivering = FALSE, !.acknowledged = FALSE]
    /\ watcher' = NewWatcher(watcher.id + 1, "watching")
    /\ UNCHANGED <<waitVars, mode, handlerFd, kernel>>

Receiving == {"published", "half-installed", "watching"}

Deliver(w) == [w EXCEPT !.delivered = TRUE, !.emitted = @ + 1]

\* onNotifyFdReady(): empties the descriptor and reports once.  A signalfd gives
\* the default behaviour back by unblocking.
OnNotifyFdReady ==
    /\ Running /\ Settled /\ LoopFree /\ pc = "callback" /\ called.fd = NotifyFd
    /\ LET arrived == kernel.pending # {} \/ kernel.pipe # <<>>
           reports == arrived /\ ~watcher.delivered
       IN  /\ watcher' = IF reports THEN Deliver(watcher) ELSE watcher
           /\ kernel' = [kernel EXCEPT !.pending = {}, !.pipe = <<>>,
                                       !.blocked = @ /\ ~reports]
    /\ readable' = readable \ {NotifyFd}
    /\ pc' = "sources" /\ called' = NoSource
    /\ UNCHANGED <<backend, queueVars, sourceVars, batch, ready, wakeVars, input, left,
                   mode, handlerFd, console>>

\* stopWatching(): the handler loses its descriptor, the dispositions come back
\* unless the first signal has been reported, the source goes.
StopPublishing ==
    /\ LoopCalls /\ watcher.phase = "watching"
    /\ handlerFd' = NoWatcher
    /\ watcher' = [watcher EXCEPT !.phase = "stopping"]
    /\ console' = [console EXCEPT !.installed = FALSE]
    /\ UNCHANGED <<waitVars, mode, kernel>>

RestoreDispositions ==
    /\ Running /\ mode \in {"Handler", "SignalFd"} /\ watcher.phase = "stopping"
    /\ kernel' = IF mode = "Handler" /\ ~watcher.delivered
                 THEN [kernel EXCEPT !.disposition = watcher.saved]
                 ELSE kernel
    /\ watcher' = [watcher EXCEPT !.phase = "restored"]
    /\ UNCHANGED <<waitVars, mode, handlerFd, console>>

CloseNotifyFd ==
    /\ Running /\ watcher.phase = "restored"
    /\ RemoveSource(Loop, NotifyFd)
    /\ readable' = readable \ {NotifyFd}
    /\ kernel' = [kernel EXCEPT !.pipe = <<>>]
    /\ watcher' = [watcher EXCEPT !.phase = "none"]
    /\ UNCHANGED <<backend, refused, queueVars, nextGeneration, passVars, wakeFd, wakePending,
                   notified, input, left, mode, handlerFd, console>>

\* The watcher's destructor takes its posted call with it (Object::~Object()).
ReleaseConsole ==
    /\ Running /\ mode = "Console" /\ watcher.phase = "stopping" /\ console.holder = "nobody"
    /\ console' = [console EXCEPT !.watcher = NoWatcher, !.acknowledged = TRUE]
    /\ watcher' = [watcher EXCEPT !.phase = "none"]
    /\ queue' = Picked(queue, {k \in Positions(queue) : queue[k] = Event})
    /\ batch' = Picked(batch, {k \in Positions(batch) : batch[k] = Event})
    /\ UNCHANGED <<backend, wakeUpRequested, interrupted, sourceVars, pc, ready, called,
                   wakeVars, input, readable, left, mode, handlerFd, kernel>>

----------------------------------------------------------------------------
\* Signals, handled on whatever thread the kernel picks.

Signalled == kernel.signals < MaxSignals /\ Running

SignalArrives(s) ==
    /\ Signalled /\ mode \in {"Handler", "SignalFd"}
    /\ kernel' = [kernel EXCEPT
           !.signals = @ + 1,
           !.disposition[s] = "default",            \* SA_RESETHAND
           !.running = IF kernel.disposition[s] = "handler" THEN @ \cup {<<s, handlerFd>>} ELSE @,
           !.pending = IF kernel.blocked THEN @ \cup {s} ELSE @,
           !.killed = ~kernel.blocked /\ kernel.disposition[s] = "default"]
    /\ watcher' = [watcher EXCEPT !.asked = @ \/ (watcher.phase \in Receiving /\ ~kernel'.killed)]
    /\ readable' = IF kernel.blocked /\ watcher.phase = "watching"
                   THEN readable \cup {NotifyFd} ELSE readable
    /\ UNCHANGED <<backend, queueVars, sourceVars, passVars, wakeVars, input, left,
                   mode, handlerFd, console>>

\* signalHandler() writes to the descriptor it has read.  One that is closed by
\* now is a number that may be anybody's; one that is -1 is not written to.
HandlerWrites(h) ==
    LET open == h[2] = watcher.id /\ watcher.phase # "none" IN
    /\ Running /\ h \in kernel.running
    /\ kernel' = [kernel EXCEPT !.running = @ \ {h},
                                !.pipe = IF open THEN Append(@, h[1]) ELSE @]
    /\ readable' = IF open THEN readable \cup {NotifyFd} ELSE readable
    /\ UNCHANGED <<backend, queueVars, sourceVars, passVars, wakeVars, input, left,
                   mode, watcher, handlerFd, console>>

----------------------------------------------------------------------------
\* Console events: the handler runs on a thread Windows makes for each.

ConsoleEvent(t) ==
    /\ Signalled /\ mode = "Console" /\ console.handler[t] = "idle"
    /\ kernel' = [kernel EXCEPT !.signals = @ + 1, !.killed = ~console.installed]
    /\ console' = IF console.installed THEN [console EXCEPT !.handler[t] = "called"] ELSE console
    /\ UNCHANGED <<waitVars, mode, watcher, handlerFd>>

\* FALSE lets the default handler end the process: there is no watcher, or this
\* is the second request.
ConsoleRefuses(t) ==
    /\ Running /\ console.handler[t] = "called" /\ console.holder = "nobody"
    /\ console.watcher = NoWatcher \/ console.delivering
    /\ kernel' = [kernel EXCEPT !.killed = TRUE]
    /\ UNCHANGED <<waitVars, mode, watcher, handlerFd, console>>

ConsolePosts(t) ==
    /\ Running /\ console.handler[t] = "called" /\ console.holder = "nobody"
    /\ waker[t] = "idle" /\ console.watcher # NoWatcher /\ ~console.delivering
    /\ console' = [console EXCEPT !.delivering = TRUE, !.acknowledged = FALSE, !.holder = t,
                                  !.handler[t] = "posting", !.told[t] = console.watcher]
    /\ watcher' = [watcher EXCEPT !.asked = TRUE]
    /\ PostItem(t, <<"deliver", console.watcher>>)
    /\ UNCHANGED <<backend, refused, wakeUpRequested, interrupted, sourceVars, passVars, wakeFd,
                   wakePending, notified, input, readable, left, mode, handlerFd, kernel>>

ConsoleWaits(t) ==
    /\ Running /\ console.handler[t] = "posting" /\ waker[t] = "idle"
    /\ console' = [console EXCEPT !.handler[t] = "waiting", !.holder = "nobody"]
    /\ UNCHANGED <<waitVars, mode, watcher, handlerFd, kernel>>

\* TRUE, after the acknowledgement or after kAckTimeout.
ConsoleReturns(t) ==
    /\ Running /\ console.handler[t] = "waiting" /\ console.holder = "nobody"
    /\ \E how \in {"heard", "gave-up"} :
          /\ how = "heard" => console.acknowledged
          /\ console' = [console EXCEPT !.handler[t] = how]
    /\ UNCHANGED <<waitVars, mode, watcher, handlerFd, kernel>>

\* deliverFromConsole() on the loop: the slots, then the acknowledgement.
DeliverFromConsole ==
    /\ Running /\ Settled /\ \E id \in 1 .. MaxWatchers : Dispatch(<<"deliver", id>>)
    /\ watcher' = [IF watcher.delivered THEN watcher ELSE Deliver(watcher)
                      EXCEPT !.acknowledging = TRUE]
    /\ UNCHANGED <<queueVars, waker, mode, handlerFd, console, kernel>>

Acknowledge ==
    /\ Running /\ watcher.acknowledging /\ console.holder = "nobody"
    /\ console' = [console EXCEPT !.acknowledged = TRUE]
    /\ watcher' = [watcher EXCEPT !.acknowledging = FALSE]
    /\ UNCHANGED <<waitVars, mode, handlerFd, kernel>>

----------------------------------------------------------------------------
WatcherStep ==
    \/ PublishHandlerFd \/ \E s \in Signals : InstallHandler(s)
    \/ OnNotifyFdReady \/ RestoreDispositions \/ CloseNotifyFd \/ ReleaseConsole
    \/ \E h \in kernel.running : HandlerWrites(h)
    \/ \E t \in Others : ConsolePosts(t) \/ ConsoleWaits(t) \/ ConsoleReturns(t)
    \/ DeliverFromConsole \/ Acknowledge

LoopWaitMoves ==
    /\ Running
    /\ OutsideStep \/ (Settled /\ LoopThreadStep)
    /\ UNCHANGED watcherVars

Next ==
    \/ WatcherStep \/ LoopWaitMoves
    \/ StartHandlerMode \/ StartSignalFdMode \/ StartConsoleHandler \/ StopPublishing
    \/ \E s \in Signals : SignalArrives(s)
    \/ \E t \in Others : ConsoleEvent(t) \/ ConsoleRefuses(t)

\* A thread in wakeWaiter() or in a handler goes on, and so does the watcher's
\* constructor or destructor; the loop goes on, and a wait with something to
\* return for returns.  Nobody has to post, and nothing has to interrupt a wait.
Fairness ==
    /\ WF_vars(WatcherStep)
    /\ WF_vars(Running /\ Settled /\ LoopStep /\ UNCHANGED watcherVars)
    /\ \A t \in Threads : WF_vars(Running /\ WakeStep(t) /\ UNCHANGED watcherVars)

Spec == Init /\ [][Next]_vars /\ Fairness

----------------------------------------------------------------------------
\* getTriggered() is emitted at most once for a watcher, however many signals,
\* signal kinds and console events come, in whatever passes their bytes are read;
\* and only for a watcher that was asked (SignalWatcher.hpp: "It also means
\* getTriggered() is emitted at most once per watcher").
TriggeredOnce == TypeOK /\ watcher.emitted <= (IF watcher.asked THEN 1 ELSE 0)

\* A request taken by the watcher is never lost between its steps: until it is
\* reported it is in a handler that will write it to this watcher's pipe, in the
\* pipe with the loop told so, pending in the signalfd, or posted
\* (SignalWatcherPosix.cpp:223-225, 345-403).
RequestIsHeld ==
    watcher.asked /\ watcher.phase \in Receiving =>
        \/ watcher.delivered
        \/ \E h \in kernel.running : h[2] = watcher.id
        \/ kernel.pipe # <<>> /\ NotifyFd \in readable
        \/ kernel.pending # {} /\ NotifyFd \in readable
        \/ <<"deliver", watcher.id>> \in Range(queue) \cup Range(batch)

\* Windows ends the process soon after the console handler returns, so it may say
\* it has heard only when the slots have run or the watcher has gone
\* (SignalWatcherWin.cpp:288-306).
HandlerHeardTheSlots ==
    \A t \in Others : console.handler[t] = "heard" /\ console.told[t] = watcher.id =>
        watcher.delivered \/ watcher.phase = "none"

\* A request taken while the loop sleeps wakes it and is reported, unless the
\* watcher is destroyed or the process killed.
RequestIsReported ==
    watcher.asked /\ watcher.phase = "watching" ~>
        watcher.delivered \/ watcher.phase # "watching" \/ kernel.killed

\* Every event posted is taken: no interleaving of posters with a loop falling
\* asleep or waking up leaves it asleep over one for good (a message refused by a
\* full queue apart).
PostsAreTaken == queue # <<>> /\ ~refused ~> queue = <<>> \/ refused \/ kernel.killed

\* "On the first delivery the watched signals go back to their default
\* disposition, so a second Ctrl+C terminates the process" (SignalWatcher.hpp):
\* all of them, as the member's comment says again ("the next one terminates the
\* process even if the shutdown is stuck").
NextSignalKills ==
    mode = "Handler" /\ watcher.delivered =>
        \A s \in Signals : kernel.disposition[s] = "default"

\* A shutdown request is kept and told once: held through the steps of the handler, the pipe
\* and the watcher's own construction, emitted at most once, and acknowledged to the system
\* only when the slots have run.
RequestsAreKept == TriggeredOnce /\ RequestIsHeld /\ HandlerHeardTheSlots

\* What was sent to the loop arrives: posted events, and requests.
LoopIsReached == PostsAreTaken /\ RequestIsReported
============================================================================
