----------------------------- MODULE ThreadLoop -----------------------------
(***************************************************************************)
(* Getting a task to a thread that may be starting, running, finishing or  *)
(* starting again: Thread::exec(), exit(), post() and invokeAndWait(), the *)
(* middle of threadBody(), and ThreadData, which parks what arrives before *)
(* there is a dispatcher to post it to.                                    *)
(*                                                                         *)
(* Posting is three steps of the caller: read isThreadRunning(); under     *)
(* ThreadData's mutex, fetch the dispatcher or park; under the             *)
(* dispatcher's, queue or be refused.  The thread's body takes its own     *)
(* steps in between.  A dispatcher is shared: one that the thread has let  *)
(* go of lives on while a caller holds it, and frees what is left in its   *)
(* queue with the last reference.                                          *)
(*                                                                         *)
(* Here an event is a task, of one priority; the order in which a pass     *)
(* runs events is module EventDispatcher's subject, and reaping a run      *)
(* before the next is started is module ThreadLifecycle's.  run() is the   *)
(* default one, which is exec().  exit() follows interrupt() by wakeUp(),  *)
(* which cannot matter to a pass that is already interrupted.              *)
(***************************************************************************)
EXTENDS Integers, SequencesExt

CONSTANTS
    Callers,  \* threads that post, invoke and exit
    MaxCalls, \* bound: calls of one caller
    Ops,      \* bound: which of post, invoke and exit each caller calls
    MaxRuns,  \* bound: runs of the thread, counting those that could not be created
    MayFail   \* the system may refuse to create a native thread

ASSUME LoopAssumption ==
    /\ MaxCalls \in Nat
    /\ MaxRuns \in Nat
    /\ MayFail \in BOOLEAN
    /\ Ops \in [Callers -> SUBSET {"post", "invoke", "exit"}]

Runs == 1 .. MaxRuns

\* A task is its poster and the number of the call that brought it.
Tasks == Callers \X (1 .. MaxCalls)

VARIABLES
    running,    \* ThreadData::mThreadRunning
    exiting,    \* Thread::mExiting
    dispatcher, \* ThreadData::mDispatcher: the run that installed it; 0 is null
    parked,     \* ThreadData::mParkedEvents
    loop,       \* where the thread's body is
    run,        \* runs begun; the current one's number
    handing,    \* setDispatcher()'s local: parked tasks taken out and not yet posted
    batch,      \* processEvents()'s local: the tasks of the pass, not yet run
    queue,      \* each dispatcher's mEventQueue
    accepting,  \* each dispatcher's mAcceptingEvents
    interrupt,  \* each dispatcher's mInterrupt
    call,       \* what each caller is doing
    calls,      \* calls each caller has made
    ran,        \* the tasks run, in that order
    refused,    \* the tasks refused to their callers
    discarded,  \* the tasks freed with their dispatcher
    waited      \* auxiliary: tasks that were ever parked

data == <<running, exiting, dispatcher, parked>>
body == <<loop, run, handing, batch>>
dispatchers == <<queue, accepting, interrupt>>
outcome == <<ran, refused, discarded>>
vars == <<data, body, dispatchers, call, calls, outcome, waited>>

-----------------------------------------------------------------------------
Idle == [op |-> "none", at |-> "idle", ready |-> FALSE, target |-> 0]

Task(c) == <<c, calls[c]>>

Goes(c, step) == call' = [call EXCEPT ![c].at = step]
Returns(c) == call' = [call EXCEPT ![c] = Idle]

\* The event is accepted: post() returns, invokeAndWait() waits.
Accepted(c) ==
    IF call[c].op = "invoke" THEN [call[c] EXCEPT !.at = "await", !.target = 0] ELSE Idle

\* c lets go of dispatcher g; the last reference destroys it, and frees what is queued.
DropReference(c, g) ==
    IF dispatcher # g /\ \A d \in Callers \ {c} : call[d].target # g
    THEN /\ discarded' = discarded \cup ToSet(queue[g])
         /\ queue' = [queue EXCEPT ![g] = <<>>]
    ELSE UNCHANGED <<discarded, queue>>

Init ==
    /\ running = FALSE
    /\ exiting = FALSE
    /\ dispatcher = 0
    /\ parked = <<>>
    /\ loop = "off"
    /\ run = 0
    /\ handing = <<>>
    /\ batch = <<>>
    /\ queue = [g \in Runs |-> <<>>]
    /\ accepting = [g \in Runs |-> TRUE]
    /\ interrupt = [g \in Runs |-> FALSE]
    /\ call = [c \in Callers |-> Idle]
    /\ calls = [c \in Callers |-> 0]
    /\ ran = <<>>
    /\ refused = {}
    /\ discarded = {}
    /\ waited = {}

-----------------------------------------------------------------------------
(* The thread.                                                             *)

\* start(): running is published first, then the last run's exit request forgotten.
Start ==
    /\ loop = "off"
    /\ ~running
    /\ run < MaxRuns
    /\ running' = TRUE
    /\ loop' = "announced"
    /\ UNCHANGED <<exiting, dispatcher, parked, run, handing, batch, dispatchers, call, calls,
                   outcome, waited>>

Launch ==
    /\ loop = "announced"
    /\ exiting' = FALSE
    /\ run' = run + 1
    /\ \/ loop' = "created" /\ UNCHANGED running
       \/ MayFail /\ loop' = "off" /\ running' = FALSE \* pthread_create() fails
    /\ UNCHANGED <<dispatcher, parked, handing, batch, dispatchers, call, calls, outcome,
                   waited>>

\* setDispatcher() that copies the parked events.
InstallCopying ==
    /\ loop = "created"
    /\ dispatcher' = run
    /\ handing' = parked
    /\ loop' = "handing over"
    /\ UNCHANGED <<running, exiting, parked, run, batch, dispatchers, call, calls, outcome,
                   waited>>

\* setDispatcher(): the parked events are taken out under the mutex ...
Install ==
    /\ loop = "created"
    /\ dispatcher' = run
    /\ handing' = parked
    /\ parked' = <<>>
    /\ loop' = "handing over"
    /\ UNCHANGED <<running, exiting, run, batch, dispatchers, call, calls, outcome, waited>>

\* HandOver() from the wrong end.
HandOverBackwards ==
    /\ loop = "handing over"
    /\ IF handing = <<>>
       THEN loop' = "check" /\ UNCHANGED <<handing, queue>>
       ELSE /\ queue' = [queue EXCEPT ![run] = Append(@, Last(handing))]
            /\ handing' = Front(handing)
            /\ UNCHANGED loop
    /\ UNCHANGED <<data, run, batch, accepting, interrupt, call, calls, outcome, waited>>

\* ... and posted one by one after it is released.  Then started is emitted.
HandOver ==
    /\ loop = "handing over"
    /\ IF handing = <<>>
       THEN loop' = "check" /\ UNCHANGED <<handing, queue>>
       ELSE /\ queue' = [queue EXCEPT ![run] = Append(@, Head(handing))]
            /\ handing' = Tail(handing)
            /\ UNCHANGED loop
    /\ UNCHANGED <<data, run, batch, accepting, interrupt, call, calls, outcome, waited>>

\* exec(): another pass, or out.
CheckExit ==
    /\ loop = "check"
    /\ loop' = IF exiting THEN "ending" ELSE "pass"
    /\ UNCHANGED <<data, run, handing, batch, dispatchers, call, calls, outcome, waited>>

\* What a pass does with the queue in front of it: an interrupt is consumed and ends
\* the pass before anything is taken.
TakeOrLeave ==
    IF interrupt[run]
    THEN /\ interrupt' = [interrupt EXCEPT ![run] = FALSE]
         /\ loop' = "check"
         /\ UNCHANGED <<queue, batch>>
    ELSE /\ batch' = queue[run]
         /\ queue' = [queue EXCEPT ![run] = <<>>]
         /\ loop' = "dispatch"
         /\ UNCHANGED interrupt

Wakeable == interrupt[run] \/ queue[run] # <<>>

\* processEvents(): nothing to do puts it to sleep.
Pass ==
    /\ loop = "pass"
    /\ IF Wakeable THEN TakeOrLeave
       ELSE loop' = "asleep" /\ UNCHANGED <<queue, batch, interrupt>>
    /\ UNCHANGED <<data, run, handing, accepting, call, calls, outcome, waited>>

WakeUp ==
    /\ loop = "asleep"
    /\ Wakeable
    /\ TakeOrLeave
    /\ UNCHANGED <<data, run, handing, accepting, call, calls, outcome, waited>>

\* The batch in order, then back to exec().  The callable, and the guard in it, is
\* destroyed when it has run.
Dispatch ==
    /\ loop = "dispatch"
    /\ IF batch = <<>>
       THEN loop' = "check" /\ UNCHANGED <<batch, ran>>
       ELSE ran' = Append(ran, Head(batch)) /\ batch' = Tail(batch) /\ UNCHANGED loop
    /\ UNCHANGED <<data, run, handing, dispatchers, call, calls, refused, discarded, waited>>

\* The end of the run is reported ...
ReportEnd ==
    /\ loop = "ending"
    /\ running' = FALSE
    /\ loop' = "closing"
    /\ UNCHANGED <<exiting, dispatcher, parked, run, handing, batch, dispatchers, call, calls,
                   outcome, waited>>

\* ... the queue closed (and drained of deferred deletes) ...
CloseQueue ==
    /\ loop = "closing"
    /\ accepting' = [accepting EXCEPT ![run] = FALSE]
    /\ loop' = "letting go"
    /\ UNCHANGED <<data, run, handing, batch, queue, interrupt, call, calls, outcome, waited>>

\* LetGo() of a dispatcher whose destructor leaks what is queued.
LetGoLeaking ==
    /\ loop = "letting go"
    /\ dispatcher' = 0
    /\ loop' = "off"
    /\ UNCHANGED <<running, exiting, parked, run, handing, batch, dispatchers, call, calls,
                   outcome, waited>>

\* ... and the dispatcher let go of.
LetGo ==
    /\ loop = "letting go"
    /\ dispatcher' = 0
    /\ loop' = "off"
    /\ IF \A c \in Callers : call[c].target # run
       THEN /\ discarded' = discarded \cup ToSet(queue[run])
            /\ queue' = [queue EXCEPT ![run] = <<>>]
       ELSE UNCHANGED <<discarded, queue>>
    /\ UNCHANGED <<running, exiting, parked, run, handing, batch, accepting, interrupt, call,
                   calls, ran, refused, waited>>

-----------------------------------------------------------------------------
(* The callers.                                                            *)

\* post() or invokeAndWait(): is the thread coming up?
Post(c, op) ==
    /\ call[c] = Idle
    /\ op \in Ops[c]
    /\ calls[c] < MaxCalls
    /\ calls' = [calls EXCEPT ![c] = @ + 1]
    /\ call' = [call EXCEPT ![c] = [op |-> op, at |-> "route", ready |-> running, target |-> 0]]
    /\ UNCHANGED <<data, body, dispatchers, outcome, waited>>

ToDispatcher(c) ==
    /\ call' = [call EXCEPT ![c].at = "post", ![c].target = dispatcher]
    /\ UNCHANGED <<parked, refused, waited>>

Park(c) ==
    /\ parked' = Append(parked, Task(c))
    /\ waited' = waited \cup {Task(c)}
    /\ call' = [call EXCEPT ![c] = Accepted(c)]
    /\ UNCHANGED refused

Refuse(c) ==
    /\ refused' = refused \cup {Task(c)}
    /\ Returns(c)

\* Route() that parks on a thread that is not coming up, and still says no.
RouteParking(c) ==
    /\ call[c].at = "route"
    /\ IF dispatcher # 0 THEN ToDispatcher(c)
       ELSE IF call[c].ready THEN Park(c)
       ELSE Refuse(c) /\ parked' = Append(parked, Task(c)) /\ UNCHANGED waited
    /\ UNCHANGED <<running, exiting, dispatcher, body, dispatchers, calls, ran, discarded>>

\* postEventTo(): without a dispatcher, an event is parked for a thread that was seen
\* coming up, and refused otherwise.
Route(c) ==
    /\ call[c].at = "route"
    /\ IF dispatcher # 0 THEN ToDispatcher(c)
       ELSE IF call[c].ready THEN Park(c)
       ELSE Refuse(c) /\ UNCHANGED <<parked, waited>>
    /\ UNCHANGED <<running, exiting, dispatcher, body, dispatchers, calls, ran, discarded>>

\* postEvent() on the dispatcher fetched: queued, or refused by a closed queue; the
\* reference is dropped, and perhaps the dispatcher with it.
PostTo(c) ==
    /\ call[c].at = "post"
    /\ LET g == call[c].target IN
         IF accepting[g]
         THEN /\ queue' = [queue EXCEPT ![g] = Append(@, Task(c))]
              /\ call' = [call EXCEPT ![c] = Accepted(c)]
              /\ UNCHANGED <<refused, discarded>>
         ELSE /\ Refuse(c)
              /\ DropReference(c, g)
    /\ UNCHANGED <<data, body, accepting, interrupt, calls, ran, waited>>

\* BlockingCall::wait(): the guard settled it, by running or by being destroyed.
Settled(c) ==
    /\ call[c].at = "await"
    /\ Task(c) \in ToSet(ran) \cup discarded
    /\ Returns(c)
    /\ UNCHANGED <<data, body, dispatchers, calls, outcome, waited>>

\* exit(): the flag first ...
Exit(c) ==
    /\ call[c] = Idle
    /\ "exit" \in Ops[c]
    /\ calls[c] < MaxCalls
    /\ calls' = [calls EXCEPT ![c] = @ + 1]
    /\ exiting' = TRUE
    /\ call' = [call EXCEPT ![c] = [Idle EXCEPT !.op = "exit", !.at = "fetch"]]
    /\ UNCHANGED <<running, dispatcher, parked, body, dispatchers, outcome, waited>>

\* ... then the dispatcher, if there is one, is fetched ...
FetchDispatcher(c) ==
    /\ call[c].at = "fetch"
    /\ IF dispatcher = 0 THEN Returns(c)
       ELSE call' = [call EXCEPT ![c].at = "interrupt", ![c].target = dispatcher]
    /\ UNCHANGED <<data, body, dispatchers, calls, outcome, waited>>

\* ... and interrupted.
Interrupt(c) ==
    /\ call[c].at = "interrupt"
    /\ interrupt' = [interrupt EXCEPT ![call[c].target] = TRUE]
    /\ DropReference(c, call[c].target)
    /\ Returns(c)
    /\ UNCHANGED <<data, body, accepting, calls, ran, refused, waited>>

-----------------------------------------------------------------------------
Body ==
    \/ Launch
    \/ Install
    \/ HandOver
    \/ CheckExit
    \/ Pass
    \/ WakeUp
    \/ Dispatch
    \/ ReportEnd
    \/ CloseQueue
    \/ LetGo

Proceed(c) ==
    \/ Route(c)
    \/ PostTo(c)
    \/ Settled(c)
    \/ FetchDispatcher(c)
    \/ Interrupt(c)

Next ==
    \/ Start
    \/ Body
    \/ \E c \in Callers :
        \/ \E op \in {"post", "invoke"} : Post(c, op)
        \/ Exit(c)
        \/ Proceed(c)

Spec == Init /\ [][Next]_vars

\* The thread's body and every call in progress are scheduled; nobody has to call
\* start(), post() or exit().
FairSpec == Spec /\ WF_vars(Body) /\ \A c \in Callers : WF_vars(Proceed(c))

-----------------------------------------------------------------------------
(* Properties.                                                             *)

Place == {"off", "announced", "created", "handing over", "check", "pass", "asleep",
          "dispatch", "ending", "closing", "letting go"}
Op == {"none", "post", "invoke", "exit"}
Step == {"idle", "route", "post", "await", "fetch", "interrupt"}

\* Every variable has its type, and nobody uses a dispatcher that is not there.
TypeOK ==
    /\ running \in BOOLEAN /\ exiting \in BOOLEAN
    /\ dispatcher \in {0, run}
    /\ parked \in Seq(Tasks) /\ handing \in Seq(Tasks) /\ batch \in Seq(Tasks)
    /\ loop \in Place
    /\ run \in 0 .. MaxRuns
    /\ queue \in [Runs -> Seq(Tasks)]
    /\ accepting \in [Runs -> BOOLEAN]
    /\ interrupt \in [Runs -> BOOLEAN]
    /\ call \in [Callers -> [op : Op, at : Step, ready : BOOLEAN, target : 0 .. run]]
    /\ \A c \in Callers : call[c].at \in {"post", "interrupt"} => call[c].target # 0
    /\ calls \in [Callers -> 0 .. MaxCalls]
    /\ ran \in Seq(Tasks)
    /\ refused \subseteq Tasks /\ discarded \subseteq Tasks
    /\ waited \subseteq Tasks

\* Where tasks are before they are refused or discarded, from the end of the way to its
\* beginning: run, in a batch, queued, on the way to the dispatcher, parked.
Lines ==
    [n \in -1 .. MaxRuns + 2 |->
        CASE n = -1 -> ran
          [] n = 0 -> batch
          [] n \in Runs -> queue[n]
          [] n = MaxRuns + 1 -> handing
          [] n = MaxRuns + 2 -> parked]

\* A task is in one place, once: it cannot run twice, be in two queues, nor run and be
\* discarded.
InOnePlace ==
    /\ TypeOK
    /\ \A m, n \in DOMAIN Lines : \A i \in DOMAIN Lines[m], j \in DOMAIN Lines[n] :
        Lines[m][i] = Lines[n][j] => m = n /\ i = j
    /\ \A n \in DOMAIN Lines : ToSet(Lines[n]) \cap (refused \cup discarded) = {}
    /\ refused \cap discarded = {}

\* "One at a time, in FIFO order": the tasks of one caller run in the order it posted
\* them, if they all went through the parking lot or none of them did, and the tasks
\* of earlier runs, stranded there, run before those of later ones.
RunsInPostingOrder ==
    \A i, j \in DOMAIN ran :
        /\ i < j
        /\ ran[i][1] = ran[j][1]
        /\ (ran[i] \in waited) = (ran[j] \in waited)
        => ran[i][2] < ran[j][2]

\* Accepted tasks run once or are discarded by a loop that has ended; refused tasks
\* never run.
Fate(t) ==
    CASE t \in ToSet(ran) -> "ran"
      [] t \in refused -> "refused"
      [] t \in discarded -> "discarded"
      [] \E n \in DOMAIN Lines \ {-1} : t \in ToSet(Lines[n]) -> "accepted"
      [] OTHER -> "unposted"

Delivery ==
    INSTANCE TaskDelivery WITH fate <- [t \in Tasks |-> Fate(t)],
                               stopped <- \E g \in Runs : ~accepting[g]

ImplementsTaskDelivery == Delivery!Spec

\* No exit() is lost: once the flag is up on a thread that is on, its loop ends, if it
\* was up after start() had reset it, wherever the loop is and whoever consumes the
\* interrupt.
ExitEndsTheLoop == exiting /\ loop \notin {"off", "announced"} ~> loop = "off"

\* A parked task nobody will deliver: it was parked when the thread was over, or the
\* thread could not be created.  Only another start(), or the receiver's end, frees it.
Stranded(t) == t \in ToSet(parked) /\ ~running

\* A blocked caller is released, whether its task ran or the loop was torn down with it.
EveryCallSettles ==
    \A c \in Callers :
        call[c].at = "await" ~> call[c].at # "await" \/ Stranded(Task(c))

\* The same without the exception, as invokeAndWait() has it: "the caller is released
\* whether the task ran, its receiver went away, or the loop was torn down".
BlockedCallReturns == \A c \in Callers : call[c].at = "await" ~> call[c].at # "await"

\* Nothing hangs: an exit() ends the loop, and a blocked call returns, unless its task is
\* stranded on a thread that is over.
NothingHangs == ExitEndsTheLoop /\ EveryCallSettles
=============================================================================
