----------------------------- MODULE ThreadPool -----------------------------
(***************************************************************************)
(* A ThreadPool: its workers, its one queue ranked by priority, and the    *)
(* threads that submit work, cancel it through a handle, clear the queue,  *)
(* wait for the pool to go quiet and destroy it.                           *)
(*                                                                         *)
(* The pool's mutex guards the queue, the count of running tasks and the   *)
(* stopping flag; a task's stage has a mutex of its own, so that a handle  *)
(* never reaches into the pool.  Every action is one hold of the pool's    *)
(* mutex, or what a thread does between two; a task runs, and is deleted,  *)
(* with nothing locked, and may submit more work.  Waiting on either       *)
(* condition variable is a state a thread is in until it is notified.      *)
(*                                                                         *)
(* Every task belongs to the pool, which deletes it.  The destroyer sees   *)
(* to it that no other client is in a call, or calls again, but for        *)
(* handles; the tasks that run are not under its control.                  *)
(***************************************************************************)
EXTENDS Integers, FiniteSets, SequencesExt

CONSTANTS
    Workers,    \* the pool's workers
    Clients,    \* other threads
    Owner,      \* the client that destroys the pool
    Priorities, \* the priorities tasks are submitted with
    MaxTasks    \* bound: tasks submitted in a behaviour

ASSUME PoolAssumption ==
    /\ Workers \cap Clients = {} /\ IsFiniteSet(Workers)
    /\ Owner \in Clients
    /\ Priorities \subseteq Int
    /\ MaxTasks \in Nat

Tasks == 1 .. MaxTasks
None == 0

VARIABLES
    queue,      \* mQueue
    active,     \* mActiveCount
    stopping,   \* mStopping
    stage,      \* each task's TaskState
    priority,   \* each task's mPriority
    deleted,    \* the tasks whose Runnable has been deleted
    made,       \* submissions so far: tasks are numbered in their order
    at,         \* where each worker and each client is
    task,       \* each worker's task, if any
    dropped,    \* what each client's clear() has taken out and not dropped yet
    submitting  \* the task each caller has queued and not announced yet

tasks == <<stage, priority, deleted, made>>
vars == <<queue, active, stopping, tasks, at, task, dropped, submitting>>

Settled(t) == stage[t] \in {"finished", "cancelled"}

-----------------------------------------------------------------------------
\* A worker whose thread could not be created stays in the pool, "dead".
Init ==
    /\ queue = <<>>
    /\ active = 0
    /\ stopping = FALSE
    /\ stage = [t \in Tasks |-> "none"]
    /\ priority = [t \in Tasks |-> None]
    /\ deleted = {}
    /\ made = 0
    /\ \E up \in SUBSET Workers :
        at = [p \in Workers \cup Clients |->
                IF p \in Clients THEN "idle" ELSE IF p \in up THEN "ready" ELSE "dead"]
    /\ task = [w \in Workers |-> None]
    /\ dropped = [c \in Clients |-> <<>>]
    /\ submitting = [p \in Workers \cup Clients |-> None]

-----------------------------------------------------------------------------
(* Submitting and cancelling.                                              *)

Destroying == at[Owner] \in {"emptying", "stop", "join", "gone"}

\* A client may call between calls, and a worker out of the task it runs.
MayCall(p) ==
    /\ submitting[p] = None
    /\ \/ p \in Clients /\ at[p] = "idle" /\ ~Destroying
       \/ p \in Workers /\ at[p] = "running"

\* enqueue(): after the tasks that do not rank below it.
Queued(t, rank) ==
    InsertAt(queue, 1 + Cardinality({k \in DOMAIN queue : priority[queue[k]] >= rank}), t)

\* submit(): queued, or refused and deleted by a pool that is stopping.
Submit(p, rank) ==
    /\ MayCall(p)
    /\ made < MaxTasks
    /\ LET t == made + 1 IN
         /\ made' = t
         /\ priority' = [priority EXCEPT ![t] = rank]
         /\ IF stopping \/ Workers = {}
            THEN /\ stage' = [stage EXCEPT ![t] = "cancelled"]
                 /\ deleted' = deleted \cup {t}
                 /\ UNCHANGED <<queue, submitting>>
            ELSE /\ stage' = [stage EXCEPT ![t] = "queued"]
                 /\ queue' = Queued(t, rank)
                 /\ submitting' = [submitting EXCEPT ![p] = t]
                 /\ UNCHANGED deleted
    /\ UNCHANGED <<active, stopping, at, task, dropped>>

\* The mutex released, one sleeping worker is woken and submit() returns.
Announce(p) ==
    /\ submitting[p] # None
    /\ submitting' = [submitting EXCEPT ![p] = None]
    /\ LET asleep == {w \in Workers : at[w] = "asleep"} IN
         IF asleep = {} THEN UNCHANGED at
         ELSE \E w \in asleep : at' = [at EXCEPT ![w] = "ready"]
    /\ UNCHANGED <<queue, active, stopping, tasks, task, dropped>>

\* TaskHandle::cancel(), by whoever holds the handle, at any time.
Cancel(t) ==
    /\ stage[t] = "queued"
    /\ t \notin Range(submitting)
    /\ stage' = [stage EXCEPT ![t] = "cancelled"]
    /\ UNCHANGED <<queue, active, stopping, priority, deleted, made, at, task, dropped,
                   submitting>>

-----------------------------------------------------------------------------
(* Workers.                                                                *)

Quiet(n) == queue = <<>> /\ n = 0

\* Where everybody is after mWentQuiet.notify_all().
WaitersWoken == [p \in DOMAIN at |-> IF at[p] = "waiting" THEN "woken" ELSE at[p]]

\* The top of workerLoop(), the mutex held, n tasks running and everybody at here: take
\* the first task, which runs unless its handle has cancelled it, or wait, or end.
Pick(w, n, here) ==
    IF queue # <<>>
    THEN LET t == Head(queue) IN
           /\ queue' = Tail(queue)
           /\ task' = [task EXCEPT ![w] = t]
           /\ IF stage[t] = "queued"
              THEN /\ stage' = [stage EXCEPT ![t] = "running"]
                   /\ active' = n + 1
                   /\ at' = [here EXCEPT ![w] = "running"]
              ELSE /\ active' = n
                   /\ at' = [here EXCEPT ![w] = "dropping"]
                   /\ UNCHANGED stage
    ELSE /\ at' = [here EXCEPT ![w] = IF stopping THEN "ended" ELSE "asleep"]
         /\ task' = [task EXCEPT ![w] = None]
         /\ active' = n
         /\ UNCHANGED <<queue, stage>>

\* A worker that has started, or was woken.
Look(w) ==
    /\ at[w] = "ready"
    /\ Pick(w, active, at)
    /\ UNCHANGED <<stopping, priority, deleted, made, dropped, submitting>>

\* runTask(): run() returns, and the handles learn it.
Finish(w) ==
    /\ at[w] = "running"
    /\ submitting[w] = None
    /\ at' = [at EXCEPT ![w] = "finished"]
    /\ stage' = [stage EXCEPT ![task[w]] = "finished"]
    /\ UNCHANGED <<queue, active, stopping, priority, deleted, made, task, dropped, submitting>>

\* The task deleted and the mutex taken again, with n tasks left running: the waiters are
\* told if that leaves the pool quiet, and the worker picks its next task.
Relock(w, n) ==
    /\ deleted' = deleted \cup {task[w]}
    /\ Pick(w, n, IF Quiet(n) THEN WaitersWoken ELSE at)
    /\ UNCHANGED <<stopping, priority, made, dropped, submitting>>

EndTask(w) == at[w] = "finished" /\ Relock(w, active - 1)

\* EndDrop() that tells nobody.
EndDropSilent(w) ==
    /\ at[w] = "dropping"
    /\ deleted' = deleted \cup {task[w]}
    /\ Pick(w, active, at)
    /\ UNCHANGED <<stopping, priority, made, dropped, submitting>>

\* A cancelled task is dropped, never having run.
EndDrop(w) == at[w] = "dropping" /\ Relock(w, active)

-----------------------------------------------------------------------------
(* waitForDone().                                                          *)

WaitForDone(c) ==
    /\ MayCall(c) /\ c \in Clients
    /\ ~Quiet(active)
    /\ at' = [at EXCEPT ![c] = "waiting"]
    /\ UNCHANGED <<queue, active, stopping, tasks, task, dropped, submitting>>

\* Woken, and the mutex taken, the waiter looks again.
LookAgain(c) ==
    /\ at[c] = "woken"
    /\ at' = [at EXCEPT ![c] = IF Quiet(active) THEN "idle" ELSE "waiting"]
    /\ UNCHANGED <<queue, active, stopping, tasks, task, dropped, submitting>>

\* The time it was given passes first.
GiveUp(c) ==
    /\ at[c] \in {"waiting", "woken"}
    /\ at' = [at EXCEPT ![c] = "idle"]
    /\ UNCHANGED <<queue, active, stopping, tasks, task, dropped, submitting>>

-----------------------------------------------------------------------------
(* clear() and the destructor.                                             *)

TakeOut(c, step) ==
    /\ dropped' = [dropped EXCEPT ![c] = queue]
    /\ queue' = <<>>
    /\ at' = [at EXCEPT ![c] = step]
    /\ UNCHANGED <<active, stopping, tasks, task, submitting>>

\* clear(), with something to clear.
Clear(c) == MayCall(c) /\ c \in Clients /\ queue # <<>> /\ TakeOut(c, "clearing")

Destroy ==
    /\ MayCall(Owner)
    /\ \A c \in Clients : at[c] = "idle" /\ submitting[c] = None
    /\ TakeOut(Owner, "emptying")

\* Drop() that leaves alone what a handle has cancelled already.
DropUnlessCancelled(c) ==
    /\ dropped[c] # <<>>
    /\ LET t == Head(dropped[c]) IN
         /\ stage' = [stage EXCEPT ![t] = "cancelled"]
         /\ deleted' = IF stage[t] = "queued" THEN deleted \cup {t} ELSE deleted
    /\ dropped' = [dropped EXCEPT ![c] = Tail(@)]
    /\ UNCHANGED <<queue, active, stopping, priority, made, at, task, submitting>>

\* One of the tasks taken out is cancelled, unless its handle did that, and deleted.
Drop(c) ==
    /\ dropped[c] # <<>>
    /\ LET t == Head(dropped[c]) IN
         /\ stage' = [stage EXCEPT ![t] = "cancelled"]
         /\ deleted' = deleted \cup {t}
    /\ dropped' = [dropped EXCEPT ![c] = Tail(@)]
    /\ UNCHANGED <<queue, active, stopping, priority, made, at, task, submitting>>

\* With the last one dropped, and the mutex taken again, the waiters are told if the pool
\* is quiet now.
EndClear(c) ==
    /\ at[c] \in {"clearing", "emptying"}
    /\ dropped[c] = <<>>
    /\ at' = [(IF Quiet(active) THEN WaitersWoken ELSE at)
                EXCEPT ![c] = IF at[c] = "clearing" THEN "idle" ELSE "stop"]
    /\ UNCHANGED <<queue, active, stopping, tasks, task, dropped, submitting>>

\* The destructor goes on: mStopping, and every sleeping worker is woken.
Stop ==
    /\ at[Owner] = "stop"
    /\ stopping' = TRUE
    /\ at' = [p \in DOMAIN at |-> IF at[p] = "asleep" THEN "ready"
                                  ELSE IF p = Owner THEN "join" ELSE at[p]]
    /\ UNCHANGED <<queue, active, tasks, task, dropped, submitting>>

\* It waits for every worker that runs.
Join ==
    /\ at[Owner] = "join"
    /\ \A w \in Workers : at[w] \in {"ended", "dead"}
    /\ at' = [at EXCEPT ![Owner] = "gone"]
    /\ UNCHANGED <<queue, active, stopping, tasks, task, dropped, submitting>>

-----------------------------------------------------------------------------
WorkerStep(w) == Look(w) \/ Finish(w) \/ EndTask(w) \/ EndDrop(w)

ClientStep(c) == LookAgain(c) \/ Drop(c) \/ EndClear(c)

Next ==
    \/ \E p \in Workers \cup Clients : Announce(p) \/ \E rank \in Priorities : Submit(p, rank)
    \/ \E t \in Tasks : Cancel(t)
    \/ \E w \in Workers : WorkerStep(w)
    \/ \E c \in Clients : ClientStep(c) \/ WaitForDone(c) \/ GiveUp(c) \/ Clear(c)
    \/ Destroy \/ Stop \/ Join

Spec == Init /\ [][Next]_vars

\* Threads get the mutex they ask for, every run() returns, and a destructor that has
\* begun goes on.  Nobody has to call anything, cancel or give up.
Fairness ==
    /\ \A p \in Workers \cup Clients : WF_vars(Announce(p))
    /\ \A w \in Workers : WF_vars(WorkerStep(w))
    /\ \A c \in Clients : WF_vars(ClientStep(c))
    /\ WF_vars(Stop) /\ WF_vars(Join)

FairSpec == Spec /\ Fairness

-----------------------------------------------------------------------------
(* Properties.                                                             *)

\* Every variable has its type.
TypeOK ==
    /\ queue \in Seq(Tasks)
    /\ active \in 0 .. Cardinality(Workers)
    /\ stopping \in BOOLEAN
    /\ stage \in [Tasks -> {"none", "queued", "running", "finished", "cancelled"}]
    /\ priority \in [Tasks -> Priorities \cup {None}]
    /\ deleted \subseteq Tasks
    /\ made \in 0 .. MaxTasks
    /\ \A w \in Workers :
        at[w] \in {"ready", "asleep", "running", "finished", "dropping", "ended", "dead"}
    /\ \A c \in Clients :
        at[c] \in {"idle", "waiting", "woken", "clearing", "emptying", "stop", "join", "gone"}
    /\ task \in [Workers -> Tasks \cup {None}]
    /\ dropped \in [Clients -> Seq(Tasks)]
    /\ submitting \in [Workers \cup Clients -> Tasks \cup {None}]

\* A submitted task is in one place until it is deleted, and never after: waiting, in the
\* hands of one worker, or in those of one clear().  A cancelled one is in nobody's run(),
\* and a destroyed pool has deleted them all.
Busy(t) == {w \in Workers : task[w] = t}

NothingIsLost ==
    /\ TypeOK
    /\ \A t \in 1 .. made :
        Cardinality({k \in DOMAIN queue : queue[k] = t}) + Cardinality(Busy(t))
            + Cardinality({p \in Clients \X Tasks :
                              p[2] \in DOMAIN dropped[p[1]] /\ dropped[p[1]][p[2]] = t})
            = IF t \in deleted THEN 0 ELSE 1
    /\ \A w \in Workers : at[w] = "running" => stage[task[w]] = "running"
    /\ at[Owner] = "gone" => deleted = 1 .. made

Manned == \E w \in Workers : at[w] # "dead"

\* No wake-up is lost: with a worker that came up, a waitForDone() returns once the work
\* there is has ended, however it ended, and the destructor returns in any case.
EveryCallReturns ==
    /\ \A c \in Clients : Manned /\ at[c] \in {"waiting", "woken"} ~> at[c] = "idle"
    /\ Destroying ~> at[Owner] = "gone"

\* Likewise every accepted task ends up finished or cancelled, so that a handle's wait()
\* returns, whether or not the pool lives.
EveryTaskSettles ==
    \A t \in Tasks : Manned /\ stage[t] = "queued" ~> Settled(t)

\* Nobody who waits for the pool waits for ever: neither for all of its work, nor for one
\* task, nor for its end.
NothingHangs == EveryCallReturns /\ EveryTaskSettles
=============================================================================
