------------------------- MODULE StartAndWaitProofs -------------------------
(***************************************************************************)
(* What TLAPS proves about ThreadLifecycle, and about SignalWatcher with   *)
(* the LoopWait it extends.                                                *)
(*                                                                         *)
(* ThreadLifecycle, for any callers, priorities and number of runs:        *)
(* mThreadId is right whenever it is used, provided that callers keep out  *)
(* of each other's start() (StartsAlone, WaitsApart).                      *)
(*                                                                         *)
(* SignalWatcher, for any threads, descriptors, dispatchers and bounds: a  *)
(* loop never sleeps over work without its wake-up on the way, a source is *)
(* called only for what was polled, and a shutdown request is kept and     *)
(* told once.                                                              *)
(***************************************************************************)
EXTENDS ThreadLifecycle, SignalWatcher, SubsequencesProofs, FiniteSetTheorems

CallState == [op : {"none", "start", "wait", "timed wait"}, at : Step,
              prio : Priorities \cup {Inherit}]
Granted == Priorities \cup {Inherit, Unheeded}
Places == {"none", "fixup", "body", "ending", "finishing", "notifying", "exited", "joined"}

There(n) == native[n] \notin {"none", "joined"}

CallsAreSane ==
    \A c \in Callers :
        /\ call[c].op = "none" <=> call[c].at = "idle"
        /\ call[c].at \in {"launch", "create", "publish"} => call[c].op = "start"

\* Who is in start() is alone, in wait() too.
Alone ==
    \A c, d \in Callers : call[c].op = "start" /\ call[d].op # "none" => c = d

HoldersHold ==
    \A c \in Callers : call[c].at \in {"joining", "create", "publish"} <=> mutex = c

InOrder ==
    Cardinality(Created) \in 0..MaxRuns /\ Created = 1..Cardinality(Created)

\* A thread that is there is the one the handle names, or is about to be.
NamesTheUnreaped ==
    /\ \A n \in Runs : There(n) =>
        IF joinable THEN n = handle
        ELSE n = Cardinality(Created) /\ \E c \in Callers : call[c].at = "publish"
    /\ joinable => handle \in Runs /\ There(handle)
    /\ \A c \in Callers :
        /\ call[c].at \in {"launch", "create", "publish"} => ~joinable
        /\ call[c].at = "publish" => Cardinality(Created) \in Runs
                                     /\ native[Cardinality(Created)] = "fixup"
        /\ call[c].at = "joining" => joinable

\* Who is about to join has seen mHasFinished, which only a run that is over leaves set.
OverIsOver ==
    /\ hasFinished => \A n \in Runs : There(n) => native[n] \in {"notifying", "exited"}
    /\ \A c \in Callers :
        /\ call[c].at \in {"create", "publish"} => ~hasFinished
        /\ call[c].at \in {"join", "joining"} => hasFinished

\* A thread that comes up has its priority already, or is told to take it.
PriorityIsKept ==
    /\ \A n \in Runs :
        native[n] = "fixup" /\ ~needsReset => osPriority[n] \in {priority, Unheeded}
    /\ \A c \in Callers : call[c].at = "create" => priority = call[c].prio
    /\ PriorityIsTheLastAsked

LifecycleInv ==
    /\ LifecycleTypeOK /\ CallsAreSane /\ Alone /\ HoldersHold
    /\ InOrder /\ NamesTheUnreaped /\ OverIsOver /\ PriorityIsKept
-----------------------------------------------------------------------------
LEMMA IdleIsCall == Idle \in CallState /\ Idle.op = "none" /\ Idle.at = "idle"
  BY DEF Idle, CallState, Step

LEMMA CallTypes ==
    ASSUME LifecycleTypeOK
    PROVE  call \in [Callers -> CallState] /\ native \in [Runs -> Places]
  BY DEF LifecycleTypeOK, CallState, Places

LEMMA GoesFacts ==
    ASSUME LifecycleTypeOK, NEW c \in Callers, NEW s \in Step, Goes(c, s)
    PROVE  /\ call' \in [Callers -> CallState]
           /\ call'[c].at = s /\ call'[c].op = call[c].op /\ call'[c].prio = call[c].prio
           /\ \A d \in Callers : d # c => call'[d] = call[d]
<1>1. call \in [Callers -> CallState] /\ call[c] \in CallState
  BY CallTypes
<1>2. call' = [call EXCEPT ![c] = [call[c] EXCEPT !.at = s]]
  BY DEF Goes
<1>3. /\ [call[c] EXCEPT !.at = s] \in CallState
      /\ [call[c] EXCEPT !.at = s].at = s
      /\ [call[c] EXCEPT !.at = s].op = call[c].op
      /\ [call[c] EXCEPT !.at = s].prio = call[c].prio
  BY <1>1 DEF CallState
<1>4. QED
  BY <1>1, <1>2, <1>3

LEMMA SetFacts ==
    ASSUME LifecycleTypeOK, NEW c \in Callers, NEW s \in CallState, call' = [call EXCEPT ![c] = s]
    PROVE  /\ call' \in [Callers -> CallState] /\ call'[c] = s
           /\ \A d \in Callers : d # c => call'[d] = call[d]
  BY CallTypes

LEMMA SameRuns ==
    ASSUME \A n \in Runs : native'[n] = "none" <=> native[n] = "none"
    PROVE  Created' = Created /\ Cardinality(Created') = Cardinality(Created)
<1>1. Created' = Created
  BY DEF Created
<1>2. QED
  BY <1>1, Zenon

LEMMA InitLifecycleInv == LifecycleInit => LifecycleInv
<1> SUFFICES ASSUME LifecycleInit PROVE LifecycleInv
  OBVIOUS
<1>1. LifecycleTypeOK
  BY IdleIsCall DEF LifecycleInit, LifecycleTypeOK, CallState, Step
<1>2. CallsAreSane /\ Alone /\ HoldersHold
  BY IdleIsCall, LifecycleAssumption DEF LifecycleInit, CallsAreSane, Alone, HoldersHold
<1>3. Created = {}
  BY DEF LifecycleInit, Created
<1>4. InOrder
  <2>1. Cardinality({}) = 0
    BY FS_EmptySet
  <2>2. Cardinality(Created) = 0
    BY <1>3, <2>1, Zenon
  <2>3. QED
    BY <1>3, <2>2, LifecycleAssumption DEF InOrder
<1>5. NamesTheUnreaped /\ OverIsOver /\ PriorityIsKept
  BY IdleIsCall DEF LifecycleInit, NamesTheUnreaped, OverIsOver, PriorityIsKept, PriorityIsTheLastAsked, There
<1>6. QED
  BY <1>1, <1>2, <1>4, <1>5 DEF LifecycleInv
-----------------------------------------------------------------------------
\* A caller that takes no lock goes to another place in its call.
LEMMA CallerMoves ==
    ASSUME LifecycleInv, NEW c \in Callers, call' \in [Callers -> CallState],
           \A d \in Callers : d # c => call'[d] = call[d],
           UNCHANGED <<mutex, object, native, osPriority>>,
           call[c].at \notin {"joining", "create", "publish"},
           call'[c].at \notin {"joining", "create", "publish"},
           call'[c].op = "none" <=> call'[c].at = "idle",
           call'[c].at = "launch" => call'[c].op = "start" /\ ~joinable,
           call'[c].at = "join" => hasFinished,
           call'[c].op # "none" =>
                \/ call'[c].op = call[c].op
                \/ \A d \in Callers : d # c => call[d].op # "start"
                                               /\ (call'[c].op = "start" => call[d].op = "none")
    PROVE  LifecycleInv'
<1>1. Created' = Created /\ Cardinality(Created') = Cardinality(Created)
  BY SameRuns
<1>2. LifecycleTypeOK'
  BY <1>1 DEF LifecycleInv, LifecycleTypeOK, CallState, object
<1>3. CallsAreSane' /\ Alone' /\ HoldersHold'
  BY DEF LifecycleInv, CallsAreSane, Alone, HoldersHold
<1>4. InOrder'
  BY <1>1 DEF LifecycleInv, InOrder
<1>5. NamesTheUnreaped'
  BY <1>1 DEF LifecycleInv, NamesTheUnreaped, There, object
<1>6. OverIsOver'
  BY DEF LifecycleInv, OverIsOver, There, object
<1>7. PriorityIsKept'
  BY DEF LifecycleInv, PriorityIsKept, PriorityIsTheLastAsked, object
<1>8. QED
  BY <1>2, <1>3, <1>4, <1>5, <1>6, <1>7 DEF LifecycleInv

LEMMA StepOfCaller ==
    ASSUME StartsAlone, WaitsApart, LifecycleInv, NEW c \in Callers,
           \/ \E op \in {"wait", "timed wait"} : Wait(c, op)
           \/ \E p \in Priorities \cup {Inherit} : Start(c, p)
           \/ TimeOut(c) \/ Claim(c) \/ Check(c) \/ (Join(c) /\ ~joinable)
    PROVE  LifecycleInv'
<1>1. LifecycleTypeOK /\ call[c] \in CallState /\ (call[c].op = "none" <=> call[c].at = "idle")
  BY CallTypes DEF LifecycleInv, CallsAreSane
<1>2. ASSUME NEW op \in {"wait", "timed wait"}, Wait(c, op)
      PROVE  LifecycleInv'
  <2> DEFINE s == [Idle EXCEPT !.op = op, !.at = "claim"]
  <2>1. s \in CallState /\ s.op = op /\ s.at = "claim"
    BY IdleIsCall DEF CallState, Step
  <2>2. call' = [call EXCEPT ![c] = s] /\ call[c] = Idle
    BY <1>2 DEF Wait
  <2>3. \A d \in Callers : call[d].op # "start"
    BY <1>2 DEF Wait, MayWait, Starting
  <2> HIDE DEF s
  <2>4. QED
    BY <1>1, <1>2, <2>1, <2>2, <2>3, IdleIsCall, SetFacts, CallerMoves DEF Wait
<1>3. ASSUME NEW p \in Priorities \cup {Inherit}, Start(c, p)
      PROVE  LifecycleInv'
  <2> DEFINE s == [op |-> "start", at |-> "claim", prio |-> p]
  <2>1. s \in CallState /\ s.op = "start" /\ s.at = "claim"
    BY DEF CallState, Step
  <2>2. call' = [call EXCEPT ![c] = s] /\ call[c] = Idle
    BY <1>3 DEF Start
  <2>3. \A d \in Callers : call[d].op = "none"
    <3>1. \A d \in Callers : call[d].op \notin {"start", "wait", "timed wait"}
      BY <1>3 DEF Start, MayStart, Starting, Waiting
    <3>2. QED
      BY <1>1, <3>1, CallTypes DEF CallState
  <2> HIDE DEF s
  <2>4. QED
    BY <1>1, <1>3, <2>1, <2>2, <2>3, IdleIsCall, SetFacts, CallerMoves DEF Start
<1>4. ASSUME NEW s \in Step, Goes(c, s), s \notin {"idle", "joining", "create", "publish"},
             call[c].at \notin {"idle", "joining", "create", "publish"},
             UNCHANGED <<mutex, object, native, osPriority>>,
             s = "launch" => call[c].op = "start" /\ ~joinable,
             s = "join" => hasFinished
      PROVE  LifecycleInv'
  BY <1>1, <1>4, GoesFacts, CallerMoves, ZenonT(60)
<1>5. ASSUME Returns(c), call[c].at \notin {"joining", "create", "publish"},
             UNCHANGED <<mutex, object, native, osPriority>>
      PROVE  LifecycleInv'
  BY <1>1, <1>5, SetFacts, IdleIsCall, CallerMoves DEF Returns
<1>6. ASSUME WaitReturns(c), ~joinable, call[c].at \in {"claim", "join"},
             UNCHANGED <<mutex, object, native, osPriority>>
      PROVE  LifecycleInv'
  BY <1>4, <1>5, <1>6 DEF WaitReturns, Step
<1>7. CASE TimeOut(c)
  BY <1>4, <1>5, <1>7 DEF TimeOut, Step
<1>8. CASE Claim(c)
  BY <1>4, <1>6, <1>8 DEF Claim, Step
<1>9. CASE Check(c)
  <2>1. CASE hasFinished
    BY <1>4, <1>9, <2>1 DEF Check, Step
  <2>2. CASE ~hasFinished
    BY <1>4, <1>9, <2>2 DEF Check, Step
  <2>3. QED
    BY <2>1, <2>2
<1>10. CASE Join(c) /\ ~joinable
  BY <1>6, <1>10 DEF Join
<1>11. QED
  BY <1>2, <1>3, <1>7, <1>8, <1>9, <1>10

\* Of those that hold the mutex there is one.
LEMMA OneHolds ==
    ASSUME LifecycleInv, NEW c \in Callers, mutex \in {c, None}, NEW d \in Callers, d # c
    PROVE  call[d].at \notin {"joining", "create", "publish"}
  BY LifecycleAssumption DEF LifecycleInv, HoldersHold

LEMMA StepOfJoin ==
    ASSUME LifecycleInv, NEW c \in Callers, Join(c), joinable
    PROVE  LifecycleInv'
<1>1. /\ call' \in [Callers -> CallState] /\ call'[c].at = "joining"
      /\ call'[c].op = call[c].op /\ call'[c].prio = call[c].prio
      /\ \A d \in Callers : d # c => call'[d] = call[d]
  BY GoesFacts DEF LifecycleInv, Join, Step
<1>2. mutex' = c /\ mutex = None /\ call[c].at = "join" /\ UNCHANGED <<object, native, osPriority>>
  BY DEF Join
<1>3. Created' = Created /\ Cardinality(Created') = Cardinality(Created)
  BY <1>2, SameRuns
<1>4. LifecycleTypeOK'
  BY <1>1, <1>2, <1>3 DEF LifecycleInv, LifecycleTypeOK, CallState, object
<1>5. CallsAreSane' /\ Alone' /\ HoldersHold'
  BY <1>1, <1>2, OneHolds DEF LifecycleInv, CallsAreSane, Alone, HoldersHold
<1>6. InOrder'
  BY <1>3 DEF LifecycleInv, InOrder
<1>7. NamesTheUnreaped'
  BY <1>1, <1>2, <1>3 DEF LifecycleInv, NamesTheUnreaped, There, object
<1>8. OverIsOver' /\ PriorityIsKept'
  BY <1>1, <1>2 DEF LifecycleInv, OverIsOver, PriorityIsKept, PriorityIsTheLastAsked, There, object
<1>9. QED
  BY <1>4, <1>5, <1>6, <1>7, <1>8 DEF LifecycleInv

LEMMA StepOfJoined ==
    ASSUME LifecycleInv, NEW c \in Callers, Joined(c)
    PROVE  LifecycleInv'
<1>0. /\ call[c].at = "joining" /\ joinable /\ handle \in Runs /\ mutex = c /\ hasFinished
      /\ native' = [native EXCEPT ![handle] = "joined"] /\ native \in [Runs -> Places]
      /\ native[handle] = "exited" /\ ~joinable' /\ mutex' = None
      /\ UNCHANGED <<running, finishing, hasFinished, handle, priority, needsReset, osPriority>>
  BY CallTypes DEF Joined, LifecycleInv, HoldersHold, NamesTheUnreaped, OverIsOver
<1>1. \/ call[c].op = "start" /\ Goes(c, "launch")
      \/ call[c].op # "start" /\ Returns(c)
  BY DEF Joined, WaitReturns
<1>2. /\ call' \in [Callers -> CallState]
      /\ \A d \in Callers : d # c => call'[d] = call[d]
      /\ \/ call'[c].at = "launch" /\ call'[c].op = "start" /\ call[c].op = "start"
         \/ call'[c].at = "idle" /\ call'[c].op = "none"
  <2>1. CASE call[c].op = "start" /\ Goes(c, "launch")
    BY <2>1, GoesFacts DEF LifecycleInv, Step
  <2>2. CASE Returns(c)
    BY <2>2, SetFacts, IdleIsCall DEF LifecycleInv, Returns
  <2>3. QED
    BY <1>1, <2>1, <2>2
<1>3. Created' = Created /\ Cardinality(Created') = Cardinality(Created)
  BY <1>0, SameRuns
<1>4. LifecycleTypeOK'
  <2>1. native' \in [Runs -> Places]
    BY <1>0 DEF Places
  <2>2. /\ mutex' \in Callers \cup {None} /\ joinable' \in BOOLEAN
        /\ handle' \in Created' \cup {0}
    BY <1>0, <1>3 DEF LifecycleInv, LifecycleTypeOK, Joined
  <2>3. QED
    BY <1>0, <1>2, <2>1, <2>2 DEF LifecycleInv, LifecycleTypeOK, CallState, Places
<1>5. CallsAreSane' /\ Alone' /\ HoldersHold'
  <2>1. CallsAreSane' /\ Alone'
    BY <1>0, <1>2 DEF LifecycleInv, CallsAreSane, Alone
  <2>2. HoldersHold'
    BY <1>0, <1>2, OneHolds, LifecycleAssumption DEF HoldersHold
  <2>3. QED
    BY <2>1, <2>2
<1>6. InOrder'
  BY <1>3 DEF LifecycleInv, InOrder
<1>7. NamesTheUnreaped'
  <2>1. \A n \in Runs : ~There(n)'
    BY <1>0 DEF LifecycleInv, NamesTheUnreaped, There
  <2>2. \A d \in Callers : call'[d].at \notin {"create", "publish", "joining"}
    BY <1>0, <1>2, OneHolds
  <2>3. QED
    BY <1>0, <2>1, <2>2 DEF NamesTheUnreaped
<1>8. OverIsOver' /\ PriorityIsKept'
  <2>1. \A n \in Runs : native'[n] = native[n] \/ native'[n] = "joined"
    BY <1>0
  <2>2. OverIsOver'
    BY <1>0, <1>2, <2>1, OneHolds DEF LifecycleInv, OverIsOver, There
  <2>3. PriorityIsKept'
    BY <1>0, <1>2, <2>1, OneHolds DEF LifecycleInv, PriorityIsKept, PriorityIsTheLastAsked
  <2>4. QED
    BY <2>2, <2>3
<1>9. QED
  BY <1>4, <1>5, <1>6, <1>7, <1>8 DEF LifecycleInv
-----------------------------------------------------------------------------
\* start(): nobody else is in a call, and no thread is there.
LEMMA NobodyIsThere ==
    ASSUME LifecycleInv, NEW c \in Callers, call[c].at \in {"launch", "create"}
    PROVE  /\ ~joinable /\ call[c].op = "start"
           /\ \A n \in Runs : ~There(n)
           /\ \A d \in Callers : d # c => call[d].op = "none" /\ call[d].at = "idle"
<1>1. ~joinable /\ call[c].op = "start"
  BY DEF LifecycleInv, NamesTheUnreaped, CallsAreSane
<1>2. \A d \in Callers : d # c => call[d].op = "none" /\ call[d].at = "idle"
  BY <1>1 DEF LifecycleInv, Alone, CallsAreSane
<1>3. \A n \in Runs : ~There(n)
  BY <1>1, <1>2 DEF LifecycleInv, NamesTheUnreaped
<1>4. QED
  BY <1>1, <1>2, <1>3

LEMMA StepOfLaunch ==
    ASSUME LifecycleInv, NEW c \in Callers, Launch(c)
    PROVE  LifecycleInv'
<1>1. /\ call' \in [Callers -> CallState] /\ call'[c].at = "create"
      /\ call'[c].op = call[c].op /\ call'[c].prio = call[c].prio
      /\ \A d \in Callers : d # c => call'[d] = call[d]
  BY GoesFacts DEF LifecycleInv, Launch, Step
<1>2. /\ ~joinable /\ call[c].op = "start" /\ \A n \in Runs : ~There(n)
      /\ \A d \in Callers : d # c => call[d].op = "none" /\ call[d].at = "idle"
  BY NobodyIsThere DEF Launch
<1>3. Created' = Created /\ Cardinality(Created') = Cardinality(Created)
  BY SameRuns DEF Launch
<1>4. LifecycleTypeOK'
  BY <1>1, <1>3, CallTypes DEF LifecycleInv, LifecycleTypeOK, CallState, Launch
<1>5. CallsAreSane' /\ Alone' /\ HoldersHold'
  BY <1>1, <1>2 DEF LifecycleInv, CallsAreSane, Alone, HoldersHold, Launch
<1>6. InOrder'
  BY <1>3 DEF LifecycleInv, InOrder
<1>7. NamesTheUnreaped'
  BY <1>1, <1>2 DEF NamesTheUnreaped, There, Launch
<1>8. OverIsOver' /\ PriorityIsKept'
  BY <1>1, <1>2 DEF OverIsOver, PriorityIsKept, PriorityIsTheLastAsked, There, Launch
<1>9. QED
  BY <1>4, <1>5, <1>6, <1>7, <1>8 DEF LifecycleInv

\* The thread that is created is the last in order.
LEMMA OneMoreRun ==
    ASSUME LifecycleInv, NEW c \in Callers, Create(c)
    PROVE  LET n == Cardinality(Created) + 1 IN
           /\ n \in Runs /\ native[n] = "none" /\ Created' = 1..n /\ Cardinality(Created') = n
<1> DEFINE n == Cardinality(Created) + 1
<1>1. /\ Cardinality(Created) \in Nat /\ n \in 1..MaxRuns /\ Created = 1..(n - 1)
      /\ MaxRuns \in Nat
  BY LifecycleAssumption DEF LifecycleInv, InOrder, Create
<1>2. n \in Runs /\ n \notin Created
  BY <1>1 DEF Runs
<1>3. native[n] = "none"
  BY <1>2 DEF Created
<1>4. native' = [native EXCEPT ![n] = "fixup"] /\ native \in [Runs -> Places]
  BY CallTypes DEF Create, LifecycleInv
<1> HIDE DEF n
<1>5. Created' = Created \cup {n}
  BY <1>2, <1>4 DEF Created
<1>6. Created' = 1..n
  BY <1>1, <1>5
<1>7. Cardinality(1..n) = n
  BY <1>1, FS_Interval
<1>8. Cardinality(Created') = n
  BY <1>6, <1>7, Zenon
<1>9. QED
  BY <1>2, <1>3, <1>6, <1>8 DEF n

LEMMA StepOfCreate ==
    ASSUME LifecycleInv, NEW c \in Callers, Create(c)
    PROVE  LifecycleInv'
<1> DEFINE n == Cardinality(Created) + 1
<1>1. /\ call' \in [Callers -> CallState] /\ call'[c].at = "publish"
      /\ call'[c].op = call[c].op /\ call'[c].prio = call[c].prio
      /\ \A d \in Callers : d # c => call'[d] = call[d]
  BY GoesFacts DEF LifecycleInv, Create, Step
<1>2. /\ ~joinable /\ call[c].op = "start" /\ \A m \in Runs : ~There(m)
      /\ \A d \in Callers : d # c => call[d].op = "none" /\ call[d].at = "idle"
  BY NobodyIsThere DEF Create
<1>3. n \in Runs /\ native[n] = "none" /\ Created' = 1..n /\ Cardinality(Created') = n
  BY OneMoreRun
<1>4. PICK granted \in {call[c].prio, Inherit, Unheeded} :
        /\ needsReset' = (granted \notin {call[c].prio, Unheeded})
        /\ native' = [native EXCEPT ![n] = "fixup"]
        /\ osPriority' = [osPriority EXCEPT ![n] = granted]
  BY DEF Create
<1>5. /\ UNCHANGED <<mutex, running, finishing, hasFinished, joinable, handle, priority>>
      /\ call[c].at = "create" /\ ~hasFinished /\ priority = call[c].prio
  BY DEF Create, LifecycleInv, OverIsOver, PriorityIsKept
<1>6. /\ native \in [Runs -> Places] /\ osPriority \in [Runs -> Granted]
      /\ granted \in Granted /\ Created \subseteq Created'
      /\ Cardinality(Created) \in Nat /\ Created = 1..Cardinality(Created)
  <2>1. granted \in Granted
    BY <1>4, CallTypes DEF Granted, LifecycleInv, CallState
  <2>2. Cardinality(Created) \in Nat /\ Created = 1..Cardinality(Created)
    BY DEF LifecycleInv, InOrder
  <2>3. Created \subseteq Created'
    BY <1>3, <2>2
  <2>4. QED
    BY <2>1, <2>2, <2>3, CallTypes DEF Granted, LifecycleInv, LifecycleTypeOK
<1> HIDE DEF n
<1>7. native'[n] = "fixup" /\ \A m \in Runs : m # n => native'[m] = native[m] /\ ~There(m)'
  BY <1>2, <1>3, <1>4, <1>6 DEF There
<1>8. LifecycleTypeOK'
  <2>1. native' \in [Runs -> Places]
    BY <1>4, <1>6 DEF Places
  <2>2. osPriority' \in [Runs -> Granted] /\ needsReset' \in BOOLEAN
    BY <1>4, <1>6
  <2>3. /\ mutex' \in Callers \cup {None} /\ running' \in BOOLEAN /\ finishing' \in BOOLEAN
        /\ hasFinished' \in BOOLEAN /\ joinable' \in BOOLEAN /\ handle' \in Created' \cup {0}
        /\ priority' \in Priorities \cup {Inherit}
    BY <1>5, <1>6 DEF LifecycleInv, LifecycleTypeOK
  <2>4. QED
    BY <1>1, <2>1, <2>2, <2>3 DEF Granted, LifecycleTypeOK, CallState, Places
<1>9. CallsAreSane' /\ Alone' /\ HoldersHold'
  BY <1>1, <1>2, <1>5 DEF LifecycleInv, CallsAreSane, Alone, HoldersHold
<1>10. InOrder'
  BY <1>3, LifecycleAssumption DEF InOrder, Runs
<1>11. NamesTheUnreaped'
  BY <1>1, <1>2, <1>3, <1>5, <1>7 DEF NamesTheUnreaped
<1>12. OverIsOver' 
  BY <1>1, <1>2, <1>5 DEF OverIsOver
<1>13. PriorityIsKept'
  <2>1. ~needsReset' => osPriority'[n] \in {priority', Unheeded}
    BY <1>3, <1>4, <1>5, <1>6
  <2>2. QED
    BY <1>1, <1>2, <1>5, <1>7, <2>1 DEF PriorityIsKept, PriorityIsTheLastAsked, There
<1>14. QED
  BY <1>8, <1>9, <1>10, <1>11, <1>12, <1>13 DEF LifecycleInv

LEMMA StepOfCreateFails ==
    ASSUME LifecycleInv, NEW c \in Callers, CreateFails(c)
    PROVE  LifecycleInv'
<1>1. /\ call' \in [Callers -> CallState] /\ call'[c].at = "idle" /\ call'[c].op = "none"
      /\ \A d \in Callers : d # c => call'[d] = call[d]
  BY SetFacts, IdleIsCall DEF LifecycleInv, CreateFails, Returns
<1>2. /\ ~joinable /\ call[c].op = "start" /\ \A n \in Runs : ~There(n)
      /\ \A d \in Callers : d # c => call[d].op = "none" /\ call[d].at = "idle"
  BY NobodyIsThere DEF CreateFails
<1>3. Created' = Created /\ Cardinality(Created') = Cardinality(Created)
  BY SameRuns DEF CreateFails
<1>4. LifecycleTypeOK'
  BY <1>1, <1>3, CallTypes DEF LifecycleInv, LifecycleTypeOK, CallState, CreateFails
<1>5. CallsAreSane' /\ Alone' /\ HoldersHold'
  BY <1>1, <1>2, LifecycleAssumption
  DEF LifecycleInv, CallsAreSane, Alone, HoldersHold, CreateFails
<1>6. InOrder'
  BY <1>3 DEF LifecycleInv, InOrder
<1>7. NamesTheUnreaped'
  BY <1>1, <1>2 DEF NamesTheUnreaped, There, CreateFails
<1>8. OverIsOver' /\ PriorityIsKept'
  BY <1>1, <1>2 DEF OverIsOver, PriorityIsKept, PriorityIsTheLastAsked, There, CreateFails
<1>9. QED
  BY <1>4, <1>5, <1>6, <1>7, <1>8 DEF LifecycleInv

LEMMA StepOfPublish ==
    ASSUME LifecycleInv, NEW c \in Callers, Publish(c)
    PROVE  LifecycleInv'
<1> DEFINE n == Cardinality(Created)
<1>1. /\ call' \in [Callers -> CallState] /\ call'[c].at = "idle" /\ call'[c].op = "none"
      /\ \A d \in Callers : d # c => call'[d] = call[d]
  BY SetFacts, IdleIsCall DEF LifecycleInv, Publish, Returns
<1>2. /\ ~joinable /\ call[c].op = "start" /\ n \in Runs /\ native[n] = "fixup" /\ n \in Created
      /\ mutex = c
  BY DEF LifecycleInv, NamesTheUnreaped, CallsAreSane, Publish, Created, HoldersHold
<1>3. \A d \in Callers : d # c => call[d].op = "none" /\ call[d].at = "idle"
  BY <1>2 DEF LifecycleInv, Alone, CallsAreSane
<1>4. Created' = Created /\ Cardinality(Created') = n
  BY SameRuns DEF Publish
<1>5. /\ handle' = n /\ joinable' /\ mutex' = None
      /\ UNCHANGED <<running, finishing, hasFinished, priority, needsReset, native, osPriority>>
  BY DEF Publish
<1>6. \A m \in Runs : There(m) => m = n
  BY <1>2 DEF LifecycleInv, NamesTheUnreaped
<1>7. ~hasFinished
  BY DEF Publish, LifecycleInv, OverIsOver
<1> HIDE DEF n
<1>8. LifecycleTypeOK'
  <2>1. handle' \in Created' \cup {0} /\ mutex' \in Callers \cup {None} /\ joinable' \in BOOLEAN
    BY <1>2, <1>4, <1>5 DEF Publish
  <2>2. QED
    BY <1>1, <1>5, <2>1 DEF LifecycleInv, LifecycleTypeOK, CallState
<1>9. CallsAreSane' /\ Alone' /\ HoldersHold'
  BY <1>1, <1>3, <1>5, LifecycleAssumption DEF LifecycleInv, CallsAreSane, Alone, HoldersHold
<1>10. InOrder'
  BY <1>4 DEF LifecycleInv, InOrder, n
<1>11. NamesTheUnreaped'
  BY <1>1, <1>2, <1>3, <1>5, <1>6 DEF NamesTheUnreaped, There
<1>12. OverIsOver'
  BY <1>1, <1>3, <1>5, <1>7 DEF OverIsOver, There
<1>13. PriorityIsKept'
  BY <1>1, <1>2, <1>3, <1>5 DEF LifecycleInv, PriorityIsKept, PriorityIsTheLastAsked
<1>14. QED
  BY <1>8, <1>9, <1>10, <1>11, <1>12, <1>13 DEF LifecycleInv

LEMMA StepOfSetPriority ==
    ASSUME LifecycleInv, NEW c \in Callers, NEW p \in Priorities, SetPriority(c, p)
    PROVE  LifecycleInv'
<1>1. /\ UNCHANGED <<mutex, running, finishing, hasFinished, joinable, handle, needsReset,
                     native, call>>
      /\ priority' = p /\ Apply(p)
      /\ joinable /\ mutex = None
  BY DEF SetPriority
<1>2. Created' = Created /\ Cardinality(Created') = Cardinality(Created)
  BY <1>1, SameRuns
<1>3. handle \in Runs /\ osPriority \in [Runs -> Granted]
      /\ \A n \in Runs : There(n) => n = handle
  BY <1>1 DEF Granted, LifecycleInv, LifecycleTypeOK, NamesTheUnreaped
<1>4. osPriority' \in [Runs -> Granted] /\ osPriority'[handle] \in {p, Unheeded}
  BY <1>1, <1>3 DEF Apply, Granted
<1>5. LifecycleTypeOK'
  BY <1>1, <1>2, <1>4 DEF Granted, LifecycleInv, LifecycleTypeOK
<1>6. CallsAreSane' /\ Alone' /\ HoldersHold' /\ InOrder' /\ OverIsOver'
  BY <1>1, <1>2 DEF LifecycleInv, CallsAreSane, Alone, HoldersHold, InOrder, OverIsOver, There
<1>7. NamesTheUnreaped'
  BY <1>1, <1>2 DEF LifecycleInv, NamesTheUnreaped, There
<1>8. PriorityIsKept'
  <2>1. \A d \in Callers : call[d].at # "create"
    BY <1>1 DEF LifecycleInv, NamesTheUnreaped
  <2>2. \A n \in Runs : native[n] = "fixup" => n = handle
    BY <1>3 DEF There
  <2>3. QED
    BY <1>1, <1>4, <2>1, <2>2 DEF PriorityIsKept, PriorityIsTheLastAsked
<1>9. QED
  BY <1>5, <1>6, <1>7, <1>8 DEF LifecycleInv
-----------------------------------------------------------------------------
\* A thread that is not new, or finds the mutex free, is the one the handle names.
LEMMA BodyIsNamed ==
    ASSUME LifecycleInv, NEW n \in Runs, There(n), mutex = None \/ native[n] # "fixup"
    PROVE  joinable /\ handle = n /\ \A m \in Runs : There(m) => m = n
<1>1. joinable
  <2> SUFFICES ASSUME ~joinable PROVE FALSE
    OBVIOUS
  <2>1. PICK c \in Callers : call[c].at = "publish"
    BY DEF LifecycleInv, NamesTheUnreaped
  <2>2. native[n] = "fixup" /\ mutex = c
    BY <2>1 DEF LifecycleInv, NamesTheUnreaped, HoldersHold
  <2>3. QED
    BY <2>2, LifecycleAssumption
<1>2. QED
  BY <1>1 DEF LifecycleInv, NamesTheUnreaped

\* It goes on to another place in threadBody().
LEMMA BodyMoves ==
    ASSUME LifecycleInv, NEW n \in Runs, There(n), mutex = None \/ native[n] # "fixup",
           NEW place \in Places \ {"none", "fixup", "joined"},
           native' = [native EXCEPT ![n] = place],
           UNCHANGED <<mutex, joinable, handle, priority>>,
           running' \in BOOLEAN, finishing' \in BOOLEAN, needsReset' \in BOOLEAN,
           hasFinished => place \in {"notifying", "exited"},
           hasFinished' = (hasFinished \/ place = "notifying"),
           osPriority' \in [Runs -> Granted],
           place = "body" => osPriority'[n] \in {priority, Unheeded},
           call' \in [Callers -> CallState],
           \A c \in Callers : /\ call'[c].op = call[c].op /\ call'[c].prio = call[c].prio
                              /\ \/ call'[c].at = call[c].at
                                 \/ call[c].at = "asleep" /\ call'[c].at = "check"
    PROVE  LifecycleInv'
<1>1. joinable /\ handle = n /\ \A m \in Runs : There(m) => m = n
  BY BodyIsNamed
<1>2. native \in [Runs -> Places]
  BY CallTypes DEF LifecycleInv
<1>3. native' \in [Runs -> Places] /\ native'[n] = place
      /\ \A m \in Runs : m # n => native'[m] = native[m]
  BY <1>2
<1>4. Created' = Created /\ Cardinality(Created') = Cardinality(Created)
  BY <1>3, SameRuns DEF There
<1>5. There(n)' /\ \A m \in Runs : There(m)' => m = n
  BY <1>1, <1>3 DEF There
<1>6. LifecycleTypeOK'
  BY <1>3, <1>4 DEF Granted, LifecycleInv, LifecycleTypeOK, CallState, Places
<1>7. CallsAreSane' /\ Alone' /\ HoldersHold'
  <2>1. \A c \in Callers : /\ call'[c].at = "idle" <=> call[c].at = "idle"
                           /\ call'[c].at \in {"launch", "create", "publish", "joining"} =>
                                call'[c].at = call[c].at
                           /\ call[c].at \in {"launch", "create", "publish", "joining"} =>
                                call'[c].at = call[c].at
    OBVIOUS
  <2>2. QED
    BY <2>1 DEF LifecycleInv, CallsAreSane, Alone, HoldersHold
<1>8. InOrder'
  BY <1>4 DEF LifecycleInv, InOrder
<1>9. NamesTheUnreaped'
  <2>1. \A c \in Callers : call'[c].at \notin {"launch", "create", "publish"}
    BY <1>1 DEF LifecycleInv, NamesTheUnreaped
  <2>2. QED
    BY <1>1, <1>5, <2>1 DEF NamesTheUnreaped
<1>10. OverIsOver'
  <2>1. \A c \in Callers : call'[c].at \notin {"launch", "create", "publish"}
    BY <1>1 DEF LifecycleInv, NamesTheUnreaped
  <2>2. hasFinished' => \A m \in Runs : There(m)' => native'[m] \in {"notifying", "exited"}
    BY <1>3, <1>5
  <2>3. \A c \in Callers : call'[c].at \in {"join", "joining"} => hasFinished'
    BY DEF LifecycleInv, OverIsOver
  <2>4. QED
    BY <2>1, <2>2, <2>3 DEF OverIsOver
<1>11. PriorityIsKept'
  <2>1. \A c \in Callers : call'[c].at # "create"
    BY <1>1 DEF LifecycleInv, NamesTheUnreaped
  <2>2. \A m \in Runs : native'[m] # "fixup"
    BY <1>3, <1>5 DEF There
  <2>3. QED
    BY <1>1, <1>3, <2>1, <2>2 DEF PriorityIsKept, PriorityIsTheLastAsked
<1>12. QED
  BY <1>6, <1>7, <1>8, <1>9, <1>10, <1>11 DEF LifecycleInv

LEMMA StepOfBody ==
    ASSUME LifecycleInv, NEW n \in Runs, Body(n)
    PROVE  LifecycleInv'
<1>1. /\ call \in [Callers -> CallState]
      /\ osPriority \in [Runs -> Granted] /\ hasFinished \in BOOLEAN
      /\ running \in BOOLEAN /\ finishing \in BOOLEAN /\ needsReset \in BOOLEAN
      /\ priority \in Priorities \cup {Inherit}
      /\ There(n) => (hasFinished => native[n] \in {"notifying", "exited"})
  BY CallTypes DEF Granted, LifecycleInv, LifecycleTypeOK, OverIsOver
<1>2. CASE FixUp(n)
  <2>1. There(n) /\ ~hasFinished /\ mutex = None /\ native[n] = "fixup"
    BY <1>1, <1>2 DEF FixUp, There
  <2>2. joinable /\ handle = n
    BY <2>1, BodyIsNamed
  <2>3. osPriority' \in [Runs -> Granted] /\ osPriority'[n] \in {priority, Unheeded}
    <3>1. ~needsReset => osPriority[n] \in {priority, Unheeded}
      BY <2>1 DEF LifecycleInv, PriorityIsKept
    <3>2. QED
      BY <1>1, <1>2, <2>2, <3>1 DEF FixUp, Apply, Granted
  <2>4. QED
    BY <1>1, <1>2, <2>1, <2>3, BodyMoves DEF FixUp, Places
<1>3. CASE RunReturns(n)
  <2>1. There(n) /\ ~hasFinished
    BY <1>1, <1>3 DEF RunReturns, There
  <2>2. QED
    BY <1>1, <1>3, <2>1, BodyMoves DEF RunReturns, Places
<1>4. CASE Finish(n)
  <2>1. There(n) /\ ~hasFinished
    BY <1>1, <1>4 DEF Finish, There
  <2>2. QED
    BY <1>1, <1>4, <2>1, BodyMoves DEF Finish, Places
<1>5. CASE ReleaseWaiters(n)
  <2>1. There(n) /\ ~hasFinished
    BY <1>1, <1>5 DEF ReleaseWaiters, There
  <2>2. QED
    BY <1>1, <1>5, <2>1, BodyMoves DEF ReleaseWaiters, Places
<1>6. CASE NotifyWaiters(n)
  <2>1. There(n)
    BY <1>6 DEF NotifyWaiters, There
  <2>2. /\ call' \in [Callers -> CallState]
        /\ \A c \in Callers : /\ call'[c].op = call[c].op /\ call'[c].prio = call[c].prio
                              /\ \/ call'[c].at = call[c].at
                                 \/ call[c].at = "asleep" /\ call'[c].at = "check"
    <3>1. ASSUME NEW s \in CallState
          PROVE  /\ [s EXCEPT !.at = "check"] \in CallState
                 /\ [s EXCEPT !.at = "check"].at = "check"
                 /\ [s EXCEPT !.at = "check"].op = s.op /\ [s EXCEPT !.at = "check"].prio = s.prio
      BY DEF CallState, Step
    <3>2. \A c \in Callers : /\ call[c] \in CallState
                             /\ \/ call'[c] = call[c]
                                \/ call[c].at = "asleep" /\ call'[c] = [call[c] EXCEPT !.at = "check"]
      BY <1>1, <1>6 DEF NotifyWaiters, Woken, Sleepers
    <3>3. call' = [c \in Callers |-> call'[c]]
      BY <1>6 DEF NotifyWaiters, Woken
    <3>4. \A c \in Callers : call'[c] \in CallState
      BY <3>1, <3>2, ZenonT(60)
    <3>5. call' \in [Callers -> CallState]
      BY <3>3, <3>4
    <3>6. ASSUME NEW c \in Callers
          PROVE  /\ call'[c].op = call[c].op /\ call'[c].prio = call[c].prio
                 /\ \/ call'[c].at = call[c].at
                    \/ call[c].at = "asleep" /\ call'[c].at = "check"
      <4>1. CASE call'[c] = call[c]
        BY <4>1
      <4>2. CASE call[c].at = "asleep" /\ call'[c] = [call[c] EXCEPT !.at = "check"]
        BY <3>1, <3>2, <4>2
      <4>3. QED
        BY <3>2, <4>1, <4>2
    <3>7. QED
      BY <3>5, <3>6
  <2>3. /\ UNCHANGED <<mutex, joinable, handle, priority, running, finishing, needsReset,
                       hasFinished, osPriority>>
        /\ native' = [native EXCEPT ![n] = "exited"] /\ native[n] = "notifying"
    BY <1>6 DEF NotifyWaiters, object
  <2>4. QED
    BY <1>1, <2>1, <2>2, <2>3, BodyMoves DEF Places
<1>7. QED
  BY <1>2, <1>3, <1>4, <1>5, <1>6 DEF Body

LEMMA StepLifecycleInv ==
    ASSUME StartsAlone, WaitsApart, LifecycleInv, [LifecycleNext]_lifecycleVars
    PROVE  LifecycleInv'
<1>1. CASE UNCHANGED lifecycleVars
  <2>1. Created' = Created /\ Cardinality(Created') = Cardinality(Created)
    BY <1>1, SameRuns DEF lifecycleVars
  <2>2. LifecycleTypeOK' /\ CallsAreSane' /\ Alone' /\ HoldersHold' /\ InOrder'
    BY <1>1, <2>1 DEF LifecycleInv, LifecycleTypeOK, CallsAreSane, Alone, HoldersHold, InOrder, lifecycleVars, object
  <2>3. NamesTheUnreaped' /\ OverIsOver' /\ PriorityIsKept'
    BY <1>1, <2>1 DEF LifecycleInv, NamesTheUnreaped, OverIsOver, PriorityIsKept, PriorityIsTheLastAsked,
                      There, lifecycleVars, object
  <2>4. QED
    BY <2>2, <2>3 DEF LifecycleInv
<1>2. ASSUME NEW c \in Callers,
             \/ \E op \in {"wait", "timed wait"} : Wait(c, op)
             \/ \E p \in Priorities \cup {Inherit} : Start(c, p)
             \/ \E p \in Priorities : SetPriority(c, p)
             \/ TimeOut(c)
             \/ Proceed(c)
      PROVE  LifecycleInv'
  <2>1. CASE Proceed(c)
    <3>1. CASE Join(c)
      BY <3>1, StepOfJoin, StepOfCaller
    <3>2. QED
      BY <2>1, <3>1, StepOfCaller, StepOfJoined, StepOfLaunch, StepOfCreate, StepOfCreateFails,
         StepOfPublish DEF Proceed
  <2>2. QED
    BY <1>2, <2>1, StepOfCaller, StepOfSetPriority
<1>3. QED
  BY <1>1, <1>2, StepOfBody DEF LifecycleNext

LEMMA LifecycleInvImplies == LifecycleInv => HandleIsRight
<1> SUFFICES ASSUME LifecycleInv PROVE HandleIsRight
  OBVIOUS
<1>1. OneUnreapedThread
  <2>1. ASSUME NEW n \in Unreaped
        PROVE  \/ joinable /\ n = handle
               \/ ~joinable /\ Unreaped = {n} /\ \E c \in Callers : call[c].at = "publish"
    <3>1. \A m \in Runs : There(m) <=> m \in Unreaped
      BY DEF There, Unreaped
    <3>2. n \in Runs
      BY DEF Unreaped
    <3>3. CASE joinable
      BY <2>1, <3>1, <3>2, <3>3 DEF LifecycleInv, NamesTheUnreaped
    <3>4. CASE ~joinable
      <4>1. n = Cardinality(Created) /\ \E c \in Callers : call[c].at = "publish"
        BY <3>1, <3>2, <3>4 DEF LifecycleInv, NamesTheUnreaped
      <4>2. \A m \in Unreaped : m = n
        <5>1. \A m \in Unreaped : m \in Runs /\ There(m)
          BY <3>1 DEF Unreaped
        <5>2. QED
          BY <3>4, <4>1, <5>1 DEF LifecycleInv, NamesTheUnreaped
      <4>3. QED
        BY <3>4, <4>1, <4>2
    <3>5. QED
      BY <3>3, <3>4
  <2>2. QED
    BY <2>1 DEF OneUnreapedThread
<1>2. JoinsOnlyFinished
  BY DEF LifecycleInv, NamesTheUnreaped, OverIsOver, JoinsOnlyFinished
<1>3. QED
  BY <1>1, <1>2 DEF LifecycleInv, PriorityIsKept, HandleIsRight

\* Whatever callers and timed waits do, and however creation fails: mThreadId names the one
\* thread nobody has reaped, it is joined when it is over, and priority() is what it runs
\* at.  The two premises are the callers' part; the code does not check it.
THEOREM HandleIsAlwaysRight ==
    ASSUME StartsAlone, WaitsApart
    PROVE  LifecycleSpec => []HandleIsRight
<1>1. LifecycleInit => LifecycleInv
  BY InitLifecycleInv
<1>2. LifecycleInv /\ [LifecycleNext]_lifecycleVars => LifecycleInv'
  BY StepLifecycleInv
<1>3. LifecycleInv => HandleIsRight
  BY LifecycleInvImplies
<1>4. QED
  BY <1>1, <1>2, <1>3, PTL DEF LifecycleSpec

\* Who leaves wait() without having given up, or slept, leaves nobody unreaped behind.
LEMMA LeavingMeansReaped ==
    ASSUME LifecycleInv, LifecycleNext, NEW c \in Callers, c \in Waiting,
           call'[c] = Idle, call[c].at # "asleep"
    PROVE  \A n \in Runs : native'[n] \in {"none", "joined"}
<1>1. /\ call[c].op \in {"wait", "timed wait"} /\ call[c].at # "idle" /\ call[c] # Idle
      /\ native \in [Runs -> Places] /\ call \in [Callers -> CallState]
  BY CallTypes, IdleIsCall DEF LifecycleInv, CallsAreSane, Waiting
<1>2. call[c].at \in {"claim", "check", "join", "joining"}
  BY <1>1 DEF LifecycleInv, CallsAreSane, CallState, Step
<1>3. \A d \in Callers : call[d].op # "start" /\ call[d].at # "publish"
  BY <1>1 DEF LifecycleInv, CallsAreSane, Alone
<1>4. ~joinable => \A n \in Runs : ~There(n)
  BY <1>3 DEF LifecycleInv, NamesTheUnreaped
<1>5. ASSUME UNCHANGED native, ~joinable
      PROVE  \A n \in Runs : native'[n] \in {"none", "joined"}
  BY <1>4, <1>5 DEF There
<1>6. CASE Claim(c) \/ Join(c)
  <2>1. UNCHANGED native
    BY <1>6 DEF Claim, Join
  <2>2. ~Goes(c, "check") /\ ~Goes(c, "joining")
    BY <1>1, <1>2, IdleIsCall, GoesFacts DEF LifecycleInv, Step
  <2>3. ~joinable
    BY <1>6, <2>2 DEF Claim, Join
  <2> QED
    BY <1>5, <2>1, <2>3
<1>7. CASE Joined(c)
  <2>1. native' = [native EXCEPT ![handle] = "joined"] /\ joinable
    BY <1>7 DEF Joined, LifecycleInv, NamesTheUnreaped
  <2>2. \A n \in Runs : n # handle => ~There(n)
    BY <1>3, <2>1 DEF LifecycleInv, NamesTheUnreaped
  <2> QED
    BY <1>1, <2>1, <2>2 DEF There
<1>8. ~Check(c)
  BY <1>1, IdleIsCall, GoesFacts DEF Check, LifecycleInv, Step
<1>9. CASE \E d \in Callers : d # c /\
             \/ \E op \in {"wait", "timed wait"} : Wait(d, op)
             \/ \E p \in Priorities \cup {Inherit} : Start(d, p)
             \/ TimeOut(d) \/ Proceed(d)
  <2>1. PICK d \in Callers : d # c /\
             \/ \E op \in {"wait", "timed wait"} : Wait(d, op)
             \/ \E p \in Priorities \cup {Inherit} : Start(d, p)
             \/ TimeOut(d) \/ Proceed(d)
    BY <1>9
  <2>2. \E s : call' = [call EXCEPT ![d] = s]
    BY <2>1 DEF Wait, Start, TimeOut, Proceed, Claim, Check, Join, Joined, Launch, Create,
                CreateFails, Publish, Goes, Returns, WaitReturns
  <2>3. call'[c] = call[c]
    BY <1>1, <2>1, <2>2
  <2> QED
    BY <1>1, <2>3
<1>10. CASE \E d \in Callers, p \in Priorities : SetPriority(d, p)
  BY <1>1, <1>10 DEF SetPriority
<1>11. CASE \E n \in Runs : Body(n)
  <2>1. call' = call \/ call' = Woken
    BY <1>11 DEF Body, FixUp, RunReturns, Finish, ReleaseWaiters, NotifyWaiters
  <2>2. c \notin Sleepers => Woken[c] = call[c]
    BY DEF Woken
  <2>3. c \notin Sleepers
    BY <1>2 DEF Sleepers
  <2> QED
    BY <1>1, <2>1, <2>2, <2>3
<1>12. ~Wait(c, "wait") /\ ~Wait(c, "timed wait") /\ \A p : ~Start(c, p)
  BY <1>1 DEF Wait, Start
<1>13. ~TimeOut(c) /\ ~Launch(c) /\ ~Create(c) /\ ~CreateFails(c) /\ ~Publish(c)
  BY <1>2 DEF TimeOut, Launch, Create, CreateFails, Publish
<1>14. CASE \E d \in Callers :
                \/ \E op \in {"wait", "timed wait"} : Wait(d, op)
                \/ \E p \in Priorities \cup {Inherit} : Start(d, p)
                \/ TimeOut(d) \/ Proceed(d)
  <2>1. PICK d \in Callers :
                \/ \E op \in {"wait", "timed wait"} : Wait(d, op)
                \/ \E p \in Priorities \cup {Inherit} : Start(d, p)
                \/ TimeOut(d) \/ Proceed(d)
    BY <1>14
  <2>2. CASE d # c
    BY <1>9, <2>1, <2>2
  <2>3. CASE d = c
    BY <1>6, <1>7, <1>8, <1>12, <1>13, <2>1, <2>3 DEF Proceed
  <2> QED
    BY <2>2, <2>3
<1> QED
  BY <1>10, <1>11, <1>14 DEF LifecycleNext

\* wait() returning true means the run is over and its thread reaped, whoever reaped it
\* (Thread.cpp:251, ThreadPosix.cpp:346).
THEOREM WaitingMeansReaped ==
    ASSUME StartsAlone, WaitsApart
    PROVE  LifecycleSpec => WaitMeansReaped
<1>1. LifecycleInit => LifecycleInv
  BY InitLifecycleInv
<1>2. LifecycleInv /\ [LifecycleNext]_lifecycleVars => LifecycleInv'
  BY StepLifecycleInv
<1>3. LifecycleInv /\ [LifecycleNext]_lifecycleVars =>
          [\A c \in Callers :
              /\ c \in Waiting
              /\ call'[c] = Idle
              /\ call[c].at # "asleep"
              => \A n \in Runs : native'[n] \in {"none", "joined"}]_lifecycleVars
  BY LeavingMeansReaped
<1> QED
  BY <1>1, <1>2, <1>3, PTL DEF LifecycleSpec, WaitMeansReaped
-----------------------------------------------------------------------------
(***************************************************************************)
(* The wait of an idle loop, and the signal watcher it wakes for.          *)
(***************************************************************************)

-----------------------------------------------------------------------------
(* The invariant of the wait, WaitInv: a set flag has a write behind it or the loop about to  *)
(* clear it, so who leaves the writing to another leaves it to somebody.                       *)

Items == {"event", "deliver"} \X Nat
Messages == {"input", "quit"}

(* The wait, whoever calls it.                                             *)

WaitTypes ==
    /\ backend \in Backends /\ pc \in Phases /\ waker \in [Threads -> Steps]
    /\ wakeUpRequested \in BOOLEAN /\ interrupted \in BOOLEAN /\ wakePending \in BOOLEAN
    /\ notified \in BOOLEAN /\ refused \in BOOLEAN
    /\ queue \in Seq(Items) /\ batch \in Seq(Items)
    /\ sources \in Seq(Source) /\ ready \in SUBSET Source
    /\ called \in Source \cup {NoSource}
    /\ wakeFd \in Nat /\ nextGeneration \in Nat /\ readable \in SUBSET Fds
    /\ input \in Seq(Messages)

Bounded == Len(sources) <= MaxSources /\ Len(input) <= MaxInput

\* Where the steps of wakeWaiter() and of the loop can be.
Where ==
    /\ \A t \in Threads : waker[t] = "undo" => refused
    /\ refused => backend = "message"
    /\ pc = "read" => backend = "poll" /\ wakeFd > 0
    /\ pc = "clear" => backend \in {"poll", "event"}
    /\ pc = "pump-clear" => backend = "message"
    /\ pc \in {"sources", "callback"} => backend = "poll"
    /\ waker[Loop] # "idle" => pc \in {"pass", "dispatch", "callback"}
    /\ pc \notin {"platform", "pump-clear", "dispatch"} => batch = <<>>

\* Somebody is about to write, or to give the flag back, or the loop is to clear it.
Writing == \E t \in Threads : waker[t] = "write"
Noting == \E t \in Threads : waker[t] = "notify"
Exchanging == \E t \in Threads : waker[t] = "exchange"
Coming == wakeFd > 0 \/ Writing \/ Noting \/ (Exchanging /\ ~wakePending)

\* A set flag has something behind it, or the loop is about to clear it.
FlagIsBacked ==
    wakePending => wakeFd > 0 \/ Writing \/ refused \/ pc \in {"clear", "pump-clear"}

\* What keeps the loop from sleeping on.
ToBeNoticed ==
    \/ pc = "blocked" /\ queue # <<>>
    \/ pc \in {"collect", "blocked"} /\ interrupted
    \/ wakeUpRequested /\ backend # "message" /\ pc \notin {"clear", "sources", "callback",
            "relock"}
    \/ backend = "poll" /\ pc = "blocked" /\ ready # Range(sources)

NoticeIsComing == backend # "condition-variable" /\ ~refused /\ ToBeNoticed => Coming

ConditionIsSignalled ==
    backend = "condition-variable" /\ pc = "blocked" /\ Predicate => notified \/ Noting

\* A descriptor has one registration, and none of those to come is among them.
OneEach ==
    /\ \A i, j \in 1 .. Len(sources) : sources[i].fd = sources[j].fd => i = j
    /\ \A r, s \in ready : r.fd = s.fd => r = s
    /\ \A i \in 1 .. Len(sources) : sources[i].generation < nextGeneration
    /\ \A s \in ready : s.generation < nextGeneration

WaitInv ==
    /\ WaitTypes /\ Bounded /\ Where /\ FlagIsBacked /\ NoticeIsComing /\ ConditionIsSignalled
    /\ OneEach

(* The watcher.                                                            *)

KernelState ==
    [disposition : [Signals -> {"default", "handler"}], blocked : BOOLEAN, killed : BOOLEAN,
     pending : SUBSET Signals, pipe : Seq(Signals), running : SUBSET (Signals \X Nat),
     signals : Nat]

WatchTypes ==
    /\ mode \in DOMAIN ModeOf /\ backend \in ModeOf[mode] /\ handlerFd \in Nat
    /\ watcher \in WatcherState /\ console \in ConsoleState /\ kernel \in KernelState

\* One emission, for a watcher that was asked.
ToldOnce ==
    /\ watcher.emitted = IF watcher.delivered THEN 1 ELSE 0
    /\ watcher.delivered => watcher.asked

\* Where the watcher's steps can be.
WatchWhere ==
    /\ watcher.acknowledging => watcher.delivered /\ mode = "Console"
    /\ watcher.phase # "none" => mode # "none" /\ watcher.id > 0
    /\ watcher.phase \in {"registered", "published", "half-installed"} => mode = "Handler"
    /\ watcher.phase = "registered" => ~watcher.asked
    /\ watcher.phase = "restored" => mode \in {"Handler", "SignalFd"}
    /\ ~Settled => pc \in {"pass", "dispatch", "callback"}
    /\ watcher.phase \in {"stopping", "restored"} => waker[Loop] = "idle"

\* The handler's descriptor is the living watcher's, and what runs was asked of it or of one
\* before it.
HandlerIsOurs ==
    /\ handlerFd # NoWatcher =>
           handlerFd = watcher.id /\ watcher.phase \in Receiving /\ mode = "Handler"
    /\ mode = "Handler" /\ watcher.phase \in Receiving => handlerFd = watcher.id
    /\ \A h \in kernel.running : mode = "Handler" /\ h[2] <= watcher.id
    /\ \A h \in kernel.running : h[2] = watcher.id /\ watcher.phase # "none" => watcher.asked
    /\ kernel.pipe # <<>> => mode = "Handler" /\ watcher.phase # "none" /\ watcher.asked
    /\ mode # "Handler" => \A s \in Signals : kernel.disposition[s] = "default"

NotifySources == {s \in Range(sources) : s.fd = NotifyFd}

\* What the signalfd says is what is pending, and what was asked of the watcher.
SignalFdIsTrue ==
    /\ kernel.blocked \/ kernel.pending # {} => mode = "SignalFd"
    /\ watcher.phase = "watching" /\ kernel.pending # {} => watcher.asked
    /\ mode = "SignalFd" /\ NotifyFd \in readable => kernel.pending # {}
    /\ NotifySources # {} => watcher.phase # "none" /\ mode \in {"Handler", "SignalFd"}

\* The watcher's descriptor is called for while it is readable.
PolledIsReadable ==
    backend = "poll" /\ pc \in {"read", "clear", "sources",
            "callback"} /\ ready \cap NotifySources # {}
        => NotifyFd \in readable

CallIsDue ==
    pc = "callback" /\ called.fd = NotifyFd =>
        /\ ready \cap NotifySources = {}
        /\ mode = "SignalFd" => kernel.pending # {} /\ watcher.asked

\* The console's events are for the living watcher.
Delivering(id) == <<"deliver", id>> \in Range(queue) \cup Range(batch)
ConsoleIsOurs ==
    /\ console.watcher # NoWatcher =>
          console.watcher = watcher.id /\ watcher.phase \in {"watching",
                  "stopping"} /\ mode = "Console"
    /\ \A id \in Nat : Delivering(id) =>
          mode = "Console" /\ id = watcher.id /\ watcher.phase # "none" /\ watcher.asked
    /\ console.acknowledged => mode = "Console" /\ (watcher.delivered \/ watcher.phase = "none")
    /\ \A t \in Others : console.told[t] <= watcher.id

WatchInv ==
    /\ WatchTypes /\ ToldOnce /\ WatchWhere /\ HandlerIsOurs
    /\ SignalFdIsTrue /\ PolledIsReadable /\ CallIsDue
    /\ ConsoleIsOurs /\ RequestIsHeld /\ HandlerHeardTheSlots

-----------------------------------------------------------------------------
(* Every step of wakeWaiter(), of the callers and of the loop keeps WaitInv: one lemma each.   *)

\* wakeWaiter(), first step: the condition variable is told.
LEMMA NotifyKeepsWait ==
    ASSUME WaitInv, NEW t \in Threads, Notify(t)
    PROVE  WaitInv'
<1> USE DEF Notify, StepsOn, queueVars, sourceVars, passVars, wakeVars, WaitInv
<1>1. WaitTypes'
  BY DEF WaitTypes, Steps, Phases, Threads
<1>2. Bounded' /\ OneEach'
  BY DEF Bounded, OneEach, WaitTypes
<1>3. Where'
  BY DEF Where, WaitTypes, Threads
<1>4. FlagIsBacked' /\ ConditionIsSignalled'
  BY DEF FlagIsBacked, ConditionIsSignalled, Where, WaitTypes, Writing, Noting, Predicate, Threads
<1>5. NoticeIsComing'
  BY DEF NoticeIsComing, FlagIsBacked, Where, WaitTypes, Writing, Noting, Exchanging,
         ToBeNoticed, Coming, Threads
<1> QED
  BY <1>1, <1>2, <1>3, <1>4, <1>5

\* Its second: the flag is set, and who found it set leaves the writing to another.
LEMMA ExchangeKeepsWait ==
    ASSUME WaitInv, NEW t \in Threads, Exchange(t)
    PROVE  WaitInv'
<1> USE DEF Exchange, StepsOn, queueVars, sourceVars, passVars, wakeVars, WaitInv
<1>1. WaitTypes'
  BY DEF WaitTypes, Steps, Phases, Threads
<1>2. Bounded' /\ OneEach'
  BY DEF Bounded, OneEach, WaitTypes
<1>3. Where'
  BY DEF Where, WaitTypes, Threads
<1>4. FlagIsBacked' /\ ConditionIsSignalled'
  BY DEF FlagIsBacked, ConditionIsSignalled, Where, WaitTypes, Writing, Noting, Predicate, Threads
<1>5. NoticeIsComing'
  BY DEF NoticeIsComing, FlagIsBacked, Where, WaitTypes, Writing, Noting, Exchanging,
         ToBeNoticed, Coming, Threads
<1> QED
  BY <1>1, <1>2, <1>3, <1>4, <1>5

\* Its third: the descriptor, the event or the message.  A full queue refuses it.
LEMMA WriteKeepsWait ==
    ASSUME WaitInv, NEW t \in Threads, Write(t)
    PROVE  WaitInv'
<1> USE DEF StepsOn, queueVars, sourceVars, passVars, wakeVars, WaitInv
<1>0. /\ wakeFd' \in Nat /\ refused' \in BOOLEAN
      /\ MessageQueueFull => backend = "message" /\ wakeFd' = wakeFd /\ refused'
      /\ ~MessageQueueFull => wakeFd' > 0 /\ refused' = refused
  <2>1. CASE MessageQueueFull
    BY <2>1 DEF Write, MessageQueueFull, WaitTypes
  <2>2. CASE ~MessageQueueFull
    <3>1. CASE backend = "event"
      BY <2>2, <3>1 DEF Write, WaitTypes
    <3>2. CASE backend # "event"
      BY <2>2, <3>2 DEF Write, WaitTypes
    <3> QED
      BY <3>1, <3>2
  <2> QED
    BY <2>1, <2>2
<1>00. /\ waker[t] = "write" /\ waker' = [waker EXCEPT ![t] = IF MessageQueueFull THEN "undo"
              ELSE "idle"]
       /\ (IF MessageQueueFull THEN "undo" ELSE "idle") \in Steps
       /\ UNCHANGED <<backend, queueVars, sourceVars, passVars, wakePending, notified, input,
              readable, left>>
  BY DEF Write, Steps
<1>000. waker' \in [Threads -> Steps]
  BY <1>00 DEF WaitTypes
<1>1. WaitTypes'
  BY <1>0, <1>00, <1>000 DEF WaitTypes
<1>2. Bounded' /\ OneEach'
  BY <1>0, <1>00 DEF Bounded, OneEach, WaitTypes
<1>3. Where'
  <2>1. CASE MessageQueueFull
    BY <1>0, <2>1, <1>00 DEF Where, WaitTypes, Threads
  <2>2. CASE ~MessageQueueFull
    <3>1. waker' = [waker EXCEPT ![t] = "idle"]
      BY <2>2, <1>00
    <3>2. refused' = refused /\ UNCHANGED <<pc, batch, backend, passVars>> /\ wakeFd' > 0
      BY <2>2, <1>0, <1>00
    <3> QED
      BY <3>1, <3>2 DEF Where, WaitTypes, Threads
  <2> QED
    BY <2>1, <2>2
<1>4. FlagIsBacked' /\ ConditionIsSignalled'
  BY <1>0, <1>00 DEF FlagIsBacked, ConditionIsSignalled, Where, WaitTypes, Writing, Noting,
                     Predicate, Threads
<1>5. NoticeIsComing'
  BY <1>0, <1>00 DEF NoticeIsComing, FlagIsBacked, Where, WaitTypes, Writing, Noting, Exchanging,
                     ToBeNoticed, Coming, Threads
<1> QED
  BY <1>1, <1>2, <1>3, <1>4, <1>5

\* Its fourth: the flag of a message that was refused is put back.
LEMMA UndoKeepsWait ==
    ASSUME WaitInv, NEW t \in Threads, Undo(t)
    PROVE  WaitInv'
<1> USE DEF Undo, StepsOn, queueVars, sourceVars, passVars, wakeVars, WaitInv
<1>1. WaitTypes'
  BY DEF WaitTypes, Steps, Phases, Threads
<1>2. Bounded' /\ OneEach'
  BY DEF Bounded, OneEach, WaitTypes
<1>3. Where'
  BY DEF Where, WaitTypes, Threads
<1>4. FlagIsBacked' /\ ConditionIsSignalled'
  BY DEF FlagIsBacked, ConditionIsSignalled, Where, WaitTypes, Writing, Noting, Predicate, Threads
<1>5. NoticeIsComing'
  BY DEF NoticeIsComing, FlagIsBacked, Where, WaitTypes, Writing, Noting, Exchanging,
         ToBeNoticed, Coming, Threads
<1> QED
  BY <1>1, <1>2, <1>3, <1>4, <1>5

\* Any item is posted by anybody who may call.
LEMMA PostItemKeepsWait ==
    ASSUME WaitInv, NEW t \in Threads, t = Loop => pc \in {"pass", "dispatch", "callback"},
           waker[t] = "idle", NEW item \in Items, PostItem(t, item),
           UNCHANGED <<backend, refused, wakeUpRequested, interrupted, sourceVars, passVars,
                   wakeFd,
                       wakePending, notified, input, readable>>
    PROVE  WaitInv'
<1> USE DEF PostItem, WakeWaiter, sourceVars, passVars, WaitInv
<1>0. queue' \in Seq(Items)
  BY DEF WaitTypes
<1>1. WaitTypes'
  BY <1>0 DEF WaitTypes, Steps, Phases, Threads
<1>2. Bounded' /\ OneEach'
  BY DEF Bounded, OneEach, WaitTypes
<1>3. Where'
  BY DEF Where, WaitTypes, Threads
<1>4. FlagIsBacked' /\ ConditionIsSignalled'
  BY DEF FlagIsBacked, ConditionIsSignalled, WaitTypes, Writing, Noting, Predicate, Threads
<1>5. NoticeIsComing'
  BY DEF NoticeIsComing, FlagIsBacked, WaitTypes, Writing, Noting, Exchanging, Coming, Threads
<1> QED
  BY <1>1, <1>2, <1>3, <1>4, <1>5

LEMMA WakeUpKeepsWait ==
    ASSUME WaitInv, NEW t \in Threads, WakeUp(t)
    PROVE  WaitInv'
<1> USE DEF WakeUp, MayCall, WakeWaiter, queueVars, sourceVars, passVars, wakeVars, WaitInv
<1>1. WaitTypes'
  BY DEF WaitTypes, Steps, Phases, Threads
<1>2. Bounded' /\ OneEach'
  BY DEF Bounded, OneEach, WaitTypes
<1>3. Where'
  BY DEF Where, WaitTypes, Threads
<1>4. FlagIsBacked' /\ ConditionIsSignalled'
  BY DEF FlagIsBacked, ConditionIsSignalled, Where, WaitTypes, Writing, Noting, Predicate, Threads
<1>5. NoticeIsComing'
  BY DEF NoticeIsComing, FlagIsBacked, Where, WaitTypes, Writing, Noting, Exchanging,
         ToBeNoticed, Coming, Threads
<1> QED
  BY <1>1, <1>2, <1>3, <1>4, <1>5

LEMMA InterruptKeepsWait ==
    ASSUME WaitInv, NEW t \in Threads, Interrupt(t)
    PROVE  WaitInv'
<1> USE DEF Interrupt, MayCall, WakeWaiter, queueVars, sourceVars, passVars, wakeVars, WaitInv
<1>1. WaitTypes'
  BY DEF WaitTypes, Steps, Phases, Threads
<1>2. Bounded' /\ OneEach'
  BY DEF Bounded, OneEach, WaitTypes
<1>3. Where'
  BY DEF Where, WaitTypes, Threads
<1>4. FlagIsBacked' /\ ConditionIsSignalled'
  BY DEF FlagIsBacked, ConditionIsSignalled, Where, WaitTypes, Writing, Noting, Predicate, Threads
<1>5. NoticeIsComing'
  BY DEF NoticeIsComing, FlagIsBacked, Where, WaitTypes, Writing, Noting, Exchanging,
         ToBeNoticed, Coming, Threads
<1> QED
  BY <1>1, <1>2, <1>3, <1>4, <1>5

LEMMA InputArrivesKeepsWait ==
    ASSUME WaitInv, NEW message \in Messages, InputArrives(message)
    PROVE  WaitInv'
<1> USE DEF InputArrives, Messages, queueVars, sourceVars, passVars, wakeVars, WaitInv
<1>0. input' \in Seq(Messages) /\ Len(input') <= MaxInput
  <2>1. input \in Seq(Messages) /\ input' = Append(input,
          message) /\ Len(input) + wakeFd < MaxInput /\ wakeFd \in Nat /\ MaxInput \in Nat
    BY LoopWaitAssumption DEF WaitTypes
  <2> QED
    BY ONLY <2>1, message \in Messages
<1>1. WaitTypes'
  BY <1>0 DEF WaitTypes, Steps, Phases, Threads
<1>2. Bounded' /\ OneEach'
  BY <1>0 DEF Bounded, OneEach, WaitTypes
<1>3. Where'
  BY <1>0 DEF Where, WaitTypes, Threads
<1>4. FlagIsBacked' /\ ConditionIsSignalled'
  BY <1>0 DEF FlagIsBacked, ConditionIsSignalled, Where, WaitTypes, Writing, Noting, Predicate,
              Threads
<1>5. NoticeIsComing'
  BY <1>0 DEF NoticeIsComing, FlagIsBacked, Where, WaitTypes, Writing, Noting, Exchanging,
              ToBeNoticed, Coming, Threads
<1> QED
  BY <1>1, <1>2, <1>3, <1>4, <1>5

\* Data comes to descriptors, or is taken from them.
LEMMA ReadableKeepsWait ==
    ASSUME WaitInv, readable' \in SUBSET Fds,
           UNCHANGED <<backend, queueVars, sourceVars, passVars, wakeVars, input>>
    PROVE  WaitInv'
BY DEF WaitInv, queueVars, sourceVars, passVars, wakeVars, WaitTypes, Bounded, Where,
       FlagIsBacked,
       NoticeIsComing, ConditionIsSignalled, OneEach, Writing, Noting, Exchanging, Coming,
       ToBeNoticed, Predicate

LEMMA BeginPassKeepsWait ==
    ASSUME WaitInv, BeginPass
    PROVE  WaitInv'
<1> USE DEF BeginPass, LoopFree, queueVars, sourceVars, passVars, wakeVars, WaitInv
<1>1. WaitTypes'
  BY DEF WaitTypes, Steps, Phases, Threads
<1>2. Bounded' /\ OneEach'
  BY DEF Bounded, OneEach, WaitTypes
<1>3. Where'
  BY DEF Where, WaitTypes, Threads
<1>4. FlagIsBacked' /\ ConditionIsSignalled'
  BY DEF FlagIsBacked, ConditionIsSignalled, Where, WaitTypes, Writing, Noting, Predicate, Threads
<1>5. NoticeIsComing'
  BY DEF NoticeIsComing, FlagIsBacked, Where, WaitTypes, Writing, Noting, Exchanging,
         ToBeNoticed, Coming, Threads
<1> QED
  BY <1>1, <1>2, <1>3, <1>4, <1>5

LEMMA CollectWorkKeepsWait ==
    ASSUME WaitInv, CollectWork
    PROVE  WaitInv'
<1> USE DEF CollectWork, TakeBatch, queueVars, sourceVars, passVars, wakeVars, WaitInv
<1>0. <<>> \in Seq(Items)
  OBVIOUS
<1>00. queue' \in Seq(Items) /\ batch' \in Seq(Items) /\ interrupted' = FALSE
        /\ pc' \in {"pass", "platform"}
  BY <1>0 DEF WaitTypes
<1>1. WaitTypes'
  BY <1>0, <1>00 DEF WaitTypes, Steps, Phases, Threads
<1>2. Bounded' /\ OneEach'
  BY <1>0, <1>00 DEF Bounded, OneEach, WaitTypes
<1>3. Where'
  BY <1>0, <1>00 DEF Where, WaitTypes, Threads
<1>4. FlagIsBacked' /\ ConditionIsSignalled'
  BY <1>0, <1>00 DEF FlagIsBacked, ConditionIsSignalled, Where, WaitTypes, Writing, Noting,
                     Predicate, Threads
<1>5. NoticeIsComing'
  BY <1>0, <1>00 DEF NoticeIsComing, FlagIsBacked, Where, WaitTypes, Writing, Noting, Exchanging,
                     ToBeNoticed, Coming, Threads
<1> QED
  BY <1>1, <1>2, <1>3, <1>4, <1>5

LEMMA BeginWaitKeepsWait ==
    ASSUME WaitInv, BeginWait
    PROVE  WaitInv'
<1> USE DEF BeginWait, queueVars, sourceVars, passVars, wakeVars, WaitInv
<1>0. ready' \in SUBSET Source /\ \A s \in ready' : \E i \in 1 .. Len(sources) : s = sources[i]
  <2>1. sources \in Seq(Source) /\ ready' = Range(sources)
    BY DEF WaitTypes
  <2>2. DOMAIN sources = 1 .. Len(sources) /\ \A i \in 1 .. Len(sources) : sources[i] \in Source
    BY ONLY <2>1
  <2> QED
    BY ONLY <2>1, <2>2 DEF Range
<1>00. pc' \in {"relock", "blocked"}
  OBVIOUS
<1>1. WaitTypes'
  BY <1>0, <1>00 DEF WaitTypes, Steps, Phases, Threads
<1>2. Bounded' /\ OneEach'
  <2>1. Bounded'
    BY DEF Bounded
  <2>2. OneEach /\ UNCHANGED <<sources, nextGeneration>>
    OBVIOUS
  <2> QED
    BY ONLY <1>0, <2>1, <2>2 DEF OneEach
<1>3. Where'
  BY <1>0, <1>00 DEF Where, WaitTypes, Threads
<1>4. FlagIsBacked' /\ ConditionIsSignalled'
  BY <1>0, <1>00 DEF FlagIsBacked, ConditionIsSignalled, Where, WaitTypes, Writing, Noting,
                     Predicate, Threads
<1>5. NoticeIsComing'
  BY <1>0, <1>00 DEF NoticeIsComing, FlagIsBacked, Where, WaitTypes, Writing, Noting, Exchanging,
                     ToBeNoticed, Coming, Threads
<1> QED
  BY <1>1, <1>2, <1>3, <1>4, <1>5

LEMMA WakeFromConditionKeepsWait ==
    ASSUME WaitInv, WakeFromCondition
    PROVE  WaitInv'
<1> USE DEF WakeFromCondition, queueVars, sourceVars, passVars, wakeVars, WaitInv
<1>1. WaitTypes'
  BY DEF WaitTypes, Steps, Phases, Threads
<1>2. Bounded' /\ OneEach'
  BY DEF Bounded, OneEach, WaitTypes
<1>3. Where'
  BY DEF Where, WaitTypes, Threads
<1>4. FlagIsBacked' /\ ConditionIsSignalled'
  BY DEF FlagIsBacked, ConditionIsSignalled, Where, WaitTypes, Writing, Noting, Predicate, Threads
<1>5. NoticeIsComing'
  BY DEF NoticeIsComing, FlagIsBacked, Where, WaitTypes, Writing, Noting, Exchanging,
         ToBeNoticed, Coming, Threads
<1> QED
  BY <1>1, <1>2, <1>3, <1>4, <1>5

LEMMA ReturnFromPollKeepsWait ==
    ASSUME WaitInv, ReturnFromPoll
    PROVE  WaitInv'
<1> USE DEF ReturnFromPoll, queueVars, sourceVars, passVars, wakeVars, WaitInv
<1>1. WaitTypes'
  BY DEF WaitTypes, Steps, Phases, Threads
<1>2. Bounded' /\ OneEach'
  BY DEF Bounded, OneEach, WaitTypes
<1>3. Where'
  BY DEF Where, WaitTypes, Threads
<1>4. FlagIsBacked' /\ ConditionIsSignalled'
  BY DEF FlagIsBacked, ConditionIsSignalled, Where, WaitTypes, Writing, Noting, Predicate, Threads
<1>5. NoticeIsComing'
  BY DEF NoticeIsComing, FlagIsBacked, Where, WaitTypes, Writing, Noting, Exchanging,
         ToBeNoticed, Coming, Threads
<1> QED
  BY <1>1, <1>2, <1>3, <1>4, <1>5

LEMMA ReadWakeFdKeepsWait ==
    ASSUME WaitInv, ReadWakeFd
    PROVE  WaitInv'
<1> USE DEF ReadWakeFd, queueVars, sourceVars, passVars, wakeVars, WaitInv
<1>1. WaitTypes'
  BY DEF WaitTypes, Steps, Phases, Threads
<1>2. Bounded' /\ OneEach'
  BY DEF Bounded, OneEach, WaitTypes
<1>3. Where'
  BY DEF Where, WaitTypes, Threads
<1>4. FlagIsBacked' /\ ConditionIsSignalled'
  BY DEF FlagIsBacked, ConditionIsSignalled, Where, WaitTypes, Writing, Noting, Predicate, Threads
<1>5. NoticeIsComing'
  BY DEF NoticeIsComing, FlagIsBacked, Where, WaitTypes, Writing, Noting, Exchanging,
         ToBeNoticed, Coming, Threads
<1> QED
  BY <1>1, <1>2, <1>3, <1>4, <1>5

LEMMA ClearWakePendingKeepsWait ==
    ASSUME WaitInv, ClearWakePending
    PROVE  WaitInv'
<1> USE DEF ClearWakePending, queueVars, sourceVars, passVars, wakeVars, WaitInv
<1>1. WaitTypes'
  BY DEF WaitTypes, Steps, Phases, Threads
<1>2. Bounded' /\ OneEach'
  BY DEF Bounded, OneEach, WaitTypes
<1>3. Where'
  BY DEF Where, WaitTypes, Threads
<1>4. FlagIsBacked' /\ ConditionIsSignalled'
  BY DEF FlagIsBacked, ConditionIsSignalled, Where, WaitTypes, Writing, Noting, Predicate, Threads
<1>5. NoticeIsComing'
  BY DEF NoticeIsComing, FlagIsBacked, Where, WaitTypes, Writing, Noting, Exchanging,
         ToBeNoticed, Coming, Threads
<1> QED
  BY <1>1, <1>2, <1>3, <1>4, <1>5

LEMMA ReturnFromMsgWaitKeepsWait ==
    ASSUME WaitInv, ReturnFromMsgWait
    PROVE  WaitInv'
<1> USE DEF ReturnFromMsgWait, Native, queueVars, sourceVars, passVars, wakeVars, WaitInv
<1>1. WaitTypes'
  BY DEF WaitTypes, Steps, Phases, Threads
<1>2. Bounded' /\ OneEach'
  BY DEF Bounded, OneEach, WaitTypes
<1>3. Where'
  BY DEF Where, WaitTypes, Threads
<1>4. FlagIsBacked' /\ ConditionIsSignalled'
  BY DEF FlagIsBacked, ConditionIsSignalled, Where, WaitTypes, Writing, Noting, Predicate, Threads
<1>5. NoticeIsComing'
  BY DEF NoticeIsComing, FlagIsBacked, Where, WaitTypes, Writing, Noting, Exchanging,
         ToBeNoticed, Coming, Threads
<1> QED
  BY <1>1, <1>2, <1>3, <1>4, <1>5

LEMMA ReturnForNothingKeepsWait ==
    ASSUME WaitInv, ReturnForNothing
    PROVE  WaitInv'
<1> USE DEF ReturnForNothing, queueVars, sourceVars, passVars, wakeVars, WaitInv
<1>1. WaitTypes'
  BY DEF WaitTypes, Steps, Phases, Threads
<1>2. Bounded' /\ OneEach'
  BY DEF Bounded, OneEach, WaitTypes
<1>3. Where'
  BY DEF Where, WaitTypes, Threads
<1>4. FlagIsBacked' /\ ConditionIsSignalled'
  BY DEF FlagIsBacked, ConditionIsSignalled, Where, WaitTypes, Writing, Noting, Predicate, Threads
<1>5. NoticeIsComing'
  BY DEF NoticeIsComing, FlagIsBacked, Where, WaitTypes, Writing, Noting, Exchanging,
         ToBeNoticed, Coming, Threads
<1> QED
  BY <1>1, <1>2, <1>3, <1>4, <1>5

\* A source that is still registered is called back, one that is not is passed over.
LEMMA CallSourceKeepsWait ==
    ASSUME WaitInv, NEW source \in ready, CallSource(source)
    PROVE  WaitInv'
<1> USE DEF CallSource, LoopFree, IsStillRegistered, queueVars, sourceVars, passVars, wakeVars,
            WaitInv
<1>0. called' \in Source \cup {NoSource} /\ pc' \in {"sources",
        "callback"} /\ ready' \in SUBSET Source
  <2>1. ASSUME source \in Range(sources)
        PROVE  (CHOOSE s \in Range(sources) : s.fd = source.fd) \in Range(sources)
    BY <2>1
  <2>2. Range(sources) \subseteq Source
    BY DEF WaitTypes, Range
  <2> QED
    BY <2>1, <2>2 DEF WaitTypes
<1>1. WaitTypes'
  BY <1>0 DEF WaitTypes, Steps, Phases, Threads
<1>2. Bounded' /\ OneEach'
  BY <1>0 DEF Bounded, OneEach, WaitTypes
<1>3. Where'
  BY <1>0 DEF Where, WaitTypes, Threads
<1>4. FlagIsBacked' /\ ConditionIsSignalled'
  BY <1>0 DEF FlagIsBacked, ConditionIsSignalled, Where, WaitTypes, Writing, Noting, Predicate,
              Threads
<1>5. NoticeIsComing'
  BY <1>0 DEF NoticeIsComing, FlagIsBacked, Where, WaitTypes, Writing, Noting, Exchanging,
              ToBeNoticed, Coming, Threads
<1> QED
  BY <1>1, <1>2, <1>3, <1>4, <1>5

\* A callback returns, whatever it has read.
LEMMA CallbackReturnsKeepsWait ==
    ASSUME WaitInv, pc = "callback", LoopFree, pc' = "sources", called' = NoSource,
           readable' \in SUBSET Fds,
           UNCHANGED <<backend, queueVars, sourceVars, batch, ready, wakeVars, input>>
    PROVE  WaitInv'
<1> USE DEF LoopFree, queueVars, sourceVars, wakeVars, WaitInv
<1>1. WaitTypes'
  BY DEF WaitTypes, Phases
<1>2. Bounded' /\ OneEach'
  BY DEF Bounded, OneEach
<1>3. Where'
  BY DEF Where, WaitTypes, Threads
<1>4. FlagIsBacked' /\ ConditionIsSignalled'
  BY DEF FlagIsBacked, ConditionIsSignalled, Writing, Noting, Predicate
<1>5. NoticeIsComing'
  BY DEF NoticeIsComing, Writing, Noting, Exchanging, ToBeNoticed, Coming
<1> QED
  BY <1>1, <1>2, <1>3, <1>4, <1>5

LEMMA SourcesDoneKeepsWait ==
    ASSUME WaitInv, SourcesDone
    PROVE  WaitInv'
<1> USE DEF SourcesDone, queueVars, sourceVars, passVars, wakeVars, WaitInv
<1>1. WaitTypes'
  BY DEF WaitTypes, Steps, Phases, Threads
<1>2. Bounded' /\ OneEach'
  BY DEF Bounded, OneEach, WaitTypes
<1>3. Where'
  BY DEF Where, WaitTypes, Threads
<1>4. FlagIsBacked' /\ ConditionIsSignalled'
  BY DEF FlagIsBacked, ConditionIsSignalled, Where, WaitTypes, Writing, Noting, Predicate, Threads
<1>5. NoticeIsComing'
  BY DEF NoticeIsComing, FlagIsBacked, Where, WaitTypes, Writing, Noting, Exchanging,
         ToBeNoticed, Coming, Threads
<1> QED
  BY <1>1, <1>2, <1>3, <1>4, <1>5

\* The wait is over: the request is consumed and the batch taken in one hold of mMutex.
LEMMA RelockKeepsWait ==
    ASSUME WaitInv, Relock
    PROVE  WaitInv'
<1> USE DEF Relock, TakeBatch, queueVars, sourceVars, passVars, wakeVars, WaitInv
<1>0. <<>> \in Seq(Items)
  OBVIOUS
<1>00. queue' \in Seq(Items) /\ batch' \in Seq(Items) /\ interrupted' = FALSE
        /\ pc' \in {"pass", "platform"}
  BY <1>0 DEF WaitTypes
<1>1. WaitTypes'
  BY <1>0, <1>00 DEF WaitTypes, Steps, Phases, Threads
<1>2. Bounded' /\ OneEach'
  BY <1>0, <1>00 DEF Bounded, OneEach, WaitTypes
<1>3. Where'
  BY <1>0, <1>00 DEF Where, WaitTypes, Threads
<1>4. FlagIsBacked' /\ ConditionIsSignalled'
  BY <1>0, <1>00 DEF FlagIsBacked, ConditionIsSignalled, Where, WaitTypes, Writing, Noting,
                     Predicate, Threads
<1>5. NoticeIsComing'
  BY <1>0, <1>00 DEF NoticeIsComing, FlagIsBacked, Where, WaitTypes, Writing, Noting, Exchanging,
                     ToBeNoticed, Coming, Threads
<1> QED
  BY <1>1, <1>2, <1>3, <1>4, <1>5

\* PumpMessage, the two kinds of message apart.
PumpsItsOwn ==
    /\ pc = "platform" /\ LoopFree /\ backend = "message" /\ wakeFd > 0
    /\ wakeFd' = wakeFd - 1 /\ pc' = "pump-clear"
    /\ UNCHANGED <<backend, refused, queueVars, sourceVars, batch, ready, called, waker,
                   wakePending, notified, input, readable, left>>

PumpsInput ==
    /\ pc = "platform" /\ LoopFree /\ input # <<>> /\ input' = Tail(input)
    /\ \/ interrupted' = TRUE /\ WakeWaiter(Loop) /\ pc' = "dispatch"
       \/ UNCHANGED <<interrupted, waker, pc>>
    /\ UNCHANGED <<backend, refused, queue, wakeUpRequested, sourceVars, batch, ready, called,
                   wakeFd, wakePending, notified, readable, left>>

\* The loop takes its own wake-up message.
LEMMA PumpsItsOwnKeepsWait ==
    ASSUME WaitInv, PumpsItsOwn
    PROVE  WaitInv'
<1> USE DEF PumpsItsOwn, LoopFree, queueVars, sourceVars, passVars, wakeVars, WaitInv
<1>0. wakeFd' \in Nat
  <2>1. wakeFd \in Nat /\ wakeFd > 0 /\ wakeFd' = wakeFd - 1
    BY DEF WaitTypes
  <2> QED
    BY ONLY <2>1
<1>1. WaitTypes'
  BY <1>0 DEF WaitTypes, Phases
<1>2. Bounded' /\ OneEach'
  BY DEF Bounded, OneEach, WaitTypes
<1>3. Where'
  BY DEF Where, WaitTypes, Threads
<1>4. FlagIsBacked' /\ ConditionIsSignalled'
  BY DEF FlagIsBacked, ConditionIsSignalled, Where, WaitTypes, Writing, Noting, Predicate, Threads
<1>5. NoticeIsComing'
  BY DEF NoticeIsComing, FlagIsBacked, Where, WaitTypes, Writing, Noting, Exchanging,
         ToBeNoticed, Coming, Threads
<1> QED
  BY <1>1, <1>2, <1>3, <1>4, <1>5

\* The loop takes somebody's message, WM_QUIT too.
LEMMA PumpsInputKeepsWait ==
    ASSUME WaitInv, PumpsInput
    PROVE  WaitInv'
<1> USE DEF PumpsInput, LoopFree, WakeWaiter, queueVars, sourceVars, passVars, wakeVars, WaitInv
<1>0. input' \in Seq(Messages) /\ Len(input') <= Len(input)
  <2>1. input \in Seq(Messages) /\ input # <<>> /\ input' = Tail(input)
    BY DEF WaitTypes
  <2> QED
    BY ONLY <2>1
<1>00. Len(input) \in Nat /\ Len(input') \in Nat /\ MaxInput \in Nat
  BY <1>0, LoopWaitAssumption DEF WaitTypes
<1>1. WaitTypes'
  BY <1>0 DEF WaitTypes, Phases, Steps, Threads
<1>2. Bounded' /\ OneEach'
  <2>1. Len(input) <= MaxInput /\ Len(sources)' <= MaxSources
    BY DEF Bounded
  <2>2. OneEach'
    BY DEF OneEach
  <2>3. Len(input') <= MaxInput
    BY ONLY <1>0, <1>00, <2>1
  <2> QED
    BY <2>1, <2>2, <2>3 DEF Bounded
<1>3. Where'
  BY DEF Where, WaitTypes, Threads
<1>4. FlagIsBacked' /\ ConditionIsSignalled'
  BY DEF FlagIsBacked, ConditionIsSignalled, Where, WaitTypes, Writing, Noting, Predicate, Threads
<1>5. NoticeIsComing'
  BY DEF NoticeIsComing, FlagIsBacked, Where, WaitTypes, Writing, Noting, Exchanging,
         ToBeNoticed, Coming, Threads
<1> QED
  BY <1>1, <1>2, <1>3, <1>4, <1>5

LEMMA PumpMessageKeepsWait ==
    ASSUME WaitInv, PumpMessage
    PROVE  WaitInv'
<1>1. PumpsItsOwn \/ PumpsInput
  BY DEF PumpMessage, PumpsItsOwn, PumpsInput, queueVars, sourceVars, WaitInv
<1> QED
  BY <1>1, PumpsItsOwnKeepsWait, PumpsInputKeepsWait

LEMMA PumpClearsKeepsWait ==
    ASSUME WaitInv, PumpClears
    PROVE  WaitInv'
<1> USE DEF PumpClears, queueVars, sourceVars, passVars, wakeVars, WaitInv
<1>1. WaitTypes'
  BY DEF WaitTypes, Steps, Phases, Threads
<1>2. Bounded' /\ OneEach'
  BY DEF Bounded, OneEach, WaitTypes
<1>3. Where'
  BY DEF Where, WaitTypes, Threads
<1>4. FlagIsBacked' /\ ConditionIsSignalled'
  BY DEF FlagIsBacked, ConditionIsSignalled, Where, WaitTypes, Writing, Noting, Predicate, Threads
<1>5. NoticeIsComing'
  BY DEF NoticeIsComing, FlagIsBacked, Where, WaitTypes, Writing, Noting, Exchanging,
         ToBeNoticed, Coming, Threads
<1> QED
  BY <1>1, <1>2, <1>3, <1>4, <1>5

LEMMA PumpDoneKeepsWait ==
    ASSUME WaitInv, PumpDone
    PROVE  WaitInv'
<1> USE DEF PumpDone, LoopFree, queueVars, sourceVars, passVars, wakeVars, WaitInv
<1>1. WaitTypes'
  BY DEF WaitTypes, Steps, Phases, Threads
<1>2. Bounded' /\ OneEach'
  BY DEF Bounded, OneEach, WaitTypes
<1>3. Where'
  BY DEF Where, WaitTypes, Threads
<1>4. FlagIsBacked' /\ ConditionIsSignalled'
  BY DEF FlagIsBacked, ConditionIsSignalled, Where, WaitTypes, Writing, Noting, Predicate, Threads
<1>5. NoticeIsComing'
  BY DEF NoticeIsComing, FlagIsBacked, Where, WaitTypes, Writing, Noting, Exchanging,
         ToBeNoticed, Coming, Threads
<1> QED
  BY <1>1, <1>2, <1>3, <1>4, <1>5

\* A foreign message loop takes the wake-up, and messageWindowProc() clears the flag for it.
LEMMA ForeignLoopKeepsWait ==
    ASSUME WaitInv, ForeignLoopTakesWakeUp
    PROVE  WaitInv'
<1> USE DEF ForeignLoopTakesWakeUp, LoopFree, queueVars, sourceVars, passVars, wakeVars, WaitInv
<1>0. wakeFd' \in Nat
  <2>1. wakeFd \in Nat /\ wakeFd > 0 /\ wakeFd' = wakeFd - 1
    BY DEF WaitTypes
  <2> QED
    BY ONLY <2>1
<1>1. WaitTypes'
  BY <1>0 DEF WaitTypes, Steps, Phases, Threads
<1>2. Bounded' /\ OneEach'
  BY <1>0 DEF Bounded, OneEach, WaitTypes
<1>3. Where'
  BY <1>0 DEF Where, WaitTypes, Threads
<1>4. FlagIsBacked' /\ ConditionIsSignalled'
  BY <1>0 DEF FlagIsBacked, ConditionIsSignalled, Where, WaitTypes, Writing, Noting, Predicate,
              Threads
<1>5. NoticeIsComing'
  BY <1>0 DEF NoticeIsComing, FlagIsBacked, Where, WaitTypes, Writing, Noting, Exchanging,
              ToBeNoticed, Coming, Threads
<1> QED
  BY <1>1, <1>2, <1>3, <1>4, <1>5

LEMMA DispatchItemKeepsWait ==
    ASSUME WaitInv, NEW item \in Items, Dispatch(item), UNCHANGED <<queueVars, waker>>
    PROVE  WaitInv'
<1> USE DEF Dispatch, LoopFree, queueVars, sourceVars, passVars, wakeVars, WaitInv
<1>0. batch' \in Seq(Items)
  BY DEF WaitTypes
<1>1. WaitTypes'
  BY <1>0 DEF WaitTypes, Steps, Phases, Threads
<1>2. Bounded' /\ OneEach'
  BY <1>0 DEF Bounded, OneEach, WaitTypes
<1>3. Where'
  BY <1>0 DEF Where, WaitTypes, Threads
<1>4. FlagIsBacked' /\ ConditionIsSignalled'
  BY <1>0 DEF FlagIsBacked, ConditionIsSignalled, Where, WaitTypes, Writing, Noting, Predicate,
              Threads
<1>5. NoticeIsComing'
  BY <1>0 DEF NoticeIsComing, FlagIsBacked, Where, WaitTypes, Writing, Noting, Exchanging,
              ToBeNoticed, Coming, Threads
<1> QED
  BY <1>1, <1>2, <1>3, <1>4, <1>5

LEMMA EndPassKeepsWait ==
    ASSUME WaitInv, EndPass
    PROVE  WaitInv'
<1> USE DEF EndPass, LoopFree, queueVars, sourceVars, passVars, wakeVars, WaitInv
<1>1. WaitTypes'
  BY DEF WaitTypes, Steps, Phases, Threads
<1>2. Bounded' /\ OneEach'
  BY DEF Bounded, OneEach, WaitTypes
<1>3. Where'
  BY DEF Where, WaitTypes, Threads
<1>4. FlagIsBacked' /\ ConditionIsSignalled'
  BY DEF FlagIsBacked, ConditionIsSignalled, Where, WaitTypes, Writing, Noting, Predicate, Threads
<1>5. NoticeIsComing'
  BY DEF NoticeIsComing, FlagIsBacked, Where, WaitTypes, Writing, Noting, Exchanging,
         ToBeNoticed, Coming, Threads
<1> QED
  BY <1>1, <1>2, <1>3, <1>4, <1>5

(* The table of sources.                                                   *)

-----------------------------------------------------------------------------
(* The table of sources.                                                                       *)

\* What registering and unregistering leave: a table with one entry for each descriptor, and
\* somebody on the way to wake the loop if it is another.
LEMMA AddSourceKeepsEach ==
    ASSUME WaitInv, NEW t, NEW fd \in Fds, AddSource(t, fd), UNCHANGED ready
    PROVE  /\ sources' \in Seq(Source) /\ Len(sources') <= MaxSources /\ nextGeneration' \in Nat
           /\ OneEach'
           /\ UNCHANGED <<sources, waker>> \/ WakeWaiter(t)
<1> DEFINE source == [fd |-> fd, generation |-> nextGeneration]
           at == IndexOfFd(fd)
           full == at = {} /\ Len(sources) >= MaxSources
<1>1. /\ sources \in Seq(Source) /\ Len(sources) <= MaxSources /\ nextGeneration \in Nat
      /\ source \in Source /\ source.fd = fd /\ source.generation = nextGeneration
      /\ Len(sources) \in Nat /\ MaxSources \in Nat /\ ready \in SUBSET Source
  BY LoopWaitAssumption DEF WaitInv, WaitTypes, Bounded, Source
<1>2. /\ nextGeneration' = nextGeneration + 1 /\ nextGeneration' \in Nat
      /\ full => UNCHANGED <<sources, waker>>
      /\ ~full => WakeWaiter(t)
      /\ ~full /\ at = {} => sources' = Append(sources, source)
      /\ ~full /\ at # {} =>
             sources' = [i \in DOMAIN sources |-> IF i \in at THEN source ELSE sources[i]]
  BY <1>1 DEF AddSource
<1>3. /\ \A i, j \in 1 .. Len(sources) : sources[i].fd = sources[j].fd => i = j
      /\ \A i \in 1 .. Len(sources) : sources[i].generation \in Nat
             /\ sources[i].generation < nextGeneration
      /\ \A s \in ready : s.generation \in Nat /\ s.generation < nextGeneration
      /\ \A r, s \in ready : r.fd = s.fd => r = s
  <2>1. \A s \in Source : s.generation \in Nat
    BY DEF Source
  <2>2. \A i \in 1 .. Len(sources) : sources[i] \in Source
    BY ONLY <1>1
  <2> QED
    BY <1>1, <2>1, <2>2 DEF WaitInv, OneEach
<1>4. at = {i \in 1 .. Len(sources) : sources[i].fd = fd}
  <2>1. DOMAIN sources = 1 .. Len(sources)
    BY ONLY <1>1
  <2> QED
    BY ONLY <2>1 DEF IndexOfFd
<1> HIDE DEF source, at
<1>5. /\ sources' \in Seq(Source) /\ Len(sources') <= MaxSources
      /\ \A i, j \in 1 .. Len(sources') : sources'[i].fd = sources'[j].fd => i = j
      /\ \A i \in 1 .. Len(sources') : sources'[i].generation < nextGeneration'
  <2>1. CASE full
    BY ONLY <1>1, <1>2, <1>3, <2>1
  <2>2. CASE ~full /\ at = {}
    <3>1. /\ sources' = Append(sources, source) /\ Len(sources) < MaxSources
          /\ \A i \in 1 .. Len(sources) : sources[i].fd # fd
      BY <1>1, <1>2, <1>4, <2>2
    <3>2. /\ sources' \in Seq(Source) /\ Len(sources') = Len(sources) + 1
          /\ sources'[Len(sources) + 1] = source
          /\ \A i \in 1 .. Len(sources) : sources'[i] = sources[i]
      BY ONLY <3>1, <1>1
    <3> QED
      BY ONLY <3>1, <3>2, <1>1, <1>2, <1>3
  <2>3. CASE ~full /\ at # {}
    <3>1. sources' = [i \in 1 .. Len(sources) |-> IF i \in at THEN source ELSE sources[i]]
      <4>1. DOMAIN sources = 1 .. Len(sources)
        BY ONLY <1>1
      <4> QED
        BY <1>2, <2>3, <4>1
    <3>2. /\ sources' \in Seq(Source) /\ Len(sources') = Len(sources)
          /\ \A i \in 1 .. Len(sources) : sources'[i] = IF i \in at THEN source ELSE sources[i]
      BY ONLY <3>1, <1>1
    <3>3. \A i \in 1 .. Len(sources) : sources'[i].fd = sources[i].fd
      BY ONLY <3>2, <1>1, <1>4
    <3>4. \A i \in 1 .. Len(sources) : sources'[i].generation < nextGeneration'
      BY ONLY <3>2, <1>1, <1>2, <1>3
    <3> QED
      BY ONLY <3>2, <3>3, <3>4, <1>1, <1>3
  <2> QED
    BY <2>1, <2>2, <2>3
<1>6. \A s \in ready' : s.generation < nextGeneration'
  BY ONLY <1>1, <1>2, <1>3, UNCHANGED ready
<1> QED
  BY <1>2, <1>3, <1>5, <1>6 DEF OneEach

\* removeSource() leaves the registrations of the other descriptors, and those only.
LEMMA RemoveSourceKeepsEach ==
    ASSUME WaitInv, NEW t, NEW fd \in Fds, RemoveSource(t, fd), UNCHANGED <<ready,
            nextGeneration>>
    PROVE  /\ sources' \in Seq(Source) /\ Len(sources') <= MaxSources
           /\ OneEach'
           /\ Range(sources') = {s \in Range(sources) : s.fd # fd}
           /\ (Range(sources') = Range(sources) /\ UNCHANGED waker) \/ WakeWaiter(t)
<1> DEFINE P == {i \in Positions(sources) : sources[i].fd # fd}
<1>1. /\ sources \in Seq(Source) /\ Len(sources) <= MaxSources /\ nextGeneration \in Nat
      /\ Len(sources) \in Nat /\ MaxSources \in Nat /\ ready \in SUBSET Source
      /\ DOMAIN sources = 1 .. Len(sources)
  BY LoopWaitAssumption DEF WaitInv, WaitTypes, Bounded, Source
<1>2. sources' = Picked(sources, P)
  BY DEF RemoveSource
<1> HIDE DEF P
<1>b. PICK f : sources' \in Seq(Source) /\ Embeds(sources', sources, P, Len(sources), f)
  BY <1>1, <1>2, PickedEmbeds
<1>3. /\ sources' \in Seq(Source)
      /\ f \in [1 .. Len(sources') -> {k \in 1 .. Len(sources) : k \in P}]
      /\ \A i \in 1 .. Len(sources') : sources'[i] = sources[f[i]]
      /\ \A i, j \in 1 .. Len(sources') : i < j => f[i] < f[j]
      /\ \A k \in 1 .. Len(sources) : k \in P => \E i \in 1 .. Len(sources') : f[i] = k
  BY <1>b DEF Embeds
<1>4. Len(sources') \in Nat /\ DOMAIN sources' = 1 .. Len(sources')
  BY ONLY <1>3
<1>5. \A i \in 1 .. Len(sources') : f[i] \in 1 .. Len(sources) /\ f[i] \in P
  BY ONLY <1>3
<1>6. Len(sources') <= Len(sources)
  BY <1>1, <1>2, PickedIsNoLonger
<1>7. OneEach'
  <2>1. \A i, j \in 1 .. Len(sources') : sources'[i].fd = sources'[j].fd => i = j
    <3>1. \A i, j \in 1 .. Len(sources') : sources[f[i]].fd = sources[f[j]].fd => f[i] = f[j]
      BY <1>5 DEF WaitInv, OneEach
    <3>2. \A i, j \in 1 .. Len(sources') : f[i] = f[j] => i = j
      BY ONLY <1>1, <1>3, <1>4, <1>5
    <3> QED
      BY ONLY <1>3, <3>1, <3>2
  <2>2. \A i \in 1 .. Len(sources') : sources'[i].generation < nextGeneration'
    BY <1>3, <1>5 DEF WaitInv, OneEach
  <2> QED
    BY <2>1, <2>2 DEF WaitInv, OneEach
<1>8. Range(sources') = {s \in Range(sources) : s.fd # fd}
  <2>1. \A k \in 1 .. Len(sources) : k \in P <=> sources[k].fd # fd
    BY DEF Positions, P
  <2>2. ASSUME NEW s \in Range(sources')
        PROVE  s \in Range(sources) /\ s.fd # fd
    <3>1. PICK i \in 1 .. Len(sources') : s = sources'[i]
      BY <1>4 DEF Range
    <3> QED
      BY <1>1, <1>3, <1>5, <2>1, <3>1 DEF Range
  <2>3. ASSUME NEW s \in Range(sources), s.fd # fd
        PROVE  s \in Range(sources')
    <3>1. PICK k \in 1 .. Len(sources) : s = sources[k]
      BY <1>1 DEF Range
    <3>2. PICK i \in 1 .. Len(sources') : f[i] = k
      BY <1>3, <2>1, <2>3, <3>1
    <3> QED
      BY <1>3, <1>4, <3>1, <3>2 DEF Range
  <2> QED
    BY <2>2, <2>3
<1>9. CASE IndexOfFd(fd) = {}
  <2>1. \A s \in Range(sources) : s.fd # fd
    BY <1>9 DEF IndexOfFd, Range
  <2>2. UNCHANGED waker
    BY <1>9 DEF RemoveSource
  <2> QED
    BY <1>1, <1>3, <1>6, <1>7, <1>8, <2>1, <2>2
<1>10. CASE IndexOfFd(fd) # {}
  <2>1. WakeWaiter(t)
    BY <1>10 DEF RemoveSource
  <2> QED
    BY <1>1, <1>3, <1>6, <1>7, <1>8, <2>1
<1> QED
  BY <1>9, <1>10

\* The two as steps of the wait.
LEMMA TableChangeKeepsWait ==
    ASSUME WaitInv, NEW t \in Threads, t = Loop => pc \in {"pass", "dispatch", "callback"},
           waker[t] = "idle",
           sources' \in Seq(Source), Len(sources') <= MaxSources, nextGeneration' \in Nat,
                   OneEach',
           (Range(sources') = Range(sources) /\ UNCHANGED waker) \/ WakeWaiter(t),
           readable' \in SUBSET Fds,
           UNCHANGED <<backend, refused, queueVars, passVars, wakeFd, wakePending, notified,
                   input>>
    PROVE  WaitInv'
<1> USE DEF WakeWaiter, queueVars, passVars, WaitInv
<1>1. WaitTypes'
  BY DEF WaitTypes, Steps, Threads
<1>2. Bounded'
  BY DEF Bounded
<1>3. Where'
  BY DEF Where, WaitTypes, Threads
<1>4. FlagIsBacked' /\ ConditionIsSignalled'
  BY DEF FlagIsBacked, ConditionIsSignalled, WaitTypes, Writing, Noting, Predicate, Threads
<1>5. NoticeIsComing'
  BY DEF NoticeIsComing, WaitTypes, Writing, Noting, Exchanging, ToBeNoticed, Coming, Threads
<1> QED
  BY <1>1, <1>2, <1>3, <1>4, <1>5

LEMMA AddSourceKeepsWait ==
    ASSUME WaitInv, NEW t \in Threads, MayCall(t), NEW fd \in Fds, AddSource(t, fd),
           readable' \in SUBSET Fds,
           UNCHANGED <<backend, refused, queueVars, passVars, wakeFd, wakePending, notified,
                   input>>
    PROVE  WaitInv'
<1>1. UNCHANGED ready
  BY DEF passVars
<1>2. sources' = sources => Range(sources') = Range(sources)
  OBVIOUS
<1> QED
  BY <1>1, <1>2, AddSourceKeepsEach, TableChangeKeepsWait DEF MayCall

LEMMA RemoveSourceKeepsWait ==
    ASSUME WaitInv, NEW t \in Threads, t = Loop => pc \in {"pass", "dispatch", "callback"},
           waker[t] = "idle", NEW fd \in Fds, RemoveSource(t, fd),
           readable' \in SUBSET Fds,
           UNCHANGED <<backend, refused, queueVars, nextGeneration, passVars, wakeFd, wakePending,
                       notified, input>>
    PROVE  WaitInv'
<1>1. UNCHANGED <<ready, nextGeneration>> /\ nextGeneration' \in Nat
  BY DEF passVars, WaitInv, WaitTypes
<1> QED
  BY <1>1, RemoveSourceKeepsEach, TableChangeKeepsWait

\* What is left of the events when some are taken back.
LEMMA ReleaseKeepsWait ==
    ASSUME WaitInv, NEW P, NEW Q, queue' = Picked(queue, P), batch' = Picked(batch, Q),
           UNCHANGED <<backend, wakeUpRequested, interrupted, sourceVars, pc, ready, called,
                   wakeVars,
                       input, readable>>
    PROVE  WaitInv'
<1> USE DEF sourceVars, wakeVars, WaitInv
<1>1. /\ queue' \in Seq(Items) /\ batch' \in Seq(Items)
      /\ Len(queue') <= Len(queue) /\ Len(batch') <= Len(batch)
      /\ queue \in Seq(Items) /\ batch \in Seq(Items)
  BY PickedEmbeds, PickedIsNoLonger DEF WaitTypes
<1>2. (queue = <<>> => queue' = <<>>) /\ (batch = <<>> => batch' = <<>>)
  BY ONLY <1>1
<1>3. WaitTypes'
  BY <1>1 DEF WaitTypes
<1>4. Bounded' /\ OneEach'
  BY DEF Bounded, OneEach
<1>5. Where'
  BY <1>2 DEF Where
<1>6. FlagIsBacked' /\ ConditionIsSignalled'
  BY <1>2 DEF FlagIsBacked, ConditionIsSignalled, Writing, Noting, Predicate
<1>7. NoticeIsComing'
  BY <1>2 DEF NoticeIsComing, Writing, Noting, Exchanging, ToBeNoticed, Coming
<1> QED
  BY <1>3, <1>4, <1>5, <1>6, <1>7

(* The steps of the wait as a whole, and what the properties follow from.  *)

\* A loop begins with nothing to notice.
LEMMA WaitBegins ==
    ASSUME NEW bounds, LoopWaitInit(bounds)
    PROVE  WaitInv
<1> USE DEF LoopWaitInit
<1>0. <<>> \in Seq(Items) /\ <<>> \in Seq(Source) /\ <<>> \in Seq(Messages)
  OBVIOUS
<1>1. WaitTypes
  BY <1>0 DEF WaitTypes, Steps, Phases
<1>2. Bounded
  BY LoopWaitAssumption DEF Bounded
<1>3. Where
  BY DEF Where, Threads
<1>4. FlagIsBacked /\ ConditionIsSignalled
  BY DEF FlagIsBacked, ConditionIsSignalled
<1>5. NoticeIsComing
  BY DEF NoticeIsComing, ToBeNoticed
<1>6. OneEach
  BY DEF OneEach
<1> QED
  BY <1>1, <1>2, <1>3, <1>4, <1>5, <1>6 DEF WaitInv

LEMMA WakeStepKeepsWait ==
    ASSUME WaitInv, NEW t \in Threads, WakeStep(t)
    PROVE  WaitInv'
BY NotifyKeepsWait, ExchangeKeepsWait, WriteKeepsWait, UndoKeepsWait DEF WakeStep

LEMMA CallsKeepWait ==
    ASSUME WaitInv, NEW t \in Threads, Calls(t)
    PROVE  WaitInv'
<1>1. CASE Post(t)
  <2>1. Event \in Items
    BY DEF Event, Items
  <2> QED
    BY <1>1, <2>1, PostItemKeepsWait DEF Post, MayCall
<1>2. CASE WakeUp(t)
  BY <1>2, WakeUpKeepsWait
<1>3. CASE Interrupt(t)
  BY <1>3, InterruptKeepsWait
<1>4. readable \in SUBSET Fds
  BY DEF WaitInv, WaitTypes
<1>5. ASSUME NEW fd \in Fds, RegisterEventSource(t, fd)
      PROVE  WaitInv'
  BY <1>4, <1>5, AddSourceKeepsWait DEF RegisterEventSource
<1>6. ASSUME NEW fd \in Fds, UnregisterEventSource(t, fd)
      PROVE  WaitInv'
  BY <1>4, <1>6, RemoveSourceKeepsWait DEF UnregisterEventSource, MayCall
<1> QED
  BY <1>1, <1>2, <1>3, <1>5, <1>6 DEF Calls

LEMMA OutsideStepKeepsWait ==
    ASSUME WaitInv, OutsideStep
    PROVE  WaitInv'
<1>1. ASSUME NEW fd \in Fds, BecomesReadable(fd)
      PROVE  WaitInv'
  <2>1. readable' \in SUBSET Fds
    BY <1>1 DEF BecomesReadable, WaitInv, WaitTypes
  <2> QED
    BY <1>1, <2>1, ReadableKeepsWait DEF BecomesReadable
<1>2. ASSUME NEW t \in Others, Calls(t)
      PROVE  WaitInv'
  BY <1>2, CallsKeepWait DEF Threads
<1> QED
  BY <1>1, <1>2, WakeStepKeepsWait, InputArrivesKeepsWait DEF OutsideStep, Messages

LEMMA LoopStepKeepsWait ==
    ASSUME WaitInv, LoopStep
    PROVE  WaitInv'
<1>1. CASE ReturnFromCallback
  <2>1. readable' \in SUBSET Fds
    BY <1>1 DEF ReturnFromCallback, WaitInv, WaitTypes
  <2> QED
    BY <1>1, <2>1, CallbackReturnsKeepsWait DEF ReturnFromCallback
<1>2. CASE DispatchEvent
  <2>1. Event \in Items
    BY DEF Event, Items
  <2> QED
    BY <1>2, <2>1, DispatchItemKeepsWait DEF DispatchEvent
<1>3. ASSUME NEW source \in ready, CallSource(source)
      PROVE  WaitInv'
  BY <1>3, CallSourceKeepsWait
<1>4. CASE BeginPass \/ CollectWork \/ BeginWait \/ WakeFromCondition \/ ReturnFromPoll
  BY <1>4, BeginPassKeepsWait, CollectWorkKeepsWait, BeginWaitKeepsWait,
     WakeFromConditionKeepsWait,
     ReturnFromPollKeepsWait
<1>5. CASE ReadWakeFd \/ ClearWakePending \/ ReturnFromMsgWait \/ SourcesDone \/ Relock
  BY <1>5, ReadWakeFdKeepsWait, ClearWakePendingKeepsWait, ReturnFromMsgWaitKeepsWait,
     SourcesDoneKeepsWait, RelockKeepsWait
<1>6. CASE PumpMessage \/ PumpClears \/ PumpDone \/ EndPass
  BY <1>6, PumpMessageKeepsWait, PumpClearsKeepsWait, PumpDoneKeepsWait, EndPassKeepsWait
<1> QED
  BY <1>1, <1>2, <1>3, <1>4, <1>5, <1>6 DEF LoopStep

LEMMA LoopThreadStepKeepsWait ==
    ASSUME WaitInv, LoopThreadStep
    PROVE  WaitInv'
<1>1. Loop \in Threads
  BY DEF Threads
<1> QED
  BY <1>1, LoopStepKeepsWait, ReturnForNothingKeepsWait, ForeignLoopKeepsWait, CallsKeepWait
  DEF LoopThreadStep

\* WaitInv leaves nobody asleep over work.
LEMMA WaitInvWakes ==
    ASSUME WaitInv
    PROVE  WakeIsNotLost
<1>1. LoopWaitTypeOK
  <2>1. \A s \in Range(sources) \cup ready : s \in Source
    BY DEF WaitInv, WaitTypes, Range
  <2> QED
    BY <2>1 DEF LoopWaitTypeOK, WaitInv, WaitTypes, Bounded
<1>2. pc = "blocked" => waker[Loop] = "idle"
  BY DEF WaitInv, Where
<1>3. pc = "blocked" /\ Coming => WakeOnItsWay
  BY <1>2 DEF Coming, WakeOnItsWay, Noting, Writing, Exchanging, Threads
<1>4. pc = "blocked" /\ Noting => WakeOnItsWay
  BY <1>2 DEF WakeOnItsWay, Noting, Threads
<1>5. WorkWakesTheLoop
  <2>1. CASE backend = "condition-variable"
    BY <1>4, <2>1 DEF WorkWakesTheLoop, Asleep, HasWork, WaitInv, ConditionIsSignalled, Predicate,
       WakeOnItsWay
  <2>2. CASE backend # "condition-variable"
    BY <1>3, <2>2 DEF WorkWakesTheLoop, Asleep, HasWork, WaitInv, NoticeIsComing, ToBeNoticed
  <2> QED
    BY <2>1, <2>2
<1>6. SourcesArePolled
  BY <1>3 DEF SourcesArePolled, WaitInv, NoticeIsComing, ToBeNoticed, Where
<1> QED
  BY <1>1, <1>5, <1>6 DEF WakeIsNotLost

\* The source called back is the one polled: its descriptor is nobody else's.
LEMMA CalledWasPolled ==
    ASSUME WaitInv, NEW source \in ready, CallSource(source)
    PROVE  called' # called /\ called' # NoSource => called' \in ready
<1>1. CASE source \in Range(sources)
  <2>1. \A s \in Range(sources) : s.fd = source.fd => s = source
    <3>1. /\ DOMAIN sources = 1 .. Len(sources)
          /\ \A i, j \in 1 .. Len(sources) : sources[i].fd = sources[j].fd => i = j
      <4>1. sources \in Seq(Source) /\ OneEach
        BY Zenon DEF WaitInv, WaitTypes
      <4>2. \A i, j \in 1 .. Len(sources) : sources[i].fd = sources[j].fd => i = j
        BY ONLY <4>1, Zenon DEF OneEach
      <4>3. DOMAIN sources = 1 .. Len(sources)
        BY ONLY <4>1
      <4> QED
        BY ONLY <4>2, <4>3
    <3>2. PICK j \in 1 .. Len(sources) : source = sources[j]
      BY ONLY <1>1, <3>1 DEF Range
    <3>3. ASSUME NEW s \in Range(sources), s.fd = source.fd
          PROVE  s = source
      <4>1. PICK i \in 1 .. Len(sources) : s = sources[i]
        BY ONLY <3>1, <3>3 DEF Range
      <4>2. i = j
        BY ONLY <3>1, <3>2, <3>3, <4>1
      <4> QED
        BY <3>2, <4>1, <4>2
    <3> QED
      BY <3>3
  <2>2. (CHOOSE s \in Range(sources) : s.fd = source.fd) = source
    BY <1>1, <2>1
  <2> QED
    BY <1>1, <2>2 DEF CallSource, IsStillRegistered
<1>2. CASE source \notin Range(sources)
  BY <1>2 DEF CallSource, IsStillRegistered
<1> QED
  BY <1>1, <1>2

-----------------------------------------------------------------------------
(* Every step of the watcher, of the kernel and of the console keeps WatchInv: one lemma each. *)

\* The watcher is as it was, but for its phase.
SameButPhase ==
    /\ watcher' \in WatcherState
    /\ UNCHANGED <<watcher.id, watcher.delivered, watcher.acknowledging, watcher.emitted,
                   watcher.asked>>

\* The watcher's own steps leave the wait as it is.
LEMMA UnmovedKeepsWait ==
    ASSUME WaitInv, UNCHANGED waitVars
    PROVE  WaitInv'
BY ReadableKeepsWait DEF waitVars, wakeVars, WaitInv, WaitTypes

\* The handler is given the descriptor of the watcher being made.
LEMMA PublishHandlerFdKeepsWatch ==
    ASSUME WaitInv, WatchInv, PublishHandlerFd
    PROVE  WatchInv'
<1>1. /\ mode = "Handler" /\ ~watcher.asked /\ handlerFd' \in Nat
      /\ watcher.phase = "registered" /\ watcher'.phase = "published" /\ SameButPhase
      /\ handlerFd' = watcher.id /\ UNCHANGED <<waitVars, mode, console, kernel>>
  BY DEF PublishHandlerFd, SameButPhase, WatchInv, WatchWhere, WatchTypes, WatcherState
<1> USE DEF waitVars, queueVars, sourceVars, passVars, wakeVars, WatchInv, SameButPhase
<1>2. WatchTypes'
  BY <1>1 DEF WatchTypes
<1>3. ToldOnce'
  BY <1>1 DEF ToldOnce, WatchTypes, WatcherState, ConsoleState, KernelState
<1>4. WatchWhere'
  BY <1>1 DEF WatchWhere, Settled, WatchTypes, WatcherState, ConsoleState, KernelState
<1>5. HandlerIsOurs'
  BY <1>1 DEF HandlerIsOurs, Receiving, NoWatcher, WatchTypes, WatcherState, ConsoleState,
              KernelState
<1>6. SignalFdIsTrue' /\ PolledIsReadable' /\ CallIsDue'
  BY <1>1 DEF SignalFdIsTrue, PolledIsReadable, CallIsDue, NotifySources, WatchTypes,
              WatcherState, ConsoleState, KernelState
<1>7. ConsoleIsOurs'
  BY <1>1 DEF ConsoleIsOurs, Delivering, NoWatcher, WatchTypes, WatcherState, ConsoleState,
              KernelState
<1>8. RequestIsHeld'
  BY <1>1 DEF RequestIsHeld, Receiving, WatchTypes, WatcherState, ConsoleState, KernelState
<1>9. HandlerHeardTheSlots'
  BY <1>1 DEF HandlerHeardTheSlots, WatchTypes, WatcherState, ConsoleState, KernelState
<1> QED
  BY <1>2, <1>3, <1>4, <1>5, <1>6, <1>7, <1>8, <1>9

\* sigaction() for one signal.
LEMMA InstallHandlerKeepsWatch ==
    ASSUME WaitInv, WatchInv, NEW s \in Signals, InstallHandler(s)
    PROVE  WatchInv'
<1>1. /\ mode = "Handler"
      /\ watcher.phase \in {"published", "half-installed"}
      /\ watcher'.phase \in {"half-installed", "watching"}
      /\ UNCHANGED <<watcher.id, watcher.delivered, watcher.acknowledging, watcher.emitted,
             watcher.asked>>
      /\ watcher' \in WatcherState /\ kernel' \in KernelState
      /\ UNCHANGED <<kernel.blocked, kernel.pending, kernel.pipe, kernel.running>>
  BY DEF InstallHandler, Signals, WatchInv, WatchWhere, WatchTypes, WatcherState, KernelState
<1>2. /\ UNCHANGED <<waitVars, mode, handlerFd, console>>
  BY DEF InstallHandler, Signals, WatchInv, WatchTypes
<1> USE DEF waitVars, queueVars, sourceVars, passVars, wakeVars, WatchInv
<1>3. WatchTypes'
  BY <1>1, <1>2 DEF WatchTypes
<1>4. ToldOnce'
  BY <1>1, <1>2 DEF ToldOnce, WatchTypes, WatcherState, ConsoleState, KernelState
<1>5. WatchWhere'
  BY <1>1, <1>2 DEF WatchWhere, Settled, WatchTypes, WatcherState, ConsoleState, KernelState
<1>6. HandlerIsOurs'
  BY <1>1, <1>2 DEF HandlerIsOurs, Receiving, NoWatcher, WatchTypes, WatcherState, ConsoleState,
                    KernelState
<1>7. SignalFdIsTrue' /\ PolledIsReadable' /\ CallIsDue'
  BY <1>1, <1>2 DEF SignalFdIsTrue, PolledIsReadable, CallIsDue, NotifySources, WatchTypes,
                    WatcherState, ConsoleState, KernelState
<1>8. ConsoleIsOurs'
  BY <1>1, <1>2 DEF ConsoleIsOurs, Delivering, NoWatcher, WatchTypes, WatcherState, ConsoleState,
                    KernelState
<1>9. RequestIsHeld'
  BY <1>1, <1>2 DEF RequestIsHeld, Receiving, WatchTypes, WatcherState, ConsoleState, KernelState
<1>10. HandlerHeardTheSlots'
  BY <1>1, <1>2 DEF HandlerHeardTheSlots, WatchTypes, WatcherState, ConsoleState, KernelState
<1> QED
  BY <1>3, <1>4, <1>5, <1>6, <1>7, <1>8, <1>9, <1>10

LEMMA StartConsoleHandlerKeepsWatch ==
    ASSUME WaitInv, WatchInv, StartConsoleHandler
    PROVE  WatchInv'
<1>1. /\ watcher.id \in Nat /\ watcher.id + 1 \in Nat
  BY DEF StartConsoleHandler, MayConstruct, LoopCalls, NewWatcher, Settled, WatchInv, WatchTypes,
         WatcherState
<1>2. /\ mode = "Console" /\ watcher.phase = "none" /\ watcher'.phase = "watching"
      /\ watcher'.id = watcher.id + 1 /\ ~watcher'.delivered /\ ~watcher'.acknowledging
      /\ watcher'.emitted = 0 /\ ~watcher'.asked /\ watcher' \in WatcherState
  BY <1>1 DEF StartConsoleHandler, MayConstruct, LoopCalls, NewWatcher, Settled, WatchInv,
              WatchWhere, WatchTypes, WatcherState
<1>3. /\ console' \in ConsoleState /\ console'.watcher = watcher'.id /\ ~console'.acknowledged
      /\ UNCHANGED <<console.told, console.handler>>
  BY <1>1,<1>2 DEF StartConsoleHandler, MayConstruct, LoopCalls, NewWatcher, Settled, WatchInv,
                   WatchTypes, WatcherState, ConsoleState
<1>4. /\ \A t \in Others : console.told[t] <= watcher.id + 1
  BY <1>1,<1>2,<1>3 DEF StartConsoleHandler, MayConstruct, LoopCalls, NewWatcher, Settled,
                        WatchInv, ConsoleIsOurs, WatchTypes, WatcherState, ConsoleState
<1>5. /\ UNCHANGED <<waitVars, mode, handlerFd, kernel>>
  BY <1>1,<1>2,<1>3,<1>4 DEF StartConsoleHandler, MayConstruct, LoopCalls, NewWatcher, Settled,
                             WatchInv, WatchTypes
<1> USE DEF waitVars, queueVars, sourceVars, passVars, wakeVars, WatchInv
<1>6. WatchTypes'
  BY <1>1, <1>2, <1>3, <1>4, <1>5 DEF WatchTypes
<1>7. ToldOnce'
  BY <1>1, <1>2, <1>3, <1>4, <1>5 DEF ToldOnce, WatchTypes, WatcherState, ConsoleState,
                                      KernelState
<1>8. WatchWhere'
  BY <1>1, <1>2, <1>3, <1>4, <1>5 DEF WatchWhere, Settled, WatchTypes, WatcherState,
                                      ConsoleState, KernelState
<1>9. HandlerIsOurs'
  BY <1>1, <1>2, <1>3, <1>4, <1>5 DEF HandlerIsOurs, Receiving, NoWatcher, WatchTypes,
                                      WatcherState, ConsoleState, KernelState
<1>10. SignalFdIsTrue' /\ PolledIsReadable' /\ CallIsDue'
  BY <1>1, <1>2, <1>3, <1>4, <1>5 DEF SignalFdIsTrue, PolledIsReadable, CallIsDue, NotifySources,
                                      WatchTypes, WatcherState, ConsoleState, KernelState
<1>11. ConsoleIsOurs'
  BY <1>1, <1>2, <1>3, <1>4, <1>5 DEF ConsoleIsOurs, Delivering, NoWatcher
<1>12. RequestIsHeld'
  BY <1>1, <1>2, <1>3, <1>4, <1>5 DEF RequestIsHeld, Receiving, WatchTypes, WatcherState,
                                      ConsoleState, KernelState
<1>13. HandlerHeardTheSlots'
  BY <1>1, <1>2, <1>3, <1>4, <1>5 DEF HandlerHeardTheSlots, WatchTypes, WatcherState,
                                      ConsoleState, KernelState, ConsoleIsOurs
<1> QED
  BY <1>6, <1>7, <1>8, <1>9, <1>10, <1>11, <1>12, <1>13

\* stopWatching() takes the handler's descriptor away.
LEMMA StopPublishingKeepsWatch ==
    ASSUME WaitInv, WatchInv, StopPublishing
    PROVE  WatchInv'
<1>1. /\ watcher.phase = "watching" /\ watcher'.phase = "stopping" /\ SameButPhase
  BY DEF StopPublishing, LoopCalls, MayCall, Loop, Settled, SameButPhase, WatchInv, WatchTypes,
         WatcherState
<1>2. /\ waker[Loop] = "idle" /\ pc \in {"pass", "dispatch", "callback"} /\ handlerFd' = NoWatcher
  BY DEF StopPublishing, LoopCalls, MayCall, Loop, Settled, SameButPhase, WatchInv, WatchTypes
<1>3. /\ console' \in ConsoleState
      /\ UNCHANGED <<console.watcher, console.acknowledged, console.told, console.handler>>
  BY DEF StopPublishing, LoopCalls, MayCall, Loop, Settled, SameButPhase, WatchInv, WatchTypes,
         WatcherState, ConsoleState
<1>4. /\ UNCHANGED <<waitVars, mode, kernel>>
  BY DEF StopPublishing, LoopCalls, MayCall, Loop, Settled, SameButPhase, WatchInv, WatchTypes
<1> USE DEF waitVars, queueVars, sourceVars, passVars, wakeVars, WatchInv, SameButPhase
<1>5. WatchTypes'
  BY <1>1, <1>2, <1>3, <1>4 DEF WatchTypes, NoWatcher
<1>6. ToldOnce'
  BY <1>1, <1>2, <1>3, <1>4 DEF ToldOnce, WatchTypes, WatcherState, ConsoleState, KernelState
<1>7. WatchWhere'
  BY <1>1, <1>2, <1>3, <1>4 DEF WatchWhere, Settled, WatchTypes, WatcherState, ConsoleState,
                                KernelState
<1>8. HandlerIsOurs'
  BY <1>1, <1>2, <1>3, <1>4 DEF HandlerIsOurs, Receiving, NoWatcher, WatchTypes, WatcherState,
                                ConsoleState, KernelState
<1>9. SignalFdIsTrue' /\ PolledIsReadable' /\ CallIsDue'
  BY <1>1, <1>2, <1>3, <1>4 DEF SignalFdIsTrue, PolledIsReadable, CallIsDue, NotifySources,
                                WatchTypes, WatcherState, ConsoleState, KernelState
<1>10. ConsoleIsOurs'
  BY <1>1, <1>2, <1>3, <1>4 DEF ConsoleIsOurs, Delivering, NoWatcher, WatchTypes, WatcherState,
                                ConsoleState, KernelState
<1>11. RequestIsHeld'
  BY <1>1, <1>2, <1>3, <1>4 DEF RequestIsHeld, Receiving, WatchTypes, WatcherState, ConsoleState,
                                KernelState
<1>12. HandlerHeardTheSlots'
  BY <1>1, <1>2, <1>3, <1>4 DEF HandlerHeardTheSlots, WatchTypes, WatcherState, ConsoleState,
                                KernelState
<1> QED
  BY <1>5, <1>6, <1>7, <1>8, <1>9, <1>10, <1>11, <1>12

\* The dispositions come back.
LEMMA RestoreDispositionsKeepsWatch ==
    ASSUME WaitInv, WatchInv, RestoreDispositions
    PROVE  WatchInv'
<1>1. /\ mode \in {"Handler", "SignalFd"}
      /\ watcher.phase = "stopping" /\ watcher'.phase = "restored" /\ SameButPhase
      /\ kernel' \in KernelState /\ (mode = "SignalFd" => kernel' = kernel)
      /\ UNCHANGED <<kernel.blocked, kernel.pending, kernel.pipe, kernel.running>>
  BY DEF RestoreDispositions, SameButPhase, WatchInv, WatchWhere, WatchTypes, WatcherState,
         KernelState
<1>2. /\ UNCHANGED <<waitVars, mode, handlerFd, console>>
  BY DEF RestoreDispositions, SameButPhase, WatchInv, WatchTypes
<1> USE DEF waitVars, queueVars, sourceVars, passVars, wakeVars, WatchInv, SameButPhase
<1>3. WatchTypes'
  BY <1>1, <1>2 DEF WatchTypes
<1>4. ToldOnce'
  BY <1>1, <1>2 DEF ToldOnce, WatchTypes, WatcherState, ConsoleState, KernelState
<1>5. WatchWhere'
  BY <1>1, <1>2 DEF WatchWhere, Settled, WatchTypes, WatcherState, ConsoleState, KernelState
<1>6. HandlerIsOurs'
  BY <1>1, <1>2 DEF HandlerIsOurs, Receiving, NoWatcher, WatchTypes, WatcherState, ConsoleState,
                    KernelState
<1>7. SignalFdIsTrue' /\ PolledIsReadable' /\ CallIsDue'
  BY <1>1, <1>2 DEF SignalFdIsTrue, PolledIsReadable, CallIsDue, NotifySources, WatchTypes,
                    WatcherState, ConsoleState, KernelState
<1>8. ConsoleIsOurs'
  BY <1>1, <1>2 DEF ConsoleIsOurs, Delivering, NoWatcher, WatchTypes, WatcherState, ConsoleState,
                    KernelState
<1>9. RequestIsHeld'
  BY <1>1, <1>2 DEF RequestIsHeld, Receiving, WatchTypes, WatcherState, ConsoleState, KernelState
<1>10. HandlerHeardTheSlots'
  BY <1>1, <1>2 DEF HandlerHeardTheSlots, WatchTypes, WatcherState, ConsoleState, KernelState
<1> QED
  BY <1>3, <1>4, <1>5, <1>6, <1>7, <1>8, <1>9, <1>10

\* Windows makes a thread for a console event.
LEMMA ConsoleEventKeepsWatch ==
    ASSUME WaitInv, WatchInv, NEW t \in Others, ConsoleEvent(t)
    PROVE  WatchInv'
<1>1. /\ console.installed \in BOOLEAN
  BY DEF ConsoleEvent, Signalled, WatchInv, WatchTypes, ConsoleState
<1>2. /\ kernel.signals \in Nat /\ kernel.signals + 1 \in Nat
  BY <1>1 DEF ConsoleEvent, Signalled, WatchInv, WatchTypes, KernelState
<1>3. /\ kernel' \in KernelState
      /\ UNCHANGED <<kernel.blocked, kernel.pending, kernel.pipe, kernel.running,
             kernel.disposition>>
  BY <1>1,<1>2 DEF ConsoleEvent, Signalled, WatchInv, WatchTypes, KernelState
<1>4. /\ console' \in ConsoleState
      /\ UNCHANGED <<console.watcher, console.acknowledged, console.told>>
  BY <1>1,<1>2,<1>3 DEF ConsoleEvent, Signalled, WatchInv, WatchTypes, WatcherState, ConsoleState
<1>5. /\ \A u \in Others : console'.handler[u] = "heard" => console.handler[u] = "heard"
  BY <1>1,<1>2,<1>3,<1>4 DEF ConsoleEvent, Signalled, WatchInv, WatchTypes, ConsoleState
<1>6. /\ UNCHANGED <<waitVars, mode, watcher, handlerFd>>
  BY <1>1,<1>2,<1>3,<1>4,<1>5 DEF ConsoleEvent, Signalled, WatchInv, WatchTypes
<1> USE DEF waitVars, queueVars, sourceVars, passVars, wakeVars, WatchInv
<1>7. WatchTypes'
  BY <1>1, <1>2, <1>3, <1>4, <1>5, <1>6 DEF WatchTypes
<1>8. ToldOnce'
  BY <1>1, <1>2, <1>3, <1>4, <1>5, <1>6 DEF ToldOnce, WatchTypes, WatcherState, ConsoleState,
                                            KernelState
<1>9. WatchWhere'
  BY <1>1, <1>2, <1>3, <1>4, <1>5, <1>6 DEF WatchWhere, Settled, WatchTypes, WatcherState,
                                            ConsoleState, KernelState
<1>10. HandlerIsOurs'
  BY <1>1, <1>2, <1>3, <1>4, <1>5, <1>6 DEF HandlerIsOurs, Receiving, NoWatcher, WatchTypes,
                                            WatcherState, ConsoleState, KernelState
<1>11. SignalFdIsTrue' /\ PolledIsReadable' /\ CallIsDue'
  BY <1>1, <1>2, <1>3, <1>4, <1>5, <1>6 DEF SignalFdIsTrue, PolledIsReadable, CallIsDue,
                                            NotifySources, WatchTypes, WatcherState,
                                            ConsoleState, KernelState
<1>12. ConsoleIsOurs'
  BY <1>1, <1>2, <1>3, <1>4, <1>5, <1>6 DEF ConsoleIsOurs, Delivering, NoWatcher, WatchTypes,
                                            WatcherState, ConsoleState, KernelState
<1>13. RequestIsHeld'
  BY <1>1, <1>2, <1>3, <1>4, <1>5, <1>6 DEF RequestIsHeld, Receiving, WatchTypes, WatcherState,
                                            ConsoleState, KernelState
<1>14. HandlerHeardTheSlots'
  BY <1>1, <1>2, <1>3, <1>4, <1>5, <1>6 DEF HandlerHeardTheSlots, WatchTypes, WatcherState,
                                            ConsoleState, KernelState
<1> QED
  BY <1>7, <1>8, <1>9, <1>10, <1>11, <1>12, <1>13, <1>14

LEMMA ConsoleRefusesKeepsWatch ==
    ASSUME WaitInv, WatchInv, NEW t \in Others, ConsoleRefuses(t)
    PROVE  WatchInv'
<1>1. /\ kernel' \in KernelState
      /\ UNCHANGED <<kernel.blocked, kernel.pending, kernel.pipe, kernel.running,
             kernel.disposition>>
  BY DEF ConsoleRefuses, WatchInv, WatchTypes, KernelState
<1>2. /\ UNCHANGED <<waitVars, mode, watcher, handlerFd, console>>
  BY DEF ConsoleRefuses, WatchInv, WatchTypes
<1> USE DEF waitVars, queueVars, sourceVars, passVars, wakeVars, WatchInv
<1>3. WatchTypes'
  BY <1>1, <1>2 DEF WatchTypes
<1>4. ToldOnce'
  BY <1>1, <1>2 DEF ToldOnce, WatchTypes, WatcherState, ConsoleState, KernelState
<1>5. WatchWhere'
  BY <1>1, <1>2 DEF WatchWhere, Settled, WatchTypes, WatcherState, ConsoleState, KernelState
<1>6. HandlerIsOurs'
  BY <1>1, <1>2 DEF HandlerIsOurs, Receiving, NoWatcher, WatchTypes, WatcherState, ConsoleState,
                    KernelState
<1>7. SignalFdIsTrue' /\ PolledIsReadable' /\ CallIsDue'
  BY <1>1, <1>2 DEF SignalFdIsTrue, PolledIsReadable, CallIsDue, NotifySources, WatchTypes,
                    WatcherState, ConsoleState, KernelState
<1>8. ConsoleIsOurs'
  BY <1>1, <1>2 DEF ConsoleIsOurs, Delivering, NoWatcher, WatchTypes, WatcherState, ConsoleState,
                    KernelState
<1>9. RequestIsHeld'
  BY <1>1, <1>2 DEF RequestIsHeld, Receiving, WatchTypes, WatcherState, ConsoleState, KernelState
<1>10. HandlerHeardTheSlots'
  BY <1>1, <1>2 DEF HandlerHeardTheSlots, WatchTypes, WatcherState, ConsoleState, KernelState
<1> QED
  BY <1>3, <1>4, <1>5, <1>6, <1>7, <1>8, <1>9, <1>10

LEMMA ConsoleWaitsKeepsWatch ==
    ASSUME WaitInv, WatchInv, NEW t \in Others, ConsoleWaits(t)
    PROVE  WatchInv'
<1>1. /\ console' \in ConsoleState
      /\ UNCHANGED <<console.watcher, console.acknowledged, console.told>>
  BY DEF ConsoleWaits, WatchInv, WatchTypes, WatcherState, ConsoleState
<1>2. /\ \A u \in Others : console'.handler[u] = "heard" => console.handler[u] = "heard"
  BY DEF ConsoleWaits, WatchInv, WatchTypes, ConsoleState
<1>3. /\ UNCHANGED <<waitVars, mode, watcher, handlerFd, kernel>>
  BY DEF ConsoleWaits, WatchInv, WatchTypes
<1> USE DEF waitVars, queueVars, sourceVars, passVars, wakeVars, WatchInv
<1>4. WatchTypes'
  BY <1>1, <1>2, <1>3 DEF WatchTypes
<1>5. ToldOnce'
  BY <1>1, <1>2, <1>3 DEF ToldOnce, WatchTypes, WatcherState, ConsoleState, KernelState
<1>6. WatchWhere'
  BY <1>1, <1>2, <1>3 DEF WatchWhere, Settled, WatchTypes, WatcherState, ConsoleState, KernelState
<1>7. HandlerIsOurs'
  BY <1>1, <1>2, <1>3 DEF HandlerIsOurs, Receiving, NoWatcher, WatchTypes, WatcherState,
                          ConsoleState, KernelState
<1>8. SignalFdIsTrue' /\ PolledIsReadable' /\ CallIsDue'
  BY <1>1, <1>2, <1>3 DEF SignalFdIsTrue, PolledIsReadable, CallIsDue, NotifySources, WatchTypes,
                          WatcherState, ConsoleState, KernelState
<1>9. ConsoleIsOurs'
  BY <1>1, <1>2, <1>3 DEF ConsoleIsOurs, Delivering, NoWatcher, WatchTypes, WatcherState,
                          ConsoleState, KernelState
<1>10. RequestIsHeld'
  BY <1>1, <1>2, <1>3 DEF RequestIsHeld, Receiving, WatchTypes, WatcherState, ConsoleState,
                          KernelState
<1>11. HandlerHeardTheSlots'
  BY <1>1, <1>2, <1>3 DEF HandlerHeardTheSlots, WatchTypes, WatcherState, ConsoleState,
                          KernelState
<1> QED
  BY <1>4, <1>5, <1>6, <1>7, <1>8, <1>9, <1>10, <1>11

LEMMA ConsoleReturnsKeepsWatch ==
    ASSUME WaitInv, WatchInv, NEW t \in Others, ConsoleReturns(t)
    PROVE  WatchInv'
<1>1. /\ console' \in ConsoleState
      /\ UNCHANGED <<console.watcher, console.acknowledged, console.told>>
  BY DEF ConsoleReturns, WatchInv, WatchTypes, WatcherState, ConsoleState
<1>2. /\ \A u \in Others : console'.handler[u] = "heard" =>
             console.handler[u] = "heard" \/ console.acknowledged
  BY DEF ConsoleReturns, WatchInv, WatchTypes, ConsoleState
<1>3. /\ UNCHANGED <<waitVars, mode, watcher, handlerFd, kernel>>
  BY DEF ConsoleReturns, WatchInv, WatchTypes
<1> USE DEF waitVars, queueVars, sourceVars, passVars, wakeVars, WatchInv
<1>4. WatchTypes'
  BY <1>1, <1>2, <1>3 DEF WatchTypes
<1>5. ToldOnce'
  BY <1>1, <1>2, <1>3 DEF ToldOnce, WatchTypes, WatcherState, ConsoleState, KernelState
<1>6. WatchWhere'
  BY <1>1, <1>2, <1>3 DEF WatchWhere, Settled, WatchTypes, WatcherState, ConsoleState, KernelState
<1>7. HandlerIsOurs'
  BY <1>1, <1>2, <1>3 DEF HandlerIsOurs, Receiving, NoWatcher, WatchTypes, WatcherState,
                          ConsoleState, KernelState
<1>8. SignalFdIsTrue' /\ PolledIsReadable' /\ CallIsDue'
  BY <1>1, <1>2, <1>3 DEF SignalFdIsTrue, PolledIsReadable, CallIsDue, NotifySources, WatchTypes,
                          WatcherState, ConsoleState, KernelState
<1>9. ConsoleIsOurs'
  BY <1>1, <1>2, <1>3 DEF ConsoleIsOurs, Delivering, NoWatcher, WatchTypes, WatcherState,
                          ConsoleState, KernelState
<1>10. RequestIsHeld'
  BY <1>1, <1>2, <1>3 DEF RequestIsHeld, Receiving, WatchTypes, WatcherState, ConsoleState,
                          KernelState
<1>11. HandlerHeardTheSlots'
  BY <1>1, <1>2, <1>3 DEF HandlerHeardTheSlots, WatchTypes, WatcherState, ConsoleState,
                          KernelState, ConsoleIsOurs
<1> QED
  BY <1>4, <1>5, <1>6, <1>7, <1>8, <1>9, <1>10, <1>11

LEMMA AcknowledgeKeepsWatch ==
    ASSUME WaitInv, WatchInv, Acknowledge
    PROVE  WatchInv'
<1>1. /\ mode = "Console" /\ watcher.delivered
      /\ watcher.acknowledging /\ ~watcher'.acknowledging /\ watcher' \in WatcherState
      /\ UNCHANGED <<watcher.id, watcher.phase, watcher.delivered, watcher.emitted,
             watcher.asked>>
      /\ console' \in ConsoleState /\ UNCHANGED <<console.watcher, console.told, console.handler>>
  BY DEF Acknowledge, WatchInv, WatchWhere, WatchTypes, WatcherState, ConsoleState
<1>2. /\ UNCHANGED <<waitVars, mode, handlerFd, kernel>>
  BY DEF Acknowledge, WatchInv, WatchTypes
<1> USE DEF waitVars, queueVars, sourceVars, passVars, wakeVars, WatchInv
<1>3. WatchTypes'
  BY <1>1, <1>2 DEF WatchTypes
<1>4. ToldOnce'
  BY <1>1, <1>2 DEF ToldOnce, WatchTypes, WatcherState, ConsoleState, KernelState
<1>5. WatchWhere'
  BY <1>1, <1>2 DEF WatchWhere, Settled, WatchTypes, WatcherState, ConsoleState, KernelState
<1>6. HandlerIsOurs'
  BY <1>1, <1>2 DEF HandlerIsOurs, Receiving, NoWatcher, WatchTypes, WatcherState, ConsoleState,
                    KernelState
<1>7. SignalFdIsTrue' /\ PolledIsReadable' /\ CallIsDue'
  BY <1>1, <1>2 DEF SignalFdIsTrue, PolledIsReadable, CallIsDue, NotifySources, WatchTypes,
                    WatcherState, ConsoleState, KernelState
<1>8. ConsoleIsOurs'
  BY <1>1, <1>2 DEF ConsoleIsOurs, Delivering, NoWatcher, WatchTypes, WatcherState, ConsoleState,
                    KernelState
<1>9. RequestIsHeld'
  BY <1>1, <1>2 DEF RequestIsHeld, Receiving, WatchTypes, WatcherState, ConsoleState, KernelState
<1>10. HandlerHeardTheSlots'
  BY <1>1, <1>2 DEF HandlerHeardTheSlots, WatchTypes, WatcherState, ConsoleState, KernelState
<1> QED
  BY <1>3, <1>4, <1>5, <1>6, <1>7, <1>8, <1>9, <1>10

\* What a sequence holds once something is appended.
LEMMA AppendRange ==
    ASSUME NEW S, NEW s \in Seq(S), NEW e \in S
    PROVE  Range(Append(s, e)) = Range(s) \cup {e}
<1>1. /\ DOMAIN s = 1 .. Len(s) /\ DOMAIN Append(s, e) = 1 .. Len(s) + 1 /\ Len(s) \in Nat
      /\ \A i \in 1 .. Len(s) : Append(s, e)[i] = s[i]
      /\ Append(s, e)[Len(s) + 1] = e
  OBVIOUS
<1>2. ASSUME NEW x \in Range(Append(s, e))
      PROVE  x \in Range(s) \cup {e}
  <2>1. PICK i \in 1 .. Len(s) + 1 : x = Append(s, e)[i]
    BY <1>1 DEF Range
  <2>2. CASE i = Len(s) + 1
    BY <1>1, <2>1, <2>2
  <2>3. CASE i # Len(s) + 1
    <3>1. i \in 1 .. Len(s)
      BY <1>1, <2>3
    <3> QED
      BY <1>1, <2>1, <3>1 DEF Range
  <2> QED
    BY <2>2, <2>3
<1>3. ASSUME NEW x \in Range(s)
      PROVE  x \in Range(Append(s, e))
  <2>1. PICK i \in 1 .. Len(s) : x = s[i]
    BY <1>1 DEF Range
  <2>2. i \in 1 .. Len(s) + 1
    BY <1>1
  <2> QED
    BY <1>1, <2>1, <2>2 DEF Range
<1>4. e \in Range(Append(s, e))
  <2>1. Len(s) + 1 \in 1 .. Len(s) + 1
    BY <1>1
  <2> QED
    BY <1>1, <2>1 DEF Range
<1> QED
  BY <1>2, <1>3, <1>4

\* What a sequence holds is its head and what its tail holds.
LEMMA TailRange ==
    ASSUME NEW S, NEW s \in Seq(S), s # <<>>
    PROVE  Head(s) \in Range(s) /\ Range(s) = Range(Tail(s)) \cup {Head(s)}
<1>1. /\ DOMAIN s = 1 .. Len(s) /\ Len(s) \in Nat /\ Len(s) > 0 /\ Head(s) = s[1]
      /\ Len(Tail(s)) = Len(s) - 1 /\ DOMAIN Tail(s) = 1 .. Len(s) - 1
      /\ \A i \in 1 .. Len(s) - 1 : Tail(s)[i] = s[i + 1]
  OBVIOUS
<1>2. ASSUME NEW x \in Range(s)
      PROVE  x \in Range(Tail(s)) \cup {Head(s)}
  <2>1. PICK i \in 1 .. Len(s) : x = s[i]
    BY <1>1 DEF Range
  <2>2. CASE i = 1
    BY <1>1, <2>1, <2>2
  <2>3. CASE i # 1
    <3>1. i - 1 \in 1 .. Len(s) - 1 /\ (i - 1) + 1 = i
      BY <1>1, <2>3
    <3>2. x = Tail(s)[i - 1]
      BY <1>1, <2>1, <3>1
    <3> QED
      BY <1>1, <3>1, <3>2 DEF Range
  <2> QED
    BY <2>2, <2>3
<1>3. ASSUME NEW x \in Range(Tail(s))
      PROVE  x \in Range(s)
  <2>1. PICK i \in 1 .. Len(s) - 1 : x = Tail(s)[i]
    BY <1>1 DEF Range
  <2>2. i + 1 \in 1 .. Len(s) /\ x = s[i + 1]
    BY <1>1, <2>1
  <2> QED
    BY <1>1, <2>2 DEF Range
<1>4. Head(s) \in Range(s)
  <2>1. 1 \in 1 .. Len(s)
    BY <1>1
  <2> QED
    BY <1>1, <2>1 DEF Range
<1> QED
  BY <1>2, <1>3, <1>4

\* The descriptor is emptied, and what came is reported once.  It was called back because it
\* was readable (CallIsDue), so on a signalfd something is pending.
LEMMA OnNotifyFdReadyKeepsWatch ==
    ASSUME WaitInv, WatchInv, OnNotifyFdReady
    PROVE  WatchInv'
<1>1. /\ Settled
      /\ pc = "callback"
      /\ called.fd = NotifyFd
      /\ pc' = "sources"
      /\ called' = NoSource
      /\ readable' = readable \ {NotifyFd}
      /\ UNCHANGED <<backend, queueVars, sourceVars, batch, ready, wakeVars, mode, handlerFd,
             console>>
  BY DEF OnNotifyFdReady
<1>2. kernel.pending # {} \/ kernel.pipe # <<>> => watcher.asked
  BY <1>1 DEF WatchInv, CallIsDue, SignalFdIsTrue, HandlerIsOurs
<1>3. /\ watcher' \in WatcherState
      /\ UNCHANGED <<watcher.id, watcher.phase, watcher.acknowledging, watcher.asked>>
      /\ kernel.pending # {} \/ kernel.pipe # <<>> => watcher'.delivered
      /\ watcher.delivered => watcher'.delivered
      /\ watcher'.delivered => watcher.delivered \/ kernel.pending # {} \/ kernel.pipe # <<>>
      /\ watcher'.emitted = IF watcher'.delivered THEN 1 ELSE 0
  <2>1. watcher \in WatcherState /\ ToldOnce
    BY DEF WatchInv, WatchTypes
  <2>2. CASE (kernel.pending # {} \/ kernel.pipe # <<>>) /\ ~watcher.delivered
    <3> DEFINE n == watcher.emitted + 1
    <3>1. watcher' = [watcher EXCEPT !.delivered = TRUE, !.emitted = n]
      BY <2>2 DEF OnNotifyFdReady, Deliver
    <3>2. n = 1
      BY <2>1, <2>2 DEF ToldOnce
    <3>3. n \in Nat
      BY <3>2
    <3> HIDE DEF n
    <3>4. /\ watcher' \in WatcherState /\ watcher'.delivered /\ watcher'.emitted = n
          /\ UNCHANGED <<watcher.id, watcher.phase, watcher.acknowledging, watcher.asked>>
      BY ONLY <2>1, <3>1, <3>3 DEF WatcherState
    <3> QED
      BY ONLY <2>2, <3>2, <3>4
  <2>3. CASE ~((kernel.pending # {} \/ kernel.pipe # <<>>) /\ ~watcher.delivered)
    <3>1. watcher' = watcher
      BY <2>3 DEF OnNotifyFdReady
    <3> QED
      BY <2>1, <2>3, <3>1 DEF ToldOnce
  <2> QED
    BY <2>2, <2>3
<1>4. /\ kernel' \in KernelState
      /\ kernel'.pending = {} /\ kernel'.pipe = <<>> /\ (kernel'.blocked => kernel.blocked)
      /\ UNCHANGED <<kernel.running, kernel.disposition>>
  <2> DEFINE reports == (kernel.pending # {} \/ kernel.pipe # <<>>) /\ ~watcher.delivered
  <2>1. kernel' = [kernel EXCEPT !.pending = {}, !.pipe = <<>>,
          !.blocked = kernel.blocked /\ ~reports]
    BY DEF OnNotifyFdReady
  <2>2. kernel \in KernelState /\ <<>> \in Seq(Signals) /\ reports \in BOOLEAN
    BY DEF WatchInv, WatchTypes
  <2> HIDE DEF reports
  <2> QED
    BY ONLY <2>1, <2>2 DEF KernelState
<1> USE DEF waitVars, queueVars, sourceVars, passVars, wakeVars, WatchInv
<1>5. WatchTypes'
  BY <1>1, <1>2, <1>3, <1>4 DEF WatchTypes
<1>6. ToldOnce'
  BY <1>1, <1>2, <1>3, <1>4 DEF ToldOnce, WatchTypes, WatcherState, ConsoleState, KernelState
<1>7. WatchWhere'
  BY <1>1, <1>2, <1>3, <1>4 DEF WatchWhere, Settled, WatchTypes, WatcherState, ConsoleState,
                                KernelState
<1>8. HandlerIsOurs'
  BY <1>1, <1>2, <1>3, <1>4 DEF HandlerIsOurs, Receiving, NoWatcher, WatchTypes, WatcherState,
                                ConsoleState, KernelState
<1>9. SignalFdIsTrue' /\ PolledIsReadable' /\ CallIsDue'
  BY <1>1, <1>2, <1>3, <1>4 DEF SignalFdIsTrue, PolledIsReadable, CallIsDue, NotifySources,
                                WatchTypes, WatcherState, ConsoleState, KernelState
<1>10. ConsoleIsOurs'
  BY <1>1, <1>2, <1>3, <1>4 DEF ConsoleIsOurs, Delivering, NoWatcher, WatchTypes, WatcherState,
                                ConsoleState, KernelState
<1>11. RequestIsHeld'
  BY <1>1, <1>2, <1>3, <1>4 DEF RequestIsHeld, Receiving, WatchTypes, WatcherState, ConsoleState,
                                KernelState
<1>12. HandlerHeardTheSlots'
  BY <1>1, <1>2, <1>3, <1>4 DEF HandlerHeardTheSlots, WatchTypes, WatcherState, ConsoleState,
                                KernelState
<1> QED
  BY <1>5, <1>6, <1>7, <1>8, <1>9, <1>10, <1>11, <1>12

\* The source goes with its descriptor; nobody is called for it any more.
LEMMA CloseNotifyFdKeepsWatch ==
    ASSUME WaitInv, WatchInv, CloseNotifyFd
    PROVE  WatchInv'
<1>1. /\ mode \in {"Handler", "SignalFd"}
      /\ waker[Loop] = "idle"
      /\ handlerFd = NoWatcher
      /\ readable' = readable \ {NotifyFd}
      /\ UNCHANGED <<backend, queueVars, passVars, mode, handlerFd, console>>
  BY DEF CloseNotifyFd, WatchInv, WatchWhere, HandlerIsOurs, Receiving
<1>2. watcher.phase = "restored" /\ watcher'.phase = "none" /\ SameButPhase
  BY DEF CloseNotifyFd, SameButPhase, WatchInv, WatchTypes, WatcherState
<1>3. /\ kernel' \in KernelState
      /\ kernel'.pipe = <<>>
      /\ UNCHANGED <<kernel.blocked, kernel.pending, kernel.running, kernel.disposition>>
  <2>1. kernel' = [kernel EXCEPT !.pipe = <<>>]
    BY DEF CloseNotifyFd
  <2>2. kernel \in KernelState /\ <<>> \in Seq(Signals)
    BY DEF WatchInv, WatchTypes
  <2> QED
    BY ONLY <2>1, <2>2 DEF KernelState
<1>4. NotifySources' = {}
  <2>1. NotifyFd \in Fds /\ UNCHANGED <<ready, nextGeneration>> /\ RemoveSource(Loop, NotifyFd)
    BY LoopWaitAssumption DEF CloseNotifyFd, passVars
  <2>2. \A s \in Range(sources') : s.fd # NotifyFd
    BY <2>1, RemoveSourceKeepsEach
  <2> QED
    BY <2>2 DEF NotifySources
<1> USE DEF waitVars, queueVars, sourceVars, passVars, wakeVars, WatchInv
<1>5. WatchTypes'
  BY <1>1, <1>2, <1>3, <1>4 DEF WatchTypes, SameButPhase
<1>6. ToldOnce'
  BY <1>1, <1>2, <1>3, <1>4 DEF ToldOnce, WatchTypes, WatcherState, ConsoleState, KernelState,
                                SameButPhase
<1>7. WatchWhere'
  BY <1>1, <1>2, <1>3, <1>4 DEF WatchWhere, Settled, WatchTypes, WatcherState, ConsoleState,
                                KernelState, SameButPhase
<1>8. HandlerIsOurs'
  BY <1>1, <1>2, <1>3, <1>4 DEF HandlerIsOurs, Receiving, NoWatcher, WatchTypes, WatcherState,
                                ConsoleState, KernelState, SameButPhase
<1>9. SignalFdIsTrue' /\ PolledIsReadable' /\ CallIsDue'
  BY <1>1, <1>2, <1>3, <1>4 DEF SignalFdIsTrue, PolledIsReadable, CallIsDue, SameButPhase
<1>10. ConsoleIsOurs'
  BY <1>1, <1>2, <1>3, <1>4 DEF ConsoleIsOurs, Delivering, NoWatcher, WatchTypes, WatcherState,
                                ConsoleState, KernelState, SameButPhase
<1>11. RequestIsHeld'
  BY <1>1, <1>2, <1>3, <1>4 DEF RequestIsHeld, Receiving, WatchTypes, WatcherState, ConsoleState,
                                KernelState, SameButPhase
<1>12. HandlerHeardTheSlots'
  BY <1>1, <1>2, <1>3, <1>4 DEF HandlerHeardTheSlots, WatchTypes, WatcherState, ConsoleState,
                                KernelState, SameButPhase
<1> QED
  BY <1>5, <1>6, <1>7, <1>8, <1>9, <1>10, <1>11, <1>12

\* The watcher's destructor takes its posted call with it.
LEMMA ReleaseConsoleKeepsWatch ==
    ASSUME WaitInv, WatchInv, ReleaseConsole
    PROVE  WatchInv'
<1>1. mode = "Console" /\ UNCHANGED <<backend, wakeUpRequested, interrupted, sourceVars, pc,
        ready, called, wakeVars, input, readable, mode, handlerFd, kernel>>
  BY DEF ReleaseConsole
<1>2. watcher.phase = "stopping" /\ watcher'.phase = "none" /\ SameButPhase
  BY DEF ReleaseConsole, SameButPhase, WatchInv, WatchTypes, WatcherState
<1>3. /\ console' \in ConsoleState
      /\ console'.watcher = NoWatcher
      /\ UNCHANGED <<console.told, console.handler>>
  BY DEF ReleaseConsole, WatchInv, WatchTypes, ConsoleState, NoWatcher
<1>4. \A id \in Nat : ~Delivering(id)'
  <2> DEFINE P == {k \in Positions(queue) : queue[k] = Event}
             Q == {k \in Positions(batch) : batch[k] = Event}
  <2>1. queue \in Seq(Items) /\ batch \in Seq(Items) /\ queue' = Picked(queue,
          P) /\ batch' = Picked(batch, Q)
    BY DEF ReleaseConsole, WaitInv, WaitTypes
  <2>2. \A i \in Positions(queue') : queue'[i] = Event
    BY <2>1, PickedFrom
  <2>3. \A i \in Positions(batch') : batch'[i] = Event
    BY <2>1, PickedFrom
  <2>4. queue' \in Seq(Items) /\ batch' \in Seq(Items)
    BY <2>1, PickedFrom
  <2>5. \A x \in Range(queue') \cup Range(batch') : x = Event
    BY ONLY <2>2, <2>3, <2>4 DEF Positions, Range
  <2>6. \A id \in Nat : <<"deliver", id>> # Event
    BY DEF Event
  <2> QED
    BY <2>5, <2>6 DEF Delivering
<1> USE DEF waitVars, queueVars, sourceVars, passVars, wakeVars, WatchInv
<1>5. WatchTypes'
  BY <1>1, <1>2, <1>3, <1>4 DEF WatchTypes, SameButPhase
<1>6. ToldOnce'
  BY <1>1, <1>2, <1>3, <1>4 DEF ToldOnce, WatchTypes, WatcherState, ConsoleState, KernelState,
                                SameButPhase
<1>7. WatchWhere'
  BY <1>1, <1>2, <1>3, <1>4 DEF WatchWhere, Settled, WatchTypes, WatcherState, ConsoleState,
                                KernelState, SameButPhase
<1>8. HandlerIsOurs'
  BY <1>1, <1>2, <1>3, <1>4 DEF HandlerIsOurs, Receiving, NoWatcher, WatchTypes, WatcherState,
                                ConsoleState, KernelState, SameButPhase
<1>9. SignalFdIsTrue' /\ PolledIsReadable' /\ CallIsDue'
  BY <1>1, <1>2, <1>3, <1>4 DEF SignalFdIsTrue, PolledIsReadable, CallIsDue, NotifySources,
                                WatchTypes, WatcherState, ConsoleState, KernelState, SameButPhase
<1>10. ConsoleIsOurs'
  BY <1>1, <1>2, <1>3, <1>4 DEF ConsoleIsOurs, Delivering, NoWatcher, WatchTypes, WatcherState,
                                ConsoleState, KernelState, SameButPhase
<1>11. RequestIsHeld'
  BY <1>1, <1>2, <1>3, <1>4 DEF RequestIsHeld, Receiving, WatchTypes, WatcherState, ConsoleState,
                                KernelState, SameButPhase
<1>12. HandlerHeardTheSlots'
  BY <1>1, <1>2, <1>3, <1>4 DEF HandlerHeardTheSlots, WatchTypes, WatcherState, ConsoleState,
                                KernelState, SameButPhase
<1> QED
  BY <1>5, <1>6, <1>7, <1>8, <1>9, <1>10, <1>11, <1>12

\* A signal comes at any moment.  A handler that starts has the living watcher's descriptor or
\* none, and one that is blocked shows in the signalfd.
LEMMA SignalArrivesKeepsWatch ==
    ASSUME WaitInv, WatchInv, NEW s \in Signals, SignalArrives(s)
    PROVE  WatchInv'
<1>1. /\ mode \in {"Handler", "SignalFd"} /\ (kernel.blocked => mode = "SignalFd")
      /\ readable' = IF kernel.blocked
             /\ watcher.phase = "watching" THEN readable \cup {NotifyFd} ELSE readable
      /\ UNCHANGED <<backend, queueVars, sourceVars, passVars, wakeVars, mode, handlerFd,
             console>>
  BY DEF SignalArrives, WatchInv, SignalFdIsTrue
<1>2. kernel.disposition[s] = "handler" => mode = "Handler"
  BY DEF WatchInv, HandlerIsOurs
<1>3. /\ kernel' \in KernelState
      /\ kernel'.running = IF kernel.disposition[s] = "handler" THEN kernel.running \cup {<<s,
             handlerFd>>} ELSE kernel.running
      /\ kernel'.pending = IF kernel.blocked THEN kernel.pending \cup {s} ELSE kernel.pending
      /\ kernel'.killed = (~kernel.blocked /\ kernel.disposition[s] = "default")
      /\ UNCHANGED <<kernel.blocked, kernel.pipe>>
      /\ mode # "Handler" => \A u \in Signals : kernel'.disposition[u] = "default"
  <2> DEFINE started == IF kernel.disposition[s] = "handler" THEN kernel.running \cup {<<s,
          handlerFd>>}
                        ELSE kernel.running
             pending == IF kernel.blocked THEN kernel.pending \cup {s} ELSE kernel.pending
             killed == ~kernel.blocked /\ kernel.disposition[s] = "default"
             signals == kernel.signals + 1
  <2>1. kernel' = [kernel EXCEPT !.signals = signals, !.disposition[s] = "default",
                                 !.running = started, !.pending = pending, !.killed = killed]
    BY DEF SignalArrives
  <2>2. kernel \in KernelState /\ handlerFd \in Nat
    BY DEF WatchInv, WatchTypes
  <2>3. /\ started \in SUBSET (Signals \X Nat) /\ pending \in SUBSET Signals /\ killed \in BOOLEAN
        /\ signals \in Nat
    BY <2>2 DEF KernelState
  <2>4. mode # "Handler" => \A u \in Signals : kernel.disposition[u] = "default"
    BY DEF WatchInv, HandlerIsOurs
  <2> HIDE DEF started, pending, killed, signals
  <2>5. /\ kernel' \in KernelState /\ kernel'.running = started /\ kernel'.pending = pending
        /\ kernel'.killed = killed /\ UNCHANGED <<kernel.blocked, kernel.pipe>>
        /\ kernel'.disposition = [kernel.disposition EXCEPT ![s] = "default"]
    BY ONLY <2>1, <2>2, <2>3 DEF KernelState
  <2> QED
    BY <2>2, <2>4, <2>5 DEF started, pending, killed, KernelState
<1>4. /\ watcher' \in WatcherState
      /\ UNCHANGED <<watcher.id, watcher.phase, watcher.delivered, watcher.acknowledging,
             watcher.emitted>>
      /\ watcher'.asked = (watcher.asked \/ (watcher.phase \in Receiving /\ ~kernel'.killed))
  <2> DEFINE asked == watcher.asked \/ (watcher.phase \in Receiving /\ ~kernel'.killed)
  <2>1. watcher' = [watcher EXCEPT !.asked = asked]
    BY DEF SignalArrives
  <2>2. watcher \in WatcherState /\ asked \in BOOLEAN
    BY DEF WatchInv, WatchTypes, WatcherState
  <2> HIDE DEF asked
  <2>3. watcher'.asked = asked /\ watcher' \in WatcherState
        /\ UNCHANGED <<watcher.id, watcher.phase, watcher.delivered, watcher.acknowledging,
               watcher.emitted>>
    BY ONLY <2>1, <2>2 DEF WatcherState
  <2> QED
    BY <2>3 DEF asked
<1> USE DEF waitVars, queueVars, sourceVars, passVars, wakeVars, WatchInv
<1>5. WatchTypes'
  BY <1>1, <1>2, <1>3, <1>4 DEF WatchTypes
<1>6. ToldOnce'
  BY <1>1, <1>2, <1>3, <1>4 DEF ToldOnce, WatchTypes, WatcherState, ConsoleState, KernelState
<1>7. WatchWhere'
  BY <1>1, <1>2, <1>3, <1>4 DEF WatchWhere, Settled, WatchTypes, WatcherState, ConsoleState,
                                KernelState, Receiving
<1>8. HandlerIsOurs'
  <2>1. WatchWhere /\ HandlerIsOurs /\ watcher.id \in Nat
    BY DEF WatchTypes, WatcherState
  <2>2. UNCHANGED <<handlerFd, mode, kernel.pipe, watcher.id, watcher.phase>>
    BY <1>1, <1>3, <1>4
  <2>3. ASSUME NEW h \in kernel'.running
        PROVE  /\ mode = "Handler" /\ h[2] <= watcher.id
               /\ h[2] = watcher.id /\ watcher.phase # "none" => watcher'.asked
    <3>1. CASE h \in kernel.running
      BY <1>4, <2>1, <3>1 DEF HandlerIsOurs
    <3>2. CASE h = <<s, handlerFd>> /\ kernel.disposition[s] = "handler"
      <4>1. mode = "Handler" /\ h[2] = handlerFd /\ ~kernel'.killed
        BY <1>2, <1>3, <3>2
      <4>2. CASE handlerFd = NoWatcher
        <5>1. h[2] = 0 /\ h[2] <= watcher.id
          BY <2>1, <4>1, <4>2 DEF NoWatcher
        <5>2. ~(h[2] = watcher.id /\ watcher.phase # "none")
          BY <2>1, <5>1 DEF WatchWhere
        <5> QED
          BY <4>1, <5>1, <5>2
      <4>3. CASE handlerFd # NoWatcher
        <5>1. h[2] = watcher.id /\ watcher.phase \in Receiving
          BY <2>1, <4>1, <4>3 DEF HandlerIsOurs
        <5>2. h[2] <= watcher.id
          BY <2>1, <5>1
        <5>3. watcher'.asked
          BY <1>4, <4>1, <5>1
        <5> QED
          BY <4>1, <5>2, <5>3
      <4> QED
        BY <4>2, <4>3
    <3> QED
      BY <1>3, <3>1, <3>2
  <2> QED
    BY <1>3, <1>4, <2>1, <2>2, <2>3 DEF HandlerIsOurs
<1>9. SignalFdIsTrue' /\ PolledIsReadable' /\ CallIsDue'
  <2>1. WatchWhere /\ SignalFdIsTrue /\ PolledIsReadable /\ CallIsDue
    OBVIOUS
  <2>2. UNCHANGED <<handlerFd, mode, backend, ready, sources, called, pc, watcher.phase,
          kernel.blocked>>
    BY <1>1, <1>3, <1>4
  <2>3. /\ kernel.blocked => kernel'.pending # {} /\ ~kernel'.killed
        /\ ~kernel.blocked => kernel'.pending = kernel.pending
    BY <1>3
  <2>4. /\ NotifyFd \in readable => NotifyFd \in readable'
        /\ NotifyFd \in readable' => NotifyFd \in readable \/ kernel.blocked
        /\ watcher.asked => watcher'.asked
        /\ kernel.blocked /\ watcher.phase = "watching" => watcher'.asked
    BY <1>1, <1>4, <2>3 DEF Receiving
  <2>5. kernel'.blocked \/ kernel'.pending # {} => mode' = "SignalFd"
    BY <2>1, <2>2, <2>3 DEF SignalFdIsTrue
  <2>6. watcher'.phase = "watching" /\ kernel'.pending # {} => watcher'.asked
    BY <2>1, <2>2, <2>3, <2>4 DEF SignalFdIsTrue
  <2>7. mode' = "SignalFd" /\ NotifyFd \in readable' => kernel'.pending # {}
    BY <2>1, <2>2, <2>3, <2>4 DEF SignalFdIsTrue
  <2>8. NotifySources' = NotifySources
    BY <2>2 DEF NotifySources
  <2>9. CallIsDue'
    <3>1. mode = "SignalFd" /\ kernel.pending # {} => kernel'.pending # {}
      BY <2>3
    <3> QED
      BY <2>1, <2>2, <2>4, <2>8, <3>1 DEF CallIsDue
  <2> QED
    BY <2>1, <2>2, <2>4, <2>5, <2>6, <2>7, <2>8, <2>9 DEF SignalFdIsTrue, PolledIsReadable
<1>10. ConsoleIsOurs'
  BY <1>1, <1>2, <1>3, <1>4 DEF ConsoleIsOurs, Delivering, NoWatcher, WatchTypes, WatcherState,
                                ConsoleState, KernelState
<1>11. RequestIsHeld'
  <2>1. WatchWhere /\ HandlerIsOurs /\ SignalFdIsTrue /\ RequestIsHeld
    BY DEF WatchInv
  <2>2. UNCHANGED <<watcher.id, watcher.phase, watcher.delivered, kernel.pipe, queue, batch>>
    BY <1>1, <1>3, <1>4
  <2>3. NotifyFd \in readable => NotifyFd \in readable'
    BY <1>1
  <2>4. kernel.running \subseteq kernel'.running /\ kernel.pending \subseteq kernel'.pending
    BY <1>3
  <2>5. CASE watcher.asked
    BY <2>1, <2>2, <2>3, <2>4, <2>5 DEF RequestIsHeld
  <2>6. CASE ~watcher.asked /\ watcher.phase \in Receiving /\ ~kernel'.killed
    <3>1. CASE kernel.blocked
      <4>1. mode = "SignalFd" /\ watcher.phase = "watching"
        BY <1>1, <2>1, <2>6, <3>1 DEF WatchWhere, Receiving
      <4>2. NotifyFd \in readable' /\ kernel'.pending # {}
        BY <1>1, <1>3, <3>1, <4>1
      <4> QED
        BY <4>2 DEF RequestIsHeld
    <3>2. CASE ~kernel.blocked
      <4>1. kernel.disposition[s] = "handler"
        BY <1>3, <2>6, <3>2 DEF WatchTypes, KernelState
      <4>2. handlerFd = watcher.id /\ <<s, handlerFd>> \in kernel'.running
        BY <1>2, <1>3, <2>1, <2>6, <4>1 DEF HandlerIsOurs
      <4>3. <<s, handlerFd>>[2] = watcher'.id
        BY <2>2, <4>2
      <4> QED
        BY <4>2, <4>3 DEF RequestIsHeld
    <3> QED
      BY <3>1, <3>2
  <2>7. CASE ~watcher'.asked
    BY <2>7 DEF RequestIsHeld
  <2>8. CASE watcher'.phase \notin Receiving
    BY <2>8 DEF RequestIsHeld
  <2> QED
    BY <1>4, <2>2, <2>5, <2>6, <2>7, <2>8
<1>12. HandlerHeardTheSlots'
  BY <1>1, <1>2, <1>3, <1>4 DEF HandlerHeardTheSlots, WatchTypes, WatcherState, ConsoleState,
                                KernelState
<1> QED
  BY <1>5, <1>6, <1>7, <1>8, <1>9, <1>10, <1>11, <1>12

\* A handler writes to the descriptor it has read: to the living watcher's pipe, or to a number
\* that is nobody's now.
LEMMA HandlerWritesKeepsWatch ==
    ASSUME WaitInv, WatchInv, NEW h \in kernel.running, HandlerWrites(h)
    PROVE  WatchInv'
<1>1. /\ mode = "Handler"
      /\ UNCHANGED <<backend, queueVars, sourceVars, passVars, wakeVars, mode, watcher,
             handlerFd, console>>
  BY DEF HandlerWrites, WatchInv, HandlerIsOurs
<1>2. /\ kernel' \in KernelState
      /\ kernel'.running = kernel.running \ {h}
      /\ UNCHANGED <<kernel.blocked, kernel.pending, kernel.disposition>>
      /\ h[2] = watcher.id /\ watcher.phase # "none" =>
             kernel'.pipe # <<>> /\ readable' = readable \cup {NotifyFd}
      /\ ~(h[2] = watcher.id /\ watcher.phase # "none") =>
             UNCHANGED kernel.pipe /\ readable' = readable
  <2> DEFINE open == h[2] = watcher.id /\ watcher.phase # "none"
             pipe == IF open THEN Append(kernel.pipe, h[1]) ELSE kernel.pipe
             started == kernel.running \ {h}
  <2>1. kernel' = [kernel EXCEPT !.running = started, !.pipe = pipe]
    BY DEF HandlerWrites
  <2>2. kernel \in KernelState /\ kernel.pipe \in Seq(Signals) /\ h[1] \in Signals
        /\ started \in SUBSET (Signals \X Nat)
    BY DEF WatchInv, WatchTypes, KernelState
  <2>3. pipe \in Seq(Signals) /\ (open => pipe # <<>>) /\ (~open => pipe = kernel.pipe)
    BY <2>2
  <2> HIDE DEF pipe, started
  <2>4. kernel' \in KernelState /\ kernel'.running = started /\ kernel'.pipe = pipe
        /\ UNCHANGED <<kernel.blocked, kernel.pending, kernel.disposition>>
    BY ONLY <2>1, <2>2, <2>3 DEF KernelState
  <2>5. readable' = IF open THEN readable \cup {NotifyFd} ELSE readable
    BY DEF HandlerWrites
  <2> QED
    BY <2>3, <2>4, <2>5 DEF started
<1> USE DEF waitVars, queueVars, sourceVars, passVars, wakeVars, WatchInv
<1>3. WatchTypes'
  BY <1>1, <1>2 DEF WatchTypes
<1>4. ToldOnce'
  BY <1>1, <1>2 DEF ToldOnce, WatchTypes, WatcherState, ConsoleState, KernelState
<1>5. WatchWhere'
  BY <1>1, <1>2 DEF WatchWhere, Settled, WatchTypes, WatcherState, ConsoleState, KernelState
<1>6. HandlerIsOurs'
  BY <1>1, <1>2 DEF HandlerIsOurs, Receiving, NoWatcher, WatchTypes, WatcherState, ConsoleState,
                    KernelState
<1>7. SignalFdIsTrue' /\ PolledIsReadable' /\ CallIsDue'
  BY <1>1, <1>2 DEF SignalFdIsTrue, PolledIsReadable, CallIsDue, NotifySources, WatchTypes,
                    WatcherState, ConsoleState, KernelState
<1>8. ConsoleIsOurs'
  BY <1>1, <1>2 DEF ConsoleIsOurs, Delivering, NoWatcher, WatchTypes, WatcherState, ConsoleState,
                    KernelState
<1>9. RequestIsHeld'
  BY <1>1, <1>2 DEF RequestIsHeld, Receiving, WatchTypes, WatcherState, ConsoleState, KernelState
<1>10. HandlerHeardTheSlots'
  BY <1>1, <1>2 DEF HandlerHeardTheSlots, WatchTypes, WatcherState, ConsoleState, KernelState
<1> QED
  BY <1>3, <1>4, <1>5, <1>6, <1>7, <1>8, <1>9, <1>10

\* The console handler posts to the loop for the living watcher.
LEMMA ConsolePostsKeepsWatch ==
    ASSUME WaitInv, WatchInv, NEW t \in Others, ConsolePosts(t)
    PROVE  WatchInv'
<1>1. /\ mode = "Console"
      /\ console.watcher = watcher.id
      /\ watcher.phase \in {"watching", "stopping"}
      /\ UNCHANGED <<backend, wakeUpRequested, interrupted, sourceVars, passVars, readable,
             mode, handlerFd, kernel>>
  BY DEF ConsolePosts, WatchInv, ConsoleIsOurs
<1>2. waker'[Loop] = waker[Loop]
  BY LoopWaitAssumption DEF ConsolePosts, PostItem, WakeWaiter, WaitInv, WaitTypes, Threads
<1>3. /\ watcher' \in WatcherState
      /\ watcher'.asked
      /\ UNCHANGED <<watcher.id, watcher.phase, watcher.delivered, watcher.acknowledging,
             watcher.emitted>>
  BY DEF ConsolePosts, WatchInv, WatchTypes, WatcherState
<1>4. /\ console' \in ConsoleState
      /\ UNCHANGED console.watcher
      /\ ~console'.acknowledged
      /\ \A u \in Others : console'.told[u] <= watcher.id
      /\ \A u \in Others : console'.handler[u] = "heard" =>
             console.handler[u] = "heard" /\ console'.told[u] = console.told[u]
  <2>1. console \in ConsoleState /\ console.watcher \in Nat /\ watcher.id \in Nat /\ t \in Threads
    BY DEF WatchInv, WatchTypes, ConsoleState, WatcherState, Threads
  <2>2. \A u \in Others : console.told[u] <= watcher.id
    BY DEF WatchInv, ConsoleIsOurs
  <2>3. console' = [console EXCEPT !.delivering = TRUE, !.acknowledged = FALSE, !.holder = t,
                                   !.handler[t] = "posting", !.told[t] = console.watcher]
    BY DEF ConsolePosts
  <2>4. /\ console' \in ConsoleState
        /\ UNCHANGED console.watcher /\ ~console'.acknowledged
        /\ console'.told = [console.told EXCEPT ![t] = console.watcher]
        /\ console'.handler = [console.handler EXCEPT ![t] = "posting"]
    BY ONLY <2>1, <2>3 DEF ConsoleState
  <2>5. \A u \in Others : console'.told[u] <= watcher.id
    BY <1>1, <2>1, <2>2, <2>4 DEF ConsoleState
  <2>6. \A u \in Others : console'.handler[u] = "heard" =>
            console.handler[u] = "heard" /\ console'.told[u] = console.told[u]
    BY <2>1, <2>4 DEF ConsoleState
  <2> QED
    BY <2>4, <2>5, <2>6
<1>5. /\ Delivering(watcher.id)'
      /\ \A i \in Nat : Delivering(i)' => Delivering(i) \/ i = watcher.id
  <2>1. queue \in Seq(Items) /\ batch' = batch
    BY <1>1 DEF WaitInv, WaitTypes, passVars
  <2>2. <<"deliver", watcher.id>> \in Items
    BY DEF WatchInv, WatchTypes, WatcherState, Items
  <2>3. queue' = Append(queue, <<"deliver", watcher.id>>)
    BY <1>1 DEF ConsolePosts, PostItem
  <2>4. Range(queue') = Range(queue) \cup {<<"deliver", watcher.id>>}
    BY <2>1, <2>2, <2>3, AppendRange
  <2>5. \A i \in Nat : <<"deliver", i>> = <<"deliver", watcher.id>> => i = watcher.id
    OBVIOUS
  <2> QED
    BY <1>3, <2>1, <2>4, <2>5 DEF Delivering
<1> USE DEF waitVars, queueVars, sourceVars, passVars, wakeVars, WatchInv
<1>6. WatchTypes'
  BY <1>1, <1>2, <1>3, <1>4, <1>5 DEF WatchTypes
<1>7. ToldOnce'
  BY <1>1, <1>2, <1>3, <1>4, <1>5 DEF ToldOnce, WatchTypes, WatcherState, ConsoleState,
                                      KernelState
<1>8. WatchWhere'
  BY <1>1, <1>2, <1>3, <1>4, <1>5 DEF WatchWhere, Settled, WatchTypes, WatcherState,
                                      ConsoleState, KernelState
<1>9. HandlerIsOurs'
  BY <1>1, <1>2, <1>3, <1>4, <1>5 DEF HandlerIsOurs, Receiving, NoWatcher, WatchTypes,
                                      WatcherState, ConsoleState, KernelState
<1>10. SignalFdIsTrue' /\ PolledIsReadable' /\ CallIsDue'
  BY <1>1, <1>2, <1>3, <1>4, <1>5 DEF SignalFdIsTrue, PolledIsReadable, CallIsDue, NotifySources,
                                      WatchTypes, WatcherState, ConsoleState, KernelState
<1>11. ConsoleIsOurs'
  BY <1>1, <1>3, <1>4, <1>5 DEF ConsoleIsOurs, WatchTypes, WatcherState
<1>12. RequestIsHeld'
  <2>1. <<"deliver", watcher'.id>> \in Range(queue') \cup Range(batch')
    BY <1>3, <1>5 DEF Delivering
  <2> QED
    BY <2>1 DEF RequestIsHeld
<1>13. HandlerHeardTheSlots'
  BY <1>1, <1>2, <1>3, <1>4, <1>5 DEF HandlerHeardTheSlots, WatchTypes, WatcherState,
                                      ConsoleState, KernelState
<1> QED
  BY <1>6, <1>7, <1>8, <1>9, <1>10, <1>11, <1>12, <1>13

\* deliverFromConsole(): what is posted is for the living watcher, which was asked.
LEMMA DeliverFromConsoleKeepsWatch ==
    ASSUME WaitInv, WatchInv, DeliverFromConsole
    PROVE  WatchInv'
<1>1. /\ pc = "dispatch" /\ Settled
      /\ UNCHANGED <<backend, queueVars, sourceVars, pc, ready, called, waker, readable, mode,
             handlerFd, console, kernel>>
  BY DEF DeliverFromConsole, Dispatch
<1>2. /\ mode = "Console" /\ watcher.phase # "none" /\ watcher.asked
      /\ \A i \in Nat : Delivering(i)' => Delivering(i)
  <2>1. PICK id \in 1 .. MaxWatchers : Dispatch(<<"deliver", id>>)
    BY DEF DeliverFromConsole
  <2>2. batch \in Seq(Items) /\ batch # <<>> /\ Head(batch) = <<"deliver",
          id>> /\ batch' = Tail(batch)
    BY <2>1 DEF Dispatch, WaitInv, WaitTypes
  <2>3. Head(batch) \in Range(batch) /\ Range(batch') \subseteq Range(batch)
    BY <2>2, TailRange
  <2>4. id \in Nat
    BY SignalWatcherAssumption
  <2>9. Delivering(id)
    BY <2>2, <2>3 DEF Delivering
  <2>5. queue' = queue
    BY DEF DeliverFromConsole, queueVars
  <2> QED
    BY <2>3, <2>4, <2>5, <2>9 DEF WatchInv, ConsoleIsOurs, Delivering
<1>3. /\ watcher' \in WatcherState
      /\ UNCHANGED <<watcher.id, watcher.phase, watcher.asked>>
      /\ watcher'.delivered /\ watcher'.acknowledging /\ watcher'.emitted = 1
  <2>1. watcher \in WatcherState /\ ToldOnce
    BY DEF WatchInv, WatchTypes
  <2>2. CASE watcher.delivered
    <3>1. watcher' = [watcher EXCEPT !.acknowledging = TRUE]
      BY <2>2 DEF DeliverFromConsole
    <3>2. watcher.emitted = 1
      BY <2>1, <2>2 DEF ToldOnce
    <3> QED
      BY ONLY <2>1, <2>2, <3>1, <3>2 DEF WatcherState
  <2>3. CASE ~watcher.delivered
    <3> DEFINE n == watcher.emitted + 1
    <3>1. watcher' = [watcher EXCEPT !.delivered = TRUE, !.emitted = n, !.acknowledging = TRUE]
      BY <2>1, <2>3 DEF DeliverFromConsole, Deliver, WatcherState
    <3>2. n = 1
      BY <2>1, <2>3 DEF ToldOnce
    <3>3. n \in Nat
      BY <3>2
    <3> HIDE DEF n
    <3>4. /\ watcher' \in WatcherState /\ watcher'.delivered /\ watcher'.acknowledging
          /\ watcher'.emitted = n
          /\ UNCHANGED <<watcher.id, watcher.phase, watcher.asked>>
      BY ONLY <2>1, <3>1, <3>3 DEF WatcherState
    <3> QED
      BY ONLY <3>2, <3>4
  <2> QED
    BY <2>2, <2>3
<1> USE DEF waitVars, queueVars, sourceVars, passVars, wakeVars, WatchInv
<1>4. WatchTypes'
  BY <1>1, <1>2, <1>3 DEF WatchTypes
<1>5. ToldOnce'
  BY <1>1, <1>2, <1>3 DEF ToldOnce, WatchTypes, WatcherState, ConsoleState, KernelState
<1>6. WatchWhere'
  BY <1>1, <1>2, <1>3 DEF WatchWhere, Settled, WatchTypes, WatcherState, ConsoleState, KernelState
<1>7. HandlerIsOurs'
  BY <1>1, <1>2, <1>3 DEF HandlerIsOurs, Receiving, NoWatcher, WatchTypes, WatcherState,
                          ConsoleState, KernelState
<1>8. SignalFdIsTrue' /\ PolledIsReadable' /\ CallIsDue'
  BY <1>1, <1>2, <1>3 DEF SignalFdIsTrue, PolledIsReadable, CallIsDue, NotifySources, WatchTypes,
                          WatcherState, ConsoleState, KernelState
<1>9. ConsoleIsOurs'
  BY <1>1, <1>2, <1>3 DEF ConsoleIsOurs, Delivering, NoWatcher, WatchTypes, WatcherState,
                          ConsoleState, KernelState
<1>10. RequestIsHeld'
  BY <1>1, <1>2, <1>3 DEF RequestIsHeld, Receiving, WatchTypes, WatcherState, ConsoleState,
                          KernelState
<1>11. HandlerHeardTheSlots'
  BY <1>1, <1>2, <1>3 DEF HandlerHeardTheSlots, WatchTypes, WatcherState, ConsoleState,
                          KernelState
<1> QED
  BY <1>4, <1>5, <1>6, <1>7, <1>8, <1>9, <1>10, <1>11

\* addSource() touches the registrations of its descriptor only, and none of those polled for is
\* among the new ones.
LEMMA AddSourceIndexed ==
    ASSUME WaitInv, NEW t, NEW fd \in Fds, AddSource(t, fd), UNCHANGED ready
    PROVE  /\ \A s \in Range(sources') : s.fd = fd =>
                  s \notin ready /\ (IndexOfFd(fd) # {} \/ Len(sources) < MaxSources)
           /\ {s \in Range(sources') : s.fd # fd} = {s \in Range(sources) : s.fd # fd}
<1> DEFINE source == [fd |-> fd, generation |-> nextGeneration]
           at == IndexOfFd(fd)
           full == at = {} /\ Len(sources) >= MaxSources
<1>1. /\ sources \in Seq(Source) /\ source \in Source /\ source \notin ready /\ source.fd = fd
      /\ DOMAIN sources = 1 .. Len(sources) /\ Len(sources) \in Nat /\ MaxSources \in Nat
  BY LoopWaitAssumption DEF WaitInv, WaitTypes, OneEach, Source
<1>2. at = {i \in DOMAIN sources : sources[i].fd = fd}
  BY DEF IndexOfFd
<1>3. CASE full
  <2>1. sources' = sources /\ \A s \in Range(sources) : s.fd # fd
    BY <1>1, <1>2, <1>3 DEF AddSource, Range
  <2> QED
    BY <2>1
<1>4. CASE ~full /\ at = {}
  <2>1. sources' = Append(sources, source) /\ \A s \in Range(sources) : s.fd # fd
    BY <1>1, <1>2, <1>4 DEF AddSource, Range
  <2>2. Range(sources') = Range(sources) \cup {source}
    BY <1>1, <2>1, AppendRange
  <2>3. Len(sources) < MaxSources
    BY <1>1, <1>4
  <2> HIDE DEF source, at, full
  <2> QED
    BY <1>1, <2>1, <2>2, <2>3
<1>5. CASE at # {}
  <2>1. sources' = [i \in DOMAIN sources |-> IF i \in at THEN source ELSE sources[i]]
    BY <1>5 DEF AddSource
  <2> HIDE DEF source
  <2>2. ASSUME NEW s \in Range(sources'), s.fd = fd
        PROVE  s \notin ready
    <3>1. PICK i \in DOMAIN sources : s = IF i \in at THEN source ELSE sources[i]
      BY <2>1, <2>2 DEF Range
    <3>2. i \in at
      BY <1>2, <2>2, <3>1
    <3> QED
      BY <1>1, <3>1, <3>2
  <2>3. ASSUME NEW s \in Range(sources'), s.fd # fd
        PROVE  s \in Range(sources)
    <3>1. PICK i \in DOMAIN sources : s = IF i \in at THEN source ELSE sources[i]
      BY <2>1, <2>3 DEF Range
    <3> QED
      BY <1>1, <2>3, <3>1 DEF Range
  <2>4. ASSUME NEW s \in Range(sources), s.fd # fd
        PROVE  s \in Range(sources')
    <3>1. PICK i \in DOMAIN sources : s = sources[i]
      BY <2>4 DEF Range
    <3>2. i \notin at /\ sources'[i] = s /\ i \in DOMAIN sources'
      BY <1>2, <2>1, <2>4, <3>1
    <3> QED
      BY <3>2 DEF Range
  <2> QED
    BY <1>5, <2>2, <2>3, <2>4
<1> QED
  BY <1>3, <1>4, <1>5

\* A watcher is made over a descriptor, with room for its source or without.
LEMMA RegisterKeepsWatch ==
    ASSUME WaitInv, WatchInv, mode \in {"Handler", "SignalFd"}, MayConstruct,
            RegisterNotifyFd(IF mode = "Handler" THEN "registered" ELSE "watching"),
           readable' = IF kernel.pending # {} /\ HasRoom THEN readable \cup {NotifyFd}
                   ELSE readable,
           UNCHANGED kernel
    PROVE  WatchInv'
<1>1. /\ watcher.phase = "none" /\ Settled /\ pc \in {"pass", "dispatch", "callback"}
      /\ waker[Loop] = "idle"
      /\ UNCHANGED <<backend, queueVars, passVars, mode, handlerFd, console>>
  BY DEF MayConstruct, LoopCalls, MayCall, RegisterNotifyFd
<1>2. /\ watcher.id \in Nat
      /\ watcher' \in WatcherState
      /\ watcher'.id = watcher.id + 1
             /\ watcher'.phase = (IF HasRoom THEN IF mode = "Handler" THEN "registered"
                    ELSE "watching" ELSE "none")
      /\ ~watcher'.delivered /\ ~watcher'.acknowledging /\ watcher'.emitted = 0
      /\ watcher'.asked = (kernel.pending # {})
  <2>1. watcher.id \in Nat /\ watcher.id + 1 \in Nat
    BY DEF WatchInv, WatchTypes, WatcherState
  <2> DEFINE id == watcher.id + 1
             asked == kernel.pending # {}
             phase == IF HasRoom THEN IF mode = "Handler" THEN "registered" ELSE "watching"
                     ELSE "none"
  <2>2. watcher' = [id |-> id, phase |-> phase, delivered |-> FALSE, acknowledging |-> FALSE,
                    saved |-> [s \in Signals |-> "default"], emitted |-> 0, asked |-> asked]
    BY DEF RegisterNotifyFd, NewWatcher
  <2>3. id \in Nat /\ asked \in BOOLEAN /\ phase \in {"none", "registered", "watching"}
        /\ [s \in Signals |-> "default"] \in [Signals -> {"default", "handler"}]
    BY <2>1
  <2> HIDE DEF id, asked, phase
  <2>4. /\ watcher' \in WatcherState /\ watcher'.id = id /\ watcher'.phase = phase
        /\ ~watcher'.delivered /\ ~watcher'.acknowledging /\ watcher'.emitted = 0
        /\ watcher'.asked = asked
    BY <2>2, <2>3 DEF WatcherState
  <2> QED
    BY <2>1, <2>4 DEF id, asked, phase
<1>3. /\ ready \cap NotifySources' = {}
      /\ NotifySources' # {} => HasRoom
  <2>1. AddSource(Loop, NotifyFd) /\ UNCHANGED ready /\ NotifyFd \in Fds
    BY <1>1, LoopWaitAssumption DEF RegisterNotifyFd, passVars
  <2>2. \A s \in Range(sources') : s.fd = NotifyFd => s \notin ready /\ HasRoom
    BY <2>1, AddSourceIndexed DEF HasRoom
  <2> QED
    BY <2>2 DEF NotifySources
<1>4. /\ handlerFd = NoWatcher /\ console.watcher = NoWatcher /\ ~console.acknowledged
      /\ kernel.pipe = <<>> /\ \A id \in Nat : ~Delivering(id)
  BY <1>1 DEF WatchInv, HandlerIsOurs, ConsoleIsOurs, Receiving
<1> USE DEF waitVars, queueVars, sourceVars, passVars, wakeVars, WatchInv
<1>5. WatchTypes'
  BY <1>1, <1>2, <1>3, <1>4 DEF WatchTypes
<1>6. ToldOnce'
  BY <1>1, <1>2, <1>3, <1>4 DEF ToldOnce, WatchTypes, WatcherState, ConsoleState, KernelState
<1>7. WatchWhere'
  <2>1. watcher'.id > 0
    BY <1>2
  <2>2. pc' \in {"pass", "dispatch", "callback"}
    BY <1>1 DEF passVars
  <2>3. watcher'.phase \in {"none", "registered",
          "watching"} /\ (watcher'.phase = "registered" => mode = "Handler")
    BY <1>2
  <2>4. mode = "Handler" => ~watcher'.asked
    BY <1>2 DEF SignalFdIsTrue
  <2> QED
    BY <1>1, <1>2, <2>1, <2>2, <2>3, <2>4 DEF WatchWhere
<1>8. HandlerIsOurs'
  BY <1>1, <1>2, <1>3, <1>4 DEF HandlerIsOurs, Receiving, NoWatcher, WatchTypes, WatcherState,
                                ConsoleState, KernelState
<1>9. SignalFdIsTrue' /\ PolledIsReadable' /\ CallIsDue'
  BY <1>1, <1>2, <1>3, <1>4 DEF SignalFdIsTrue, PolledIsReadable, CallIsDue, NotifySources,
                                WatchTypes, WatcherState, ConsoleState, KernelState
<1>10. ConsoleIsOurs'
  BY <1>1, <1>2, <1>3, <1>4 DEF ConsoleIsOurs, Delivering, NoWatcher, WatchTypes, WatcherState,
                                ConsoleState, KernelState
<1>11. RequestIsHeld'
  BY <1>1, <1>2, <1>3, <1>4 DEF RequestIsHeld, Receiving, WatchTypes, WatcherState, ConsoleState,
                                KernelState
<1>12. HandlerHeardTheSlots'
  <2>1. \A t \in Others : console.told[t] \in Nat /\ console.told[t] <= watcher.id
    BY DEF WatchTypes, ConsoleState, ConsoleIsOurs
  <2>2. \A t \in Others : console'.told[t] # watcher'.id
    BY <1>1, <1>2, <2>1
  <2> QED
    BY <2>2 DEF HandlerHeardTheSlots
<1> QED
  BY <1>5, <1>6, <1>7, <1>8, <1>9, <1>10, <1>11, <1>12

LEMMA StartKeepsWatch ==
    ASSUME WaitInv, WatchInv, StartHandlerMode \/ StartSignalFdMode
    PROVE  WatchInv'
<1>1. CASE StartHandlerMode
  <2>1. kernel.pending = {}
    BY <1>1 DEF StartHandlerMode, WatchInv, SignalFdIsTrue
  <2> QED
    BY <1>1, <2>1, RegisterKeepsWatch DEF StartHandlerMode
<1>2. CASE StartSignalFdMode
  BY <1>2, RegisterKeepsWatch DEF StartSignalFdMode
<1> QED
  BY <1>1, <1>2

-----------------------------------------------------------------------------
(* The loop and its callers keep it too.                                                       *)

\* What the loop and its callers leave of what the watcher goes by.
SameForWatcher ==
    /\ backend' = backend /\ NotifySources' = NotifySources
    /\ NotifyFd \in readable' <=> NotifyFd \in readable
    /\ \A id \in Nat : Delivering(id)' <=> Delivering(id)

\* The callers of the loop have nothing to do with the watcher's descriptor or its posted call.
LEMMA CallsAreNotOurs ==
    ASSUME WaitInv, NEW t \in Threads, Calls(t)
    PROVE  SameForWatcher /\ UNCHANGED passVars /\ \A u \in Threads : u # t =>
            waker'[u] = waker[u]
<1>1. waker \in [Threads -> Steps] /\ queue \in Seq(Items)
  BY DEF WaitInv, WaitTypes
<1>2. CASE Post(t)
  <2>1. /\ queue' = Append(queue, Event) /\ waker' = [waker EXCEPT ![t] = "notify"]
        /\ UNCHANGED <<backend, sourceVars, passVars, readable>>
    BY <1>2 DEF Post, PostItem, WakeWaiter
  <2>2. Event \in Items /\ \A id \in Nat : <<"deliver", id>> # Event
    BY DEF Event, Items
  <2>3. Range(queue') = Range(queue) \cup {Event}
    BY <1>1, <2>1, <2>2, AppendRange
  <2>4. \A id \in Nat : Delivering(id)' <=> Delivering(id)
    BY <2>1, <2>2, <2>3 DEF Delivering, passVars
  <2> QED
    BY <1>1, <2>1, <2>4 DEF SameForWatcher, NotifySources, sourceVars
<1>3. CASE WakeUp(t) \/ Interrupt(t)
  <2>1. /\ waker' = [waker EXCEPT ![t] = "notify"]
        /\ UNCHANGED <<backend, queue, sourceVars, passVars, readable>>
    BY <1>3 DEF WakeUp, Interrupt, WakeWaiter
  <2> QED
    BY <1>1, <2>1 DEF SameForWatcher, NotifySources, Delivering, sourceVars, passVars
<1>4. ASSUME NEW fd \in Fds \ {NotifyFd}, RegisterEventSource(t, fd)
      PROVE  SameForWatcher /\ UNCHANGED passVars /\ \A u \in Threads : u # t =>
              waker'[u] = waker[u]
  <2>1. AddSource(t, fd) /\ UNCHANGED <<backend, queueVars, passVars, readable>>
    BY <1>4 DEF RegisterEventSource
  <2>2. waker' = waker \/ waker' = [waker EXCEPT ![t] = "notify"]
    BY <2>1 DEF AddSource, WakeWaiter
  <2>3. {s \in Range(sources') : s.fd # fd} = {s \in Range(sources) : s.fd # fd}
    BY <2>1, AddSourceIndexed DEF passVars
  <2>4. NotifySources' = NotifySources
    BY <2>3 DEF NotifySources
  <2> QED
    BY <1>1, <2>1, <2>2, <2>4 DEF SameForWatcher, Delivering, queueVars, passVars
<1>5. ASSUME NEW fd \in Fds \ {NotifyFd}, UnregisterEventSource(t, fd)
      PROVE  SameForWatcher /\ UNCHANGED passVars /\ \A u \in Threads : u # t =>
              waker'[u] = waker[u]
  <2>1. RemoveSource(t, fd) /\ UNCHANGED <<backend, queueVars, nextGeneration, passVars,
          readable>>
    BY <1>5 DEF UnregisterEventSource
  <2>2. waker' = waker \/ waker' = [waker EXCEPT ![t] = "notify"]
    BY <2>1 DEF RemoveSource, WakeWaiter
  <2>3. Range(sources') = {s \in Range(sources) : s.fd # fd}
    BY <2>1, RemoveSourceKeepsEach DEF passVars
  <2>4. NotifySources' = NotifySources
    BY <2>3 DEF NotifySources
  <2> QED
    BY <1>1, <2>1, <2>2, <2>4 DEF SameForWatcher, Delivering, queueVars, passVars
<1> QED
  BY <1>2, <1>3, <1>4, <1>5 DEF Calls

\* Nor have the other threads.
LEMMA OutsideIsNotOurs ==
    ASSUME WaitInv, OutsideStep
    PROVE  /\ SameForWatcher /\ UNCHANGED passVars
           /\ waker[Loop] = "idle" => waker'[Loop] = "idle"
<1>1. waker \in [Threads -> Steps] /\ Loop \in Threads
  BY DEF WaitInv, WaitTypes, Threads
<1>2. ASSUME NEW t \in Threads, WakeStep(t)
      PROVE  /\ SameForWatcher /\ UNCHANGED passVars
             /\ waker[Loop] = "idle" => waker'[Loop] = "idle"
  <2>1. /\ waker[t] # "idle" /\ \E step \in Steps : waker' = [waker EXCEPT ![t] = step]
        /\ UNCHANGED <<backend, queueVars, sourceVars, passVars, readable>>
    BY <1>2 DEF WakeStep, Notify, Exchange, Write, Undo, StepsOn, Steps
  <2> QED
    BY <1>1, <2>1 DEF SameForWatcher, NotifySources, Delivering, queueVars, sourceVars, passVars
<1>3. ASSUME NEW t \in Others, Calls(t)
      PROVE  /\ SameForWatcher /\ UNCHANGED passVars
             /\ waker[Loop] = "idle" => waker'[Loop] = "idle"
  <2>1. t \in Threads /\ t # Loop
    BY LoopWaitAssumption DEF Threads
  <2> QED
    BY <1>1, <1>3, <2>1, CallsAreNotOurs
<1>4. ASSUME NEW fd \in Fds \ {NotifyFd}, BecomesReadable(fd)
      PROVE  /\ SameForWatcher /\ UNCHANGED passVars
             /\ waker[Loop] = "idle" => waker'[Loop] = "idle"
  BY <1>4 DEF BecomesReadable, SameForWatcher, NotifySources, Delivering, queueVars, sourceVars,
              passVars, wakeVars
<1>5. ASSUME NEW message \in {"input", "quit"}, InputArrives(message)
      PROVE  /\ SameForWatcher /\ UNCHANGED passVars
             /\ waker[Loop] = "idle" => waker'[Loop] = "idle"
  BY <1>5 DEF InputArrives, SameForWatcher, NotifySources, Delivering, queueVars, sourceVars,
              passVars, wakeVars
<1> QED
  BY <1>2, <1>3, <1>4, <1>5 DEF OutsideStep

LEMMA TakeBatchDeliversNothing ==
    ASSUME batch = <<>>, TakeBatch
    PROVE  \A id \in Nat : Delivering(id)' <=> Delivering(id)
<1>1. Range(<<>>) = {}
  BY DEF Range
<1> QED
  BY <1>1 DEF TakeBatch, Delivering

\* Nor has the loop, but for calling the descriptor back.
LEMMA LoopStepIsNotOurs ==
    ASSUME WaitInv, LoopStep \/ ReturnForNothing \/ ForeignLoopTakesWakeUp
    PROVE  SameForWatcher
<1> USE DEF sourceVars, queueVars, passVars
<1>1. CASE CollectWork \/ Relock
  <2>1. batch = <<>> /\ TakeBatch /\ UNCHANGED <<backend, sources, readable>>
    BY <1>1 DEF CollectWork, Relock, WaitInv, Where
  <2> QED
    BY <2>1, TakeBatchDeliversNothing DEF SameForWatcher, NotifySources
<1>2. CASE DispatchEvent
  <2>1. /\ batch # <<>> /\ Head(batch) = Event /\ batch' = Tail(batch) /\ batch \in Seq(Items)
        /\ UNCHANGED <<backend, sources, readable, queue>>
    BY <1>2 DEF DispatchEvent, Dispatch, WaitInv, WaitTypes
  <2>2. Range(batch) = Range(batch') \cup {Event}
    BY <2>1, TailRange
  <2>3. \A id \in Nat : <<"deliver", id>> # Event
    BY DEF Event
  <2>4. \A id \in Nat : Delivering(id)' <=> Delivering(id)
    BY <2>1, <2>2, <2>3 DEF Delivering
  <2> QED
    BY <2>1, <2>4 DEF SameForWatcher, NotifySources
<1>3. CASE ReturnFromCallback
  BY <1>3 DEF ReturnFromCallback, SameForWatcher, NotifySources, Delivering
<1>4. CASE \/ BeginPass \/ BeginWait \/ WakeFromCondition \/ ReturnFromPoll \/ ReadWakeFd
           \/ ClearWakePending \/ ReturnFromMsgWait \/ SourcesDone \/ PumpMessage \/ PumpClears
           \/ PumpDone \/ EndPass \/ ReturnForNothing \/ ForeignLoopTakesWakeUp
           \/ \E source \in ready : CallSource(source)
  <2>1. UNCHANGED <<backend, sources, readable, queue, batch>>
    BY <1>4 DEF BeginPass, BeginWait, WakeFromCondition, ReturnFromPoll, ReadWakeFd,
                ClearWakePending, ReturnFromMsgWait, SourcesDone, PumpMessage, PumpClears,
                PumpDone, EndPass, ReturnForNothing, ForeignLoopTakesWakeUp, CallSource
  <2> QED
    BY <2>1 DEF SameForWatcher, NotifySources, Delivering
<1> QED
  BY <1>1, <1>2, <1>3, <1>4 DEF LoopStep

\* The watcher's descriptor is called back while it is readable, once for a pass.
LEMMA CallSourceIsDue ==
    ASSUME WaitInv, WatchInv, Settled, NEW source \in ready, CallSource(source),
            UNCHANGED watcherVars
    PROVE  CallIsDue'
<1>1. /\ pc = "sources" /\ backend = "poll" /\ ready' = ready \ {source}
      /\ UNCHANGED <<sources, watcher, mode, kernel>>
  BY DEF CallSource, WaitInv, Where, watcherVars, sourceVars
<1>2. NotifySources' = NotifySources
  BY <1>1 DEF NotifySources
<1>3. CASE source \notin Range(sources)
  BY <1>1, <1>3 DEF CallSource, IsStillRegistered, CallIsDue
<1>4. CASE source \in Range(sources) /\ source.fd # NotifyFd
  <2>1. called' = CHOOSE s \in Range(sources) : s.fd = source.fd
    BY <1>4 DEF CallSource, IsStillRegistered
  <2>2. called'.fd = source.fd
    BY <1>4, <2>1
  <2> QED
    BY <1>4, <2>2 DEF CallIsDue
<1>5. CASE source \in Range(sources) /\ source.fd = NotifyFd
  <2>1. source \in NotifySources
    BY <1>5 DEF NotifySources
  <2>2. NotifyFd \in readable /\ watcher.phase = "watching"
    BY <1>1, <2>1 DEF WatchInv, PolledIsReadable, SignalFdIsTrue, Settled
  <2>3. mode = "SignalFd" => kernel.pending # {} /\ watcher.asked
    BY <2>2 DEF WatchInv, SignalFdIsTrue
  <2>4. \A s \in ready : s.fd = NotifyFd => s = source
    BY <1>5 DEF WaitInv, OneEach
  <2>5. ready' \cap NotifySources' = {}
    BY <1>1, <1>2, <2>4 DEF NotifySources
  <2> QED
    BY <1>1, <2>3, <2>5 DEF CallIsDue
<1> QED
  BY <1>3, <1>4, <1>5

\* The readiness the loop has been told of lasts until the callback: only the callback reads it.
LEMMA LoopStepIsDue ==
    ASSUME WaitInv, WatchInv, Settled, LoopStep \/ ReturnForNothing \/ ForeignLoopTakesWakeUp,
           UNCHANGED watcherVars
    PROVE  PolledIsReadable' /\ CallIsDue'
<1>1. SameForWatcher
  BY LoopStepIsNotOurs
<1>2. PolledIsReadable /\ CallIsDue /\ Where
  BY DEF WatchInv, WaitInv
<1> USE DEF sourceVars, queueVars, passVars
<1>3. CASE ReturnFromPoll
  <2>1. ready' = {s \in ready : s.fd \in readable} /\ pc' \in {"read", "sources"}
    BY <1>3 DEF ReturnFromPoll
  <2>2. readable' = readable
    BY <1>3 DEF ReturnFromPoll
  <2>3. ready' \cap NotifySources' # {} => NotifyFd \in readable'
    BY <2>1, <2>2 DEF NotifySources
  <2> QED
    BY <2>1, <2>3 DEF PolledIsReadable, CallIsDue
<1>4. CASE ReadWakeFd \/ ClearWakePending \/ ReturnFromCallback
  <2>1. /\ ready' = ready /\ pc \in {"read", "clear", "callback"} /\ pc' # "callback"
    BY <1>4 DEF ReadWakeFd, ClearWakePending, ReturnFromCallback
  <2> QED
    BY <1>1, <1>2, <2>1 DEF PolledIsReadable, CallIsDue, SameForWatcher
<1>5. ASSUME NEW source \in ready, CallSource(source)
      PROVE  PolledIsReadable' /\ CallIsDue'
  <2>1. ready' \subseteq ready /\ pc = "sources"
    BY <1>5 DEF CallSource
  <2>2. PolledIsReadable'
    BY <1>1, <1>2, <2>1 DEF PolledIsReadable, SameForWatcher
  <2> QED
    BY <1>5, <2>2, CallSourceIsDue
<1>6. CASE \/ BeginPass \/ BeginWait \/ WakeFromCondition
           \/ ReturnFromMsgWait \/ SourcesDone \/ PumpMessage \/ PumpClears
           \/ PumpDone \/ EndPass \/ ReturnForNothing \/ ForeignLoopTakesWakeUp
           \/ CollectWork \/ Relock \/ DispatchEvent
  <2>1. pc' \notin {"read", "sources", "callback"} /\ (pc' = "clear" => backend' # "poll")
    BY <1>6 DEF BeginPass, BeginWait, WakeFromCondition, ReturnFromMsgWait, SourcesDone,
                PumpMessage, PumpClears, PumpDone, EndPass, ReturnForNothing,
                ForeignLoopTakesWakeUp, CollectWork, Relock, TakeBatch, DispatchEvent, Dispatch,
                Native
  <2> QED
    BY <2>1 DEF PolledIsReadable, CallIsDue
<1> QED
  BY <1>3, <1>4, <1>5, <1>6 DEF LoopStep

\* A step that leaves the watcher alone, and what it goes by.
LEMMA MoveKeepsWatch ==
    ASSUME WatchInv, SameForWatcher, UNCHANGED watcherVars, PolledIsReadable' /\ CallIsDue',
           ~Settled => UNCHANGED pc,
           watcher.phase \in {"stopping", "restored"} /\ waker[Loop] = "idle" =>
                   waker'[Loop] = "idle"
    PROVE  WatchInv'
<1> USE DEF watcherVars, WatchInv
<1>1. WatchTypes' /\ ToldOnce' /\ HandlerIsOurs' /\ HandlerHeardTheSlots'
  BY DEF SameForWatcher, WatchTypes, ToldOnce, HandlerIsOurs, HandlerHeardTheSlots
<1>2. WatchWhere'
  BY DEF WatchWhere, Settled
<1>3. SignalFdIsTrue'
  BY DEF SameForWatcher, SignalFdIsTrue
<1>4. ConsoleIsOurs'
  BY DEF SameForWatcher, ConsoleIsOurs
<1>5. RequestIsHeld'
  <2>1. watcher.id \in Nat
    BY DEF WatchTypes, WatcherState
  <2>2. <<"deliver", watcher.id>> \in Range(queue) \cup Range(batch)
            => <<"deliver", watcher'.id>> \in Range(queue') \cup Range(batch')
    BY <2>1 DEF SameForWatcher, Delivering
  <2> QED
    BY <2>2 DEF SameForWatcher, RequestIsHeld
<1> QED
  BY <1>1, <1>2, <1>3, <1>4, <1>5

LEMMA LoopWaitMovesKeepsWatch ==
    ASSUME WaitInv, WatchInv, LoopWaitMoves
    PROVE  WatchInv'
<1>1. UNCHANGED watcherVars /\ Loop \in Threads
  BY DEF LoopWaitMoves, Threads
<1>2. ASSUME SameForWatcher, UNCHANGED passVars
      PROVE  PolledIsReadable' /\ CallIsDue' /\ UNCHANGED pc
  BY <1>1, <1>2 DEF WatchInv, PolledIsReadable, CallIsDue, SameForWatcher, passVars, watcherVars
<1>3. CASE OutsideStep
  BY <1>1, <1>2, <1>3, OutsideIsNotOurs, MoveKeepsWatch
<1>4. CASE Settled /\ Calls(Loop)
  <2>1. watcher.phase \notin {"stopping", "restored"}
    BY <1>4 DEF Settled
  <2> QED
    BY <1>1, <1>2, <1>4, <2>1, CallsAreNotOurs, MoveKeepsWatch
<1>5. CASE Settled /\ (LoopStep \/ ReturnForNothing \/ ForeignLoopTakesWakeUp)
  <2>1. watcher.phase \notin {"stopping", "restored"}
    BY <1>5 DEF Settled
  <2> QED
    BY <1>1, <1>5, <2>1, LoopStepIsNotOurs, LoopStepIsDue, MoveKeepsWatch
<1> QED
  BY <1>3, <1>4, <1>5 DEF LoopWaitMoves, LoopThreadStep

-----------------------------------------------------------------------------
(* The theorems.                                                                               *)

\* Every step keeps the wait's invariant...
LEMMA StepKeepsWait ==
    ASSUME WaitInv, WatchInv, Next
    PROVE  WaitInv'
<1>0. Loop \in Threads /\ NotifyFd \in Fds /\ readable \in SUBSET Fds
  BY LoopWaitAssumption DEF Threads, WaitInv, WaitTypes
<1>1. CASE LoopWaitMoves
  BY <1>1, OutsideStepKeepsWait, LoopThreadStepKeepsWait DEF LoopWaitMoves
<1>2. CASE \/ PublishHandlerFd \/ \E s \in Signals : InstallHandler(s)
           \/ RestoreDispositions \/ StartConsoleHandler \/ StopPublishing \/ Acknowledge
           \/ \E t \in Others : \/ ConsoleWaits(t) \/ ConsoleReturns(t)
                                 \/ ConsoleEvent(t) \/ ConsoleRefuses(t)
  <2>1. UNCHANGED waitVars
    BY <1>2 DEF PublishHandlerFd, InstallHandler, RestoreDispositions, StartConsoleHandler,
                StopPublishing, Acknowledge, ConsoleWaits, ConsoleReturns, ConsoleEvent,
                ConsoleRefuses
  <2> QED
    BY <2>1, UnmovedKeepsWait
<1>3. CASE OnNotifyFdReady
  <2>1. /\ pc = "callback" /\ LoopFree /\ pc' = "sources" /\ called' = NoSource
        /\ readable' = readable \ {NotifyFd}
        /\ UNCHANGED <<backend, queueVars, sourceVars, batch, ready, wakeVars, input>>
    BY <1>3 DEF OnNotifyFdReady
  <2>2. readable' \in SUBSET Fds
    BY <1>0, <2>1
  <2> QED
    BY <2>1, <2>2, CallbackReturnsKeepsWait
<1>4. CASE CloseNotifyFd
  <2>1. /\ RemoveSource(Loop, NotifyFd) /\ readable' = readable \ {NotifyFd}
        /\ UNCHANGED <<backend, refused, queueVars, nextGeneration, passVars, wakeFd, wakePending,
                       notified, input, left>>
        /\ watcher.phase = "restored"
    BY <1>4 DEF CloseNotifyFd
  <2>2. waker[Loop] = "idle" /\ pc \in {"pass", "dispatch", "callback"}
    BY <2>1 DEF WatchInv, WatchWhere, Settled
  <2>3. readable' \in SUBSET Fds
    BY <1>0, <2>1
  <2> QED
    BY <1>0, <2>1, <2>2, <2>3, RemoveSourceKeepsWait
<1>5. CASE ReleaseConsole
  <2> DEFINE P == {k \in Positions(queue) : queue[k] = Event}
             Q == {k \in Positions(batch) : batch[k] = Event}
  <2>1. /\ queue' = Picked(queue, P) /\ batch' = Picked(batch, Q)
        /\ UNCHANGED <<backend, wakeUpRequested, interrupted, sourceVars, pc, ready, called,
               wakeVars,
                       input, readable>>
    BY <1>5 DEF ReleaseConsole
  <2> HIDE DEF P, Q
  <2> QED
    BY <2>1, ReleaseKeepsWait
<1>6. CASE \E h \in kernel.running : HandlerWrites(h)
  <2>1. /\ readable' = readable \cup {NotifyFd} \/ readable' = readable
        /\ UNCHANGED <<backend, queueVars, sourceVars, passVars, wakeVars, input>>
    BY <1>6 DEF HandlerWrites
  <2>2. readable' \in SUBSET Fds
    BY <1>0, <2>1
  <2> QED
    BY <2>1, <2>2, ReadableKeepsWait
<1>7. CASE \E s \in Signals : SignalArrives(s)
  <2>1. /\ readable' = readable \cup {NotifyFd} \/ readable' = readable
        /\ UNCHANGED <<backend, queueVars, sourceVars, passVars, wakeVars, input>>
    BY <1>7 DEF SignalArrives
  <2>2. readable' \in SUBSET Fds
    BY <1>0, <2>1
  <2> QED
    BY <2>1, <2>2, ReadableKeepsWait
<1>8. ASSUME NEW t \in Others, ConsolePosts(t)
      PROVE  WaitInv'
  <2>1. t \in Threads /\ t # Loop
    BY LoopWaitAssumption DEF Threads
  <2>2. <<"deliver", console.watcher>> \in Items
    BY DEF WatchInv, WatchTypes, ConsoleState, Items
  <2>3. /\ waker[t] = "idle" /\ PostItem(t, <<"deliver", console.watcher>>)
        /\ UNCHANGED <<backend, refused, wakeUpRequested, interrupted, sourceVars, passVars,
               wakeFd,
                       wakePending, notified, input, readable>>
    BY <1>8 DEF ConsolePosts
  <2> QED
    BY <2>1, <2>2, <2>3, PostItemKeepsWait
<1>9. CASE DeliverFromConsole
  <2>1. PICK id \in 1 .. MaxWatchers : Dispatch(<<"deliver", id>>) /\ UNCHANGED <<queueVars,
          waker>>
    BY <1>9 DEF DeliverFromConsole
  <2>2. <<"deliver", id>> \in Items
    BY SignalWatcherAssumption DEF Items
  <2> QED
    BY <2>1, <2>2, DispatchItemKeepsWait
<1>10. CASE StartHandlerMode \/ StartSignalFdMode
  <2>1. PICK phase : RegisterNotifyFd(phase) /\ MayCall(Loop)
    BY <1>10 DEF StartHandlerMode, StartSignalFdMode, MayConstruct, LoopCalls
  <2>2. readable' \in SUBSET Fds
    BY <1>0, <1>10 DEF StartHandlerMode, StartSignalFdMode
  <2>3. /\ AddSource(Loop, NotifyFd)
        /\ UNCHANGED <<backend, refused, queueVars, passVars, wakeFd, wakePending, notified,
               input>>
    BY <2>1 DEF RegisterNotifyFd
  <2> QED
    BY <1>0, <2>1, <2>2, <2>3, AddSourceKeepsWait
<1> QED
  BY <1>1, <1>2, <1>3, <1>4, <1>5, <1>6, <1>7, <1>8, <1>9, <1>10 DEF Next, WatcherStep

\* ...and the watcher's.
LEMMA StepKeepsWatch ==
    ASSUME WaitInv, WatchInv, Next
    PROVE  WatchInv'
BY PublishHandlerFdKeepsWatch, InstallHandlerKeepsWatch, StartConsoleHandlerKeepsWatch,
   StopPublishingKeepsWatch, RestoreDispositionsKeepsWatch, ConsoleEventKeepsWatch,
   ConsoleRefusesKeepsWatch, ConsoleWaitsKeepsWatch, ConsoleReturnsKeepsWatch,
   AcknowledgeKeepsWatch, OnNotifyFdReadyKeepsWatch, CloseNotifyFdKeepsWatch,
   ReleaseConsoleKeepsWatch, SignalArrivesKeepsWatch, HandlerWritesKeepsWatch,
   ConsolePostsKeepsWatch, DeliverFromConsoleKeepsWatch, StartKeepsWatch,
   LoopWaitMovesKeepsWatch
   DEF Next, WatcherStep

LEMMA StutterKeeps ==
    ASSUME WaitInv, WatchInv, UNCHANGED vars
    PROVE  WaitInv' /\ WatchInv'
<1>1. WaitInv'
  BY UnmovedKeepsWait DEF vars
<1>2. UNCHANGED <<backend, queue, batch, sources, ready, called, pc, waker, readable,
        watcherVars>>
  BY DEF vars, waitVars, queueVars, sourceVars, passVars, wakeVars
<1>3. SameForWatcher
  BY <1>2 DEF SameForWatcher, NotifySources, Delivering
<1>4. PolledIsReadable' /\ CallIsDue'
  BY <1>2 DEF WatchInv, PolledIsReadable, CallIsDue, NotifySources, watcherVars
<1>5. WatchInv'
  BY <1>2, <1>3, <1>4, MoveKeepsWatch
<1> QED
  BY <1>1, <1>5

\* Both hold at the beginning.
LEMMA WatchBegins ==
    ASSUME Init
    PROVE  WaitInv /\ WatchInv
<1>1. PICK bounds : LoopWaitInit(bounds)
  BY DEF Init
<1>2. WaitInv
  BY <1>1, WaitBegins
<1>3. /\ pc = "pass" /\ sources = <<>> /\ ready = {} /\ queue = <<>> /\ batch = <<>>
      /\ readable = {} /\ called = NoSource
  BY <1>1 DEF LoopWaitInit
<1>4. /\ mode \in DOMAIN ModeOf /\ backend \in ModeOf[mode] /\ handlerFd = 0
      /\ watcher = [id |-> 0, phase |-> "none", delivered |-> FALSE, acknowledging |-> FALSE,
                    saved |-> [s \in Signals |-> "default"], emitted |-> 0, asked |-> FALSE]
      /\ console = [installed |-> FALSE, holder |-> "nobody", watcher |-> 0,
                    delivering |-> FALSE, acknowledged |-> FALSE,
                    handler |-> [t \in Others |-> "idle"], told |-> [t \in Others |-> 0]]
      /\ kernel = [disposition |-> [s \in Signals |-> "default"],
                   blocked |-> mode = "SignalFd", pending |-> {}, pipe |-> <<>>,
                   running |-> {}, killed |-> FALSE, signals |-> 0]
  BY DEF Init, NewWatcher, NoWatcher
<1>5. /\ watcher \in WatcherState /\ watcher.id = 0 /\ watcher.phase = "none"
      /\ ~watcher.delivered
      /\ ~watcher.acknowledging /\ watcher.emitted = 0 /\ ~watcher.asked
  BY <1>4 DEF WatcherState
<1>6. /\ console \in ConsoleState /\ console.watcher = 0 /\ ~console.acknowledged
      /\ \A t \in Others : console.told[t] = 0 /\ console.handler[t] = "idle"
  BY <1>4 DEF ConsoleState
<1>7. /\ kernel.blocked = (mode = "SignalFd") /\ kernel.pending = {} /\ kernel.pipe = <<>>
      /\ kernel.running = {} /\ \A s \in Signals : kernel.disposition[s] = "default"
  BY <1>4
<1>8. kernel \in KernelState
  <2> DEFINE blocked == mode = "SignalFd"
  <2>1. blocked \in BOOLEAN /\ <<>> \in Seq(Signals) /\ {} \in SUBSET (Signals \X Nat)
    OBVIOUS
  <2>2. kernel = [disposition |-> [s \in Signals |-> "default"],
                  blocked |-> blocked, pending |-> {}, pipe |-> <<>>,
                  running |-> {}, killed |-> FALSE, signals |-> 0]
    BY <1>4
  <2> HIDE DEF blocked
  <2> QED
    BY ONLY <2>1, <2>2 DEF KernelState
<1>9. Range(<<>>) = {} /\ called.fd = "none"
  BY <1>3 DEF Range, NoSource
<1>10. NotifySources = {} /\ \A id \in Nat : ~Delivering(id)
  BY <1>3, <1>9 DEF NotifySources, Delivering
<1>11. WatchTypes
  BY <1>4, <1>5, <1>6, <1>8 DEF WatchTypes
<1>12. ToldOnce /\ WatchWhere
  BY <1>3, <1>5 DEF ToldOnce, WatchWhere, Settled
<1>13. HandlerIsOurs
  BY <1>4, <1>5, <1>7 DEF HandlerIsOurs, Receiving, NoWatcher
<1>14. SignalFdIsTrue /\ PolledIsReadable /\ CallIsDue
  BY <1>3, <1>5, <1>7, <1>10 DEF SignalFdIsTrue, PolledIsReadable, CallIsDue
<1>15. ConsoleIsOurs
  BY <1>5, <1>6, <1>10 DEF ConsoleIsOurs, NoWatcher
<1>16. RequestIsHeld /\ HandlerHeardTheSlots
  BY <1>5, <1>6 DEF RequestIsHeld, HandlerHeardTheSlots
<1> QED
  BY <1>2, <1>11, <1>12, <1>13, <1>14, <1>15, <1>16 DEF WatchInv

\* The wait's and the watcher's invariant always hold, for any threads, descriptors,
\* dispatchers, sizes and bounds.
THEOREM WatcherInvariant == Spec => [](WaitInv /\ WatchInv)
<1>1. Init => WaitInv /\ WatchInv
  BY WatchBegins
<1>2. WaitInv /\ WatchInv /\ [Next]_vars => (WaitInv /\ WatchInv)'
  BY StepKeepsWait, StepKeepsWatch, StutterKeeps
<1> QED
  BY <1>1, <1>2, PTL DEF Spec

\* No loop sleeps over something to notice without its wake-up on the way, whichever threads are
\* between whichever steps of wakeWaiter(), and on every dispatcher
\* (EventDispatcherLinux.cpp:264-304, EventDispatcherWin32.cpp:256-292).
THEOREM WakeIsKept == Spec => []WakeIsNotLost
BY WatcherInvariant, WaitInvWakes, PTL

\* What the invariant says of requests is what the run checks.
LEMMA InvariantKeepsRequests ==
    ASSUME WaitInv, WatchInv
    PROVE  RequestsAreKept
<1>1. LoopWaitTypeOK
  BY WaitInvWakes DEF WakeIsNotLost
<1>2. /\ watcher \in WatcherState /\ console \in ConsoleState /\ kernel \in KernelState
      /\ handlerFd \in Nat
  BY DEF WatchInv, WatchTypes
<1>3. kernel.disposition \in [Signals -> {"default", "handler"}]
  BY <1>2 DEF KernelState
<1>4. TypeOK
  BY <1>1, <1>2, <1>3 DEF TypeOK
<1>5. watcher.emitted <= (IF watcher.asked THEN 1 ELSE 0)
  BY DEF WatchInv, ToldOnce
<1> QED
  BY <1>4, <1>5 DEF RequestsAreKept, TriggeredOnce, WatchInv

\* A shutdown request is held through every step between the handler and the slots, told at most
\* once, and acknowledged only when the slots have run or the watcher is gone
\* (SignalWatcherPosix.cpp:345-403, SignalWatcherWin.cpp:288-306).
THEOREM RequestIsKept == Spec => []RequestsAreKept
BY WatcherInvariant, InvariantKeepsRequests, PTL

\* Only the loop calls a source back.
LEMMA CalledOnlyBySource ==
    ASSUME WaitInv, Next
    PROVE  called' # called /\ called' # NoSource => called' \in ready
<1>1. CASE \E source \in ready : CallSource(source)
  BY <1>1, CalledWasPolled
<1>2. CASE LoopWaitMoves
  <2>1. CASE LoopStep
    BY <1>1, <2>1 DEF LoopStep, BeginPass, CollectWork, BeginWait, WakeFromCondition,
                      ReturnFromPoll,
                ReadWakeFd, ClearWakePending, ReturnFromMsgWait, ReturnFromCallback, SourcesDone,
                Relock, PumpMessage, PumpClears, PumpDone, DispatchEvent, Dispatch, EndPass
  <2>2. CASE ReturnForNothing \/ ForeignLoopTakesWakeUp
    BY <2>2 DEF ReturnForNothing, ForeignLoopTakesWakeUp, passVars
  <2>3. ASSUME NEW t \in Threads, Calls(t)
        PROVE  called' = called
    BY <2>3, CallsAreNotOurs DEF passVars
  <2>4. CASE OutsideStep
    BY <2>4, OutsideIsNotOurs DEF passVars
  <2> QED
    BY <1>2, <2>1, <2>2, <2>3, <2>4 DEF LoopWaitMoves, LoopThreadStep, Threads
<1>3. CASE ~LoopWaitMoves
  <2> USE DEF waitVars, passVars
  <2>1. ASSUME RegisterNotifyFd("registered") \/ RegisterNotifyFd("watching")
        PROVE  called' = called
    BY <2>1 DEF RegisterNotifyFd
  <2>2. CASE StartHandlerMode \/ StartSignalFdMode
    BY <2>1, <2>2 DEF StartHandlerMode, StartSignalFdMode
  <2>3. CASE StartConsoleHandler \/ StopPublishing
    BY <2>3 DEF StartConsoleHandler, StopPublishing
  <2>4. ASSUME NEW s \in Signals, SignalArrives(s) \/ InstallHandler(s)
        PROVE  called' = called
    BY <2>4 DEF SignalArrives, InstallHandler
  <2>5. ASSUME NEW t \in Others,
               \/ ConsoleEvent(t) \/ ConsoleRefuses(t)
               \/ ConsolePosts(t) \/ ConsoleWaits(t) \/ ConsoleReturns(t)
        PROVE  called' = called
    BY <2>5 DEF ConsoleEvent, ConsoleRefuses, ConsolePosts, ConsoleWaits, ConsoleReturns
  <2>6. ASSUME NEW h \in kernel.running, HandlerWrites(h)
        PROVE  called' = called
    BY <2>6 DEF HandlerWrites
  <2>7. CASE OnNotifyFdReady
    BY <2>7 DEF OnNotifyFdReady
  <2>8. CASE \/ PublishHandlerFd \/ RestoreDispositions \/ CloseNotifyFd \/ ReleaseConsole
             \/ Acknowledge \/ DeliverFromConsole
    BY <2>8 DEF PublishHandlerFd, RestoreDispositions, CloseNotifyFd, ReleaseConsole, Acknowledge,
                DeliverFromConsole, Dispatch
  <2>9. CASE WatcherStep
    BY <2>4, <2>5, <2>6, <2>7, <2>8, <2>9 DEF WatcherStep
  <2> QED
    BY <1>3, <2>2, <2>3, <2>4, <2>5, <2>9 DEF Next
<1> QED
  BY <1>2, <1>3

\* A callback runs only for the registration whose descriptor was polled, and not for one that
\* has taken its number since (EventDispatcherLinux.cpp:246-261).
THEOREM OnlyPolledIsCalled == Spec => CallsWhatWasPolled
<1>1. WaitInv /\ [Next]_vars => [called' # called /\ called' # NoSource =>
        called' \in ready]_waitVars
  BY CalledOnlyBySource DEF vars
<1> QED
  BY <1>1, WatcherInvariant, PTL DEF Spec, CallsWhatWasPolled
=============================================================================
