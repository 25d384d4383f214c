----------------------------- MODULE Animation ------------------------------
(***************************************************************************)
(* The animations of one thread, the clock that advances them and the      *)
(* property they move: AbstractAnimation, AnimationClock, PropertyAnimation*)
(* and the Timer the clock ticks by.                                       *)
(*                                                                         *)
(* Everything runs on one thread, and yet calls interleave: a tick walks a *)
(* copy of the clock's list, each animation it advances sets the property, *)
(* and the slot that hears of it, or of the end, may start, stop, pause,   *)
(* destroy or create any animation, tick the clock, or let the loop do so. *)
(* What waits for such a slot to return is a frame on the stack.           *)
(*                                                                         *)
(* An easing curve is 0 at 0 and 1 at 1; in between it is linear, or       *)
(* overshoots.  A duration is in milliseconds, the time of day in Units.   *)
(***************************************************************************)
EXTENDS Property, Integers, FiniteSets

CONSTANTS
    Animations,  \* addresses animations may have
    Made,        \* the animations there may be at first, as the program set them up
    Null,        \* nullptr: a hole in the clock's list
    Durations,   \* what setDuration() is given
    LoopCounts,  \* what setLoopCount() is given
    Targets,     \* what setStartValue(), setEndValue() and Property::set() are given
    Steps,       \* what advanceAll(int) is given
    MaxCalls,    \* bound: calls the program makes
    MaxNow       \* bound: the time of day

Unit == 2        \* instants of steady_clock in a millisecond

ASSUME AnimationAssumption ==
    /\ Null \notin Animations
    /\ Durations \subseteq Int /\ LoopCounts \subseteq Int /\ Steps \subseteq Int
    /\ Targets \subseteq Values /\ {MaxCalls, MaxNow} \subseteq Nat

VARIABLES
    anim,            \* [Animations -> the object there, or Free]
    list, hasHoles,  \* AnimationClock: mAnimations, mHasHoles
    ticking,         \* mTimer is active
    lastTick, now,   \* mLastTick, steady_clock::now()
    external,        \* gExternalTick
    touched,         \* history: after what a destroyed animation was read
    peak,            \* history: the most that were ever registered at once
    driven,          \* history: gExternalTick has been set
    busySince,       \* history: when the clock last went from idle to busy
    founders,        \* history: those running since, and started then
    favoured,        \* history: those whose time is not the clock's alone
    meddled,         \* history: those with a call made as they showed their end
    told,            \* history: how often finished was emitted since start()
    halted,          \* history: those stopped by stop() since start()
    calls            \* the calls the program has left

clockVars == <<list, hasHoles, ticking, lastTick>>
historyVars == <<touched, peak, driven, busySince, founders, favoured, meddled, told, halted>>
vars == <<propertyVars, stack, anim, clockVars, now, external, historyVars, calls>>

States == {"Stopped", "Running", "Paused"}
Easings == {"linear", "overshoot"}
Free == [state |-> "free"]
New ==
    [state |-> "Stopped", duration |-> 0, loopCount |-> 1, time |-> 0, loop |-> 0,
     easing |-> "linear", from |-> 0, to |-> 0, hasFrom |-> FALSE, shown |-> <<0, 1>>]

Alive(a) == anim[a] # Free
AnyLeft(l) == \E k \in DOMAIN l : l[k] # Null

Init ==
    /\ PropertyInit
    /\ anim \in [Animations -> Made \cup {Free}]
    /\ list = <<>> /\ hasHoles = FALSE /\ ticking = FALSE
    /\ lastTick = 0 /\ now = 0 /\ external \in BOOLEAN
    /\ touched = {} /\ peak = 0 /\ driven = external /\ busySince = 0
    /\ founders = {} /\ favoured = {} /\ meddled = {} /\ halted = {}
    /\ told = [a \in Animations |-> 0]
    /\ calls = MaxCalls

-----------------------------------------------------------------------------
(* The clock.  Each operator gives the clock's next state.                 *)

\* The Timer's start() and stop(): the ids of its expiries are EventDispatcher's subject.
StartTimer == ticking' = TRUE
StopTimerIfNone(l) == ticking' = (ticking /\ AnyLeft(l))

\* AnimationClock::remove(): the place is emptied, and the timer stopped if it was the last.
Emptied(a) == [k \in DOMAIN list |-> IF list[k] = a THEN Null ELSE list[k]]
TakeOff(a) ==
    /\ list' = Emptied(a)
    /\ hasHoles' = (hasHoles \/ a \in ToSet(list))
    /\ IF a \in ToSet(list) THEN StopTimerIfNone(Emptied(a)) ELSE UNCHANGED ticking
    /\ UNCHANGED lastTick

Holes == {k \in DOMAIN list : list[k] = Null}
\* A plausible mistake: a hole is left to the next tick.
PlacedAtTheEnd(a) == IF a \in ToSet(list) THEN list ELSE Append(list, a)

\* AnimationClock::add(): into the first hole if there is one.
Placed(a) ==
    CASE a \in ToSet(list) -> list
      [] a \notin ToSet(list) /\ hasHoles /\ Holes # {} ->
            [list EXCEPT ![CHOOSE k \in Holes : \A h \in Holes : k <= h] = a]
      [] OTHER -> Append(list, a)

EnsureTicking == IF external THEN UNCHANGED ticking ELSE StartTimer

Registered(l) == Cardinality(ToSet(l) \ {Null})
TickFrames == {k \in 1 .. Len(stack) : stack[k].at = "tick"}
Joins(a) ==
    /\ peak' = (IF Registered(list') > peak THEN Registered(list') ELSE peak)
    /\ busySince' = (IF AnyLeft(list) THEN busySince ELSE now)

\* A plausible mistake: the step is measured afresh only where the timer is started.
AddChargingTheQuiet(a) ==
    /\ list' = Placed(a)
    /\ hasHoles' = (hasHoles /\ (a \in ToSet(list) \/ Holes # {}))
    /\ lastTick' = (IF AnyLeft(list) \/ external THEN lastTick ELSE now)
    /\ IF a \in ToSet(list) THEN UNCHANGED ticking ELSE EnsureTicking
    /\ Joins(a)

Add(a) ==
    /\ list' = Placed(a)
    /\ hasHoles' = (hasHoles /\ (a \in ToSet(list) \/ Holes # {}))
    /\ lastTick' = (IF AnyLeft(list) THEN lastTick ELSE now)
    /\ IF a \in ToSet(list) THEN UNCHANGED ticking ELSE EnsureTicking
    /\ Joins(a)

-----------------------------------------------------------------------------
(* An animation.                                                           *)

\* easingValue(), or the curve the program gave: progress is a fraction.
Shaped(a, p) ==
    IF anim[a].easing = "overshoot" /\ 0 < p[1] /\ p[1] < p[2] THEN <<2 * p[1], p[2]>> ELSE p

\* propertyLerp() of an integral type: clamped to its range, and truncated.
PropertyLerp(from, to, p) ==
    LET blended == from * p[2] + (to - from) * p[1]
    IN IF blended <= 0 THEN 0
       ELSE IF blended >= Top * p[2] THEN Top ELSE blended \div p[2]

\* updateState(): a start takes the value the property has, unless it was given one.
Started(x) ==
    [x EXCEPT !.state = "Running", !.time = 0, !.loop = 0,
              !.from = IF x.hasFrom THEN @ ELSE value]

\* updateCurrentValue(shaped(p)) of x at a; then the caller goes on, as frame says.
Show(a, x, p, base, frame) ==
    /\ anim' = [anim EXCEPT ![a] = [x EXCEPT !.shown = p]]
    /\ Set(PropertyLerp(x.from, x.to, Shaped(a, p)), Append(base, frame))

\* What is still to be done once the value has been shown, and who reads mState then:
\* the end of advance() without a duration.
Return(a) == [at |-> "return", of |-> a, reads |-> {}]
AfterLoop(a) == [at |-> "return", of |-> a, reads |-> {"loop"}]
AfterFinish(a) == [at |-> "return", of |-> a, reads |-> {"finished"}]
AtEnd(a, instant) == [at |-> "end", of |-> a, instant |-> instant]

\* The rest of finishOrLoop(), after the end value: off the clock, then told.
Finish(a, instant) ==
    LET back == Front(stack) \o (IF instant THEN <<AfterFinish(a)>> ELSE <<>>)
    IN /\ anim' = [anim EXCEPT ![a].time = anim[a].duration, ![a].state = "Stopped"]
       /\ TakeOff(a)
       /\ Emit("finished", back)
       /\ told' = [told EXCEPT ![a] = @ + 1]
       /\ founders' = founders \ {a}

\* advance(): whole loops are taken off the time until the last one ends.
\* A plausible mistake: one loop too many.
LoopsDoneLate(x, n) == x.loopCount >= 0 /\ x.loop + n > x.loopCount

LoopsDone(x, n) == x.loopCount >= 0 /\ x.loop + n >= x.loopCount
LoopsLeft(x) == IF x.loop < x.loopCount THEN x.loopCount - x.loop ELSE 1

Advance(a, step, base) ==
    LET x == anim[a]
        total == x.time + step
        n == total \div x.duration
    IN \/ /\ x.duration <= 0
          /\ Show(a, [x EXCEPT !.loop = @ + 1], <<1, 1>>, base,
                  IF LoopsDone(x, 1) THEN AtEnd(a, TRUE) ELSE AfterLoop(a))
       \/ /\ x.duration > 0 /\ (n = 0 \/ ~LoopsDone(x, n))
          /\ Show(a, [x EXCEPT !.loop = @ + n, !.time = total % x.duration],
                  <<total % x.duration, x.duration>>, base, Return(a))
       \/ /\ x.duration > 0 /\ n > 0 /\ LoopsDone(x, n)
          /\ Show(a, [x EXCEPT !.loop = @ + LoopsLeft(x),
                               !.time = total - LoopsLeft(x) * x.duration],
                  <<1, 1>>, base, AtEnd(a, FALSE))

-----------------------------------------------------------------------------
(* What the program calls, from a handler or from a slot.                  *)

ShowingEnd == {stack[k].of : k \in {j \in 1 .. Len(stack) : stack[j].at = "end"}}
Call ==
    /\ ProgramRuns /\ calls > 0 /\ Cardinality(Slots) <= MaxDepth
    /\ calls' = calls - 1

\* Histories of a call on a: what it does to an animation that shows its end.
Meddles(a) == meddled' = meddled \cup ({a} \cap ShowingEnd)

Create(a) ==
    /\ Call /\ ~Alive(a)
    /\ anim' = [anim EXCEPT ![a] = New]
    /\ told' = [told EXCEPT ![a] = 0]
    /\ favoured' = favoured \ {a} /\ meddled' = meddled \ {a} /\ halted' = halted \ {a}
    /\ UNCHANGED <<propertyVars, stack, clockVars, now, external, touched, peak, driven,
                   busySince, founders>>

\* setDuration(), setLoopCount(), setEasing(), setStartValue() and setEndValue().
Change(a, x) ==
    /\ Call /\ Alive(a)
    /\ x # anim[a] /\ anim' = [anim EXCEPT ![a] = x]
    /\ favoured' = favoured \cup {a}
    /\ UNCHANGED <<propertyVars, stack, clockVars, now, external, touched, peak, driven,
                   busySince, founders, meddled, told, halted>>
SetDuration(a, d) == Change(a, [anim[a] EXCEPT !.duration = IF d > 0 THEN d ELSE 0])
SetLoopCount(a, n) ==
    Change(a, IF n = 0 \/ n < -1 THEN anim[a] ELSE [anim[a] EXCEPT !.loopCount = n])
SetEasing(a, e) == Change(a, [anim[a] EXCEPT !.easing = e])
SetStartValue(a, v) == Change(a, [anim[a] EXCEPT !.from = v, !.hasFrom = TRUE])
SetEndValue(a, v) == Change(a, [anim[a] EXCEPT !.to = v])

\* Those a tick in progress may still come to, and the time of its step is not theirs.
InTick == {a \in Animations : \E k \in TickFrames : a \in ToSet(stack[k].copy)}

\* start(): stopped first, so that a restart takes its starting value afresh.
Start(a) ==
    /\ Call /\ Alive(a)
    /\ Add(a)
    /\ Show(a, Started(anim[a]), <<0, 1>>, stack, Return(a))
    /\ told' = [told EXCEPT ![a] = 0] /\ halted' = halted \ {a}
    /\ favoured' = (favoured \ {a}) \cup ({a} \cap InTick)
    /\ founders' = (IF AnyLeft(list) THEN founders \ {a} ELSE {a})
    /\ Meddles(a)
    /\ UNCHANGED <<now, external, touched, driven>>

Leave(a, state) ==
    /\ TakeOff(a)
    /\ anim' = [anim EXCEPT ![a].state = state]
    /\ founders' = founders \ {a}
    /\ Meddles(a)
    /\ UNCHANGED <<propertyVars, stack, now, external, touched, peak, driven, busySince,
                   told, favoured>>

Stop(a) ==
    /\ Call /\ Alive(a) /\ anim[a].state # "Stopped"
    /\ Leave(a, "Stopped")
    /\ halted' = halted \cup {a}

Pause(a) ==
    /\ Call /\ Alive(a) /\ anim[a].state = "Running"
    /\ Leave(a, "Paused")
    /\ UNCHANGED halted

Resume(a) ==
    /\ Call /\ Alive(a) /\ anim[a].state = "Paused"
    /\ anim' = [anim EXCEPT ![a].state = "Running"]
    /\ Add(a)
    /\ favoured' = favoured \cup {a}
    /\ Meddles(a)
    /\ UNCHANGED <<propertyVars, stack, now, external, touched, driven, founders, told, halted>>

\* ~AbstractAnimation(); finishOrLoop() lets a slot destroy its animation at finished,
\* and goes on with it after the end value.
Destroy(a) ==
    /\ Call /\ Alive(a)
    /\ a \notin ShowingEnd
    /\ TakeOff(a)
    /\ anim' = [anim EXCEPT ![a] = Free]
    /\ founders' = founders \ {a}
    /\ UNCHANGED <<propertyVars, stack, now, external, touched, peak, driven, busySince,
                   favoured, meddled, told, halted>>

\* tick() begins: those registered now are walked.
BeginTick(step) ==
    /\ step > 0
    /\ stack' = Append(stack, [at |-> "tick", copy |-> list, i |-> 1, step |-> step])
Disturbs == meddled' = meddled \cup ShowingEnd

\* tickFromClock(): whole milliseconds are consumed, and the rest is kept.
Elapsed == (now - lastTick) \div Unit
TickFromClock ==
    /\ lastTick' = lastTick + Elapsed * Unit
    /\ BeginTick(Elapsed)
    /\ Disturbs
    /\ UNCHANGED <<propertyVars, anim, list, hasHoles, ticking, now, external, touched, peak,
                   driven, busySince, founders, favoured, told, halted>>

AdvanceAll == Call /\ TickFromClock
AdvanceAllBy(step) ==
    /\ Call
    /\ BeginTick(step)
    /\ favoured' = favoured \cup Animations
    /\ Disturbs
    /\ UNCHANGED <<propertyVars, anim, clockVars, now, external, touched, peak,
                   driven, busySince, founders, told, halted>>

TickExternally(b) ==
    /\ Call /\ b # external
    /\ external' = b /\ driven' = TRUE
    /\ UNCHANGED <<propertyVars, stack, anim, clockVars, now, touched, peak, busySince,
                   founders, favoured, meddled, told, halted>>

AnimationUnchanged == UNCHANGED <<anim, clockVars, now, external, historyVars>>
CallOnProperty ==
    /\ Call /\ AnimationUnchanged
    /\ Watch \/ (\E v \in Targets : v # value /\ Set(v, stack)) \/ (\E m \in Modes : SetNotifyMode(m))

-----------------------------------------------------------------------------
(* What goes on by itself.                                                 *)

\* The timer expires: in the program's own loop, or in one that a slot runs.
TimerExpires ==
    /\ ProgramRuns /\ ticking /\ Cardinality(Slots) <= MaxDepth
    /\ TickFromClock /\ UNCHANGED calls

\* tick() goes on to the next it has copied; the live list says whether that still runs.
TickNext ==
    /\ stack # <<>> /\ Last(stack).at = "tick" /\ Last(stack).i <= Len(Last(stack).copy)
    /\ LET f == Last(stack)
           a == f.copy[f.i]
           base == Append(Front(stack), [f EXCEPT !.i = @ + 1])
       IN IF a # Null /\ a \in ToSet(list) /\ anim[a].state = "Running"
          THEN Advance(a, f.step, base)
          ELSE stack' = base /\ UNCHANGED <<propertyVars, anim>>
    /\ UNCHANGED <<clockVars, now, external, historyVars, calls>>

\* tick() is through: compact(), and the timer stopped if nothing is left.
Compact == IF hasHoles THEN SelectSeq(list, LAMBDA a : a # Null) ELSE list
EndTick ==
    /\ stack # <<>> /\ Last(stack).at = "tick" /\ Last(stack).i > Len(Last(stack).copy)
    /\ stack' = Front(stack)
    /\ list' = Compact /\ hasHoles' = FALSE
    /\ StopTimerIfNone(Compact)
    /\ UNCHANGED <<propertyVars, anim, lastTick, now, external, historyVars, calls>>

\* The value has been shown: start() and advance() return; the end is dealt with.
ReturnToCaller ==
    /\ stack # <<>> /\ Last(stack).at = "return"
    /\ stack' = Front(stack)
    /\ touched' = touched \cup (IF Alive(Last(stack).of) THEN {} ELSE Last(stack).reads)
    /\ UNCHANGED <<propertyVars, anim, clockVars, now, external, peak, driven, busySince,
                   founders, favoured, meddled, told, halted, calls>>

EndOfRun ==
    /\ stack # <<>> /\ Last(stack).at = "end"
    /\ Finish(Last(stack).of, Last(stack).instant)
    /\ UNCHANGED <<propertyVars, now, external, touched, peak, driven, busySince, favoured,
                   meddled, halted, calls>>

OnProperty ==
    /\ AnimationUnchanged /\ UNCHANGED calls
    /\ ReturnFromSlot \/ (RunPendingCall /\ Cardinality(Slots) <= MaxDepth)

Elapse ==
    /\ ProgramRuns /\ now < MaxNow /\ now' = now + 1
    /\ UNCHANGED <<propertyVars, stack, anim, clockVars, external, historyVars, calls>>

CallOn(a) ==
    \/ Create(a) \/ Start(a) \/ Stop(a) \/ Pause(a) \/ Resume(a) \/ Destroy(a)
    \/ \E d \in Durations : SetDuration(a, d)
    \/ \E n \in LoopCounts : SetLoopCount(a, n)
    \/ \E e \in Easings : SetEasing(a, e)
    \/ \E v \in Targets : SetStartValue(a, v) \/ SetEndValue(a, v)

Next ==
    \/ \E a \in Animations : CallOn(a)
    \/ AdvanceAll \/ CallOnProperty
    \/ \E step \in Steps : AdvanceAllBy(step)
    \/ \E b \in BOOLEAN : TickExternally(b)
    \/ TimerExpires \/ TickNext \/ EndTick \/ ReturnToCaller \/ EndOfRun
    \/ OnProperty \/ Elapse

Spec == Init /\ [][Next]_vars

-----------------------------------------------------------------------------
(* Properties.                                                             *)

TypeOK ==
    /\ PropertyTypeOK
    /\ \A a \in Animations : Alive(a) =>
          /\ anim[a].state \in States /\ anim[a].easing \in Easings
          /\ anim[a].duration \in Nat /\ anim[a].time \in Nat /\ anim[a].loop \in Nat
          /\ anim[a].loopCount \in Int /\ {anim[a].from, anim[a].to} \subseteq Values
    /\ ToSet(list) \subseteq Animations \cup {Null}
    /\ lastTick <= now /\ {external, hasHoles, ticking} \subseteq BOOLEAN

\* Between any two calls the clock holds each running animation once and nothing else,
\* so that none is advanced that was stopped, paused or destroyed, and none advanced
\* twice; its list is no longer than the most that ever ran at once, whatever holes
\* were made and filled; its timer runs while one is left, unless the program ticks,
\* and no longer.
ClockHoldsTheRunning ==
    /\ TypeOK
    /\ \A a \in Animations : a \in ToSet(list) <=> Alive(a) /\ anim[a].state = "Running"
    /\ \A j, k \in DOMAIN list : list[j] = list[k] => j = k \/ list[j] = Null
    /\ Len(list) <= peak /\ (Holes # {} => hasHoles)
    /\ (ticking => AnyLeft(list)) /\ (AnyLeft(list) => ticking \/ driven)

\* A running animation stands where the clock's time has brought it: never further than
\* the time since the clock was last idle, and exactly there when it has run since.  No
\* quiet period is charged, and no fraction of a millisecond lost.  Exempt are those
\* moved by other means: advanceAll(int), a new duration, a resume in the middle, and
\* the step of a tick in progress that comes to one started after it began.
Position(a) == anim[a].loop * anim[a].duration + anim[a].time
ChargedTheTimeItRan == \A a \in Animations \ favoured :
    Alive(a) /\ anim[a].state = "Running" /\ anim[a].duration > 0 =>
        /\ Unit * Position(a) <= lastTick - busySince
        /\ a \in founders /\ TickFrames = {} => Unit * Position(a) = lastTick - busySince

\* finished is emitted once for a start, after the last loop and with the end value
\* shown, and never for an animation that stop() ended.  Exempt is an animation that
\* was called, or a clock that was ticked, by the slot which its end value reached:
\* finishOrLoop() goes on when that slot returns, whatever it has done.
FinishesOnceARun == \A a \in Animations \ meddled : Alive(a) =>
    /\ told[a] <= 1
    /\ a \in halted => told[a] = 0
    /\ told[a] = 1 => anim[a].state = "Stopped" /\ anim[a].shown = <<1, 1>>
    /\ a \notin favoured /\ anim[a].loopCount > 0 =>
          (told[a] = 1 \/ a \in ShowingEnd <=> anim[a].loop >= anim[a].loopCount)

\* What AbstractAnimation.cpp says of the last statement of finishOrLoop(): a slot is
\* free to delete this animation, so nothing may touch it after.
NothingTouchesTheGone == "finished" \notin touched

=============================================================================
