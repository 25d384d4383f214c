------------------------------ MODULE Property ------------------------------
(***************************************************************************)
(* A value that announces its changes: Property<T>, as one thread uses it. *)
(* The subscriber is one slot of the program's; while it runs, it may do   *)
(* whatever the program may do, so what called it waits on the call stack. *)
(*                                                                         *)
(* T is an unsigned integer type of small width.  callLater() keeps one    *)
(* call of the signal until the loop runs it, with the arguments it was    *)
(* given last; how it does that with threads about is Affinity's subject.  *)
(***************************************************************************)
EXTENDS Naturals, Sequences, SequencesExt

CONSTANTS
    Top,         \* numeric_limits<T>::max()
    MaxDepth     \* bound: slots running within slots

ASSUME PropertyAssumption == {Top, MaxDepth} \subseteq Nat \ {0}

Values == 0 .. Top
NoCall == Top + 1
Modes == {"Immediate", "Coalesced"}

VARIABLES
    value, mode, owned,  \* mValue, mMode, mOwner # nullptr
    watched,             \* mChanged exists, with the slot connected
    pending,             \* the argument of the call callLater() keeps, or NoCall
    stack,               \* the thread's calls in progress, innermost last
    heard,               \* history: what the slot was told last
    switched             \* history: the mode was left with a call pending

propertyVars == <<value, mode, owned, watched, pending, heard, switched>>

PropertyTypeOK ==
    /\ value \in Values /\ heard \in Values /\ pending \in Values \cup {NoCall}
    /\ mode \in Modes /\ {owned, watched, switched} \subseteq BOOLEAN
    /\ mode = "Coalesced" => owned

PropertyInit ==
    /\ value = 0 /\ heard = 0 /\ pending = NoCall
    /\ mode = "Immediate" /\ owned \in BOOLEAN
    /\ watched \in BOOLEAN /\ switched = FALSE
    /\ stack = <<>>

Slot(signal) == [at |-> "slot", signal |-> signal]
Slots == {k \in 1 .. Len(stack) : stack[k].at = "slot"}

\* The program's own code runs: a handler the loop called, or a slot.
ProgramRuns == stack # <<>> => Last(stack).at = "slot"

\* Signal::emit() to one directly connected slot; base is what it returns to.
Emit(signal, base) == stack' = Append(base, Slot(signal))

\* A plausible mistake: the call that is pending keeps the arguments it was made with.
SetKeepingTheFirst(v, base) ==
    LET told == watched /\ v # value
    IN /\ value' = v
       /\ UNCHANGED <<mode, owned, watched, switched>>
       /\ \/ ~told /\ stack' = base /\ UNCHANGED <<pending, heard>>
          \/ /\ told /\ mode = "Coalesced" /\ owned
             /\ pending' = (IF pending = NoCall THEN v ELSE pending)
             /\ stack' = base /\ UNCHANGED heard
          \/ /\ told /\ ~(mode = "Coalesced" /\ owned)
             /\ heard' = v
             /\ Emit("changed", base) /\ UNCHANGED pending

\* set(), called with base on the stack.
Set(v, base) ==
    LET told == watched /\ v # value
    IN /\ value' = v
       /\ UNCHANGED <<mode, owned, watched, switched>>
       /\ \/ ~told /\ stack' = base /\ UNCHANGED <<pending, heard>>
          \/ /\ told /\ mode = "Coalesced" /\ owned
             /\ pending' = v
             /\ stack' = base /\ UNCHANGED heard
          \/ /\ told /\ ~(mode = "Coalesced" /\ owned)
             /\ heard' = v
             /\ Emit("changed", base) /\ UNCHANGED pending

\* getChanged(), and a connection to it.
Watch ==
    /\ ~watched
    /\ watched' = TRUE /\ heard' = value
    /\ UNCHANGED <<value, mode, owned, pending, switched, stack>>

SetNotifyMode(m) ==
    /\ m # mode
    /\ mode' = IF m = "Coalesced" /\ ~owned THEN mode ELSE m
    /\ switched' = (switched \/ pending # NoCall)
    /\ UNCHANGED <<value, owned, watched, pending, heard, stack>>

\* The loop runs the pending call, in the pass it runs itself or in one of a slot's.
RunPendingCall ==
    /\ ProgramRuns /\ pending # NoCall
    /\ pending' = NoCall /\ heard' = pending
    /\ Emit("changed", stack)
    /\ UNCHANGED <<value, mode, owned, watched, switched>>

ReturnFromSlot ==
    /\ stack # <<>> /\ Last(stack).at = "slot"
    /\ stack' = Front(stack)
    /\ UNCHANGED propertyVars

\* Whoever watches the property has heard the value it has, or will: a change on its
\* way to the slot is the last one made, however the writes nest and whoever makes them.
\* A mode switched under a pending call is exempt: that call brings an old value late.
SubscriberHearsTheValue ==
    watched /\ ~switched => (IF pending = NoCall THEN heard ELSE pending) = value

=============================================================================
