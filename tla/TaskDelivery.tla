---------------------------- MODULE TaskDelivery ----------------------------
(***************************************************************************)
(* What Thread::post() and Thread::invokeAndWait() promise about a task:   *)
(* it is refused, and then never runs, or accepted, and then runs at most  *)
(* once, unless the loop it was accepted for ends first and discards it.   *)
(* Tasks run one at a time.  Module ThreadLoop is shown to implement this. *)
(***************************************************************************)
CONSTANT Tasks

VARIABLES
    fate,    \* what has become of each task
    stopped  \* some loop of the thread has ended

vars == <<fate, stopped>>

Init ==
    /\ fate = [t \in Tasks |-> "unposted"]
    /\ stopped = FALSE

Answers  == {<<"unposted", "accepted">>, <<"unposted", "refused">>}
Runs     == {<<"accepted", "ran">>}
Discards == {<<"accepted", "discarded">>}

\* The tasks of ts move along one of the ways, the others stay.
Move(ts, ways) ==
    /\ \A t \in ts : <<fate[t], fate'[t]>> \in ways
    /\ fate' = [t \in Tasks |-> IF t \in ts THEN fate'[t] ELSE fate[t]]

\* A caller gets its answer; a loop that has ended may discard what it still holds.
Answer(ts) == Move(ts, IF stopped THEN Answers \cup Discards ELSE Answers) /\ UNCHANGED stopped

Run(t) == Move({t}, Runs) /\ UNCHANGED stopped

Stop == stopped' = TRUE /\ UNCHANGED fate

Next ==
    \/ \E ts \in SUBSET Tasks : Answer(ts)
    \/ \E t \in Tasks : Run(t)
    \/ Stop

Spec == Init /\ [][Next]_vars
=============================================================================
