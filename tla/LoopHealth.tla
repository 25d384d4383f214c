----------------------------- MODULE LoopHealth ------------------------------
(***************************************************************************)
(* What a loop says of the event it dispatches, written under a sequence   *)
(* lock by the loop's own thread and read by any other                     *)
(* (EventDispatcherDefault.cpp: beginDispatch(), endDispatch(), health()). *)
(*                                                                         *)
(* The stores between two raises of mHealthSeq, and the loads between its  *)
(* two readings, are relaxed: each goes in any order.  The fences keep     *)
(* them between the raises, and between the readings.  mReceiver,          *)
(* mEventType and mTimerId, which say what is dispatched, are one field,   *)
(* and so are mLastProgressTicks and mDispatchCount, which say what was.   *)
(***************************************************************************)
EXTENDS Naturals, Sequences, SequencesExt

CONSTANTS
    Readers,
    Events,
    NoEvent

ASSUME LoopHealthAssumption == NoEvent \notin Events

VARIABLES
    tracking,    \* mHealthTracking
    seq,         \* mHealthSeq
    record,      \* mHealth
    frames,      \* the dispatches in progress, outermost first
    writing,     \* the write the loop is in the middle of
    clock,       \* the dispatches begun: no two start at one time
    reader,      \* what each reader is in the middle of
    reading,     \* what its last health() returned
    published,   \* ghost: the records that were complete
    blinded      \* ghost: tracking was off when a tracked dispatch asked what was before it

healthVars == <<tracking, seq, record, frames, writing, clock, reader, reading, published,
                blinded>>

Fields == {"dispatching", "start", "finished", "event"}
Reading == [dispatching : BOOLEAN, start : Nat, finished : Nat \X Nat,
            event : Events \cup {NoEvent}]

\* LoopHealth {}.
Empty == [dispatching |-> FALSE, start |-> 0, finished |-> <<0, 0>>, event |-> NoEvent]

\* "run" is the loop outside of all this: idle, or in a handler.
Running == [at |-> "run", left |-> {}, next |-> Empty, ends |-> FALSE]
Resting == [at |-> "idle", before |-> 0, left |-> {}, copy |-> Empty]

Even(n) == n % 2 = 0

HealthTypeOK ==
    /\ tracking \in BOOLEAN /\ blinded \in BOOLEAN
    /\ seq \in Nat /\ clock \in Nat
    /\ record \in Reading
    /\ frames \in Seq([event : Events, tracked : BOOLEAN, start : Nat, previous : Reading])
    /\ writing \in [at : {"run", "previous", "write"}, left : SUBSET Fields, next : Reading,
                    ends : BOOLEAN]
    /\ reader \in [Readers -> [at : {"idle", "load", "copy"}, before : Nat,
                               left : SUBSET Fields, copy : Reading]]
    /\ reading \in [Readers -> Reading]
    /\ published \subseteq Reading

HealthInit ==
    /\ tracking \in BOOLEAN
    /\ seq = 0 /\ clock = 0
    /\ record = Empty
    /\ frames = <<>>
    /\ writing = Running
    /\ reader = [r \in Readers |-> Resting]
    /\ reading = [r \in Readers |-> Empty]
    /\ published = {Empty}
    /\ blinded = FALSE

readerVars == <<reader, reading>>

SetHealthTrackingEnabled(enabled) ==
    /\ tracking # enabled
    /\ tracking' = enabled
    /\ UNCHANGED <<seq, record, frames, writing, clock, readerVars, published, blinded>>
-----------------------------------------------------------------------------
(* The loop.                                                               *)

\* A pass takes up an event: it asks once whether to track it.
BeginDispatch(e) ==
    /\ writing.at = "run"
    /\ clock' = clock + 1
    /\ frames' = Append(frames, [event |-> e, tracked |-> tracking, start |-> clock + 1,
                                 previous |-> Empty])
    /\ writing' = IF tracking THEN [writing EXCEPT !.at = "previous"] ELSE writing
    /\ UNCHANGED <<tracking, seq, record, readerVars, published, blinded>>

\* Mutant: cleared, not restored.
EndedCleared(previous) ==
    [record EXCEPT !.finished = <<record.start, @[2] + 1>>, !.dispatching = FALSE,
                   !.event = NoEvent, !.start = 0]

\* What beginDispatch() and endDispatch() make of the record.
Begun(frame) ==
    [record EXCEPT !.dispatching = TRUE, !.start = frame.start, !.event = frame.event]
Ended(previous) ==
    [record EXCEPT !.finished = <<record.start, @[2] + 1>>,
                   !.dispatching = previous.dispatching, !.event = previous.event,
                   !.start = IF previous.dispatching THEN previous.start ELSE 0]

Raise(next, fields, ends) ==
    /\ seq' = seq + 1
    /\ writing' = [at |-> "write", left |-> fields, next |-> next, ends |-> ends]

\* It asks health() what was dispatched before, which asks again whether anything
\* is tracked; no reader but the loop itself can find the counter odd here.
RecordBegin ==
    LET top == Len(frames) IN
    /\ writing.at = "previous"
    /\ frames' = [frames EXCEPT ![top].previous = IF tracking THEN record ELSE Empty]
    /\ blinded' = (blinded \/ ~tracking)
    /\ Raise(Begun(frames[top]), {"dispatching", "start", "event"}, FALSE)
    /\ UNCHANGED <<tracking, record, clock, readerVars, published>>

Store(f) ==
    /\ writing.at = "write" /\ f \in writing.left
    /\ record' = [record EXCEPT ![f] = writing.next[f]]
    /\ writing' = [writing EXCEPT !.left = @ \ {f}]
    /\ UNCHANGED <<tracking, seq, frames, clock, readerVars, published, blinded>>

Publish ==
    /\ writing.at = "write" /\ writing.left = {}
    /\ seq' = seq + 1
    /\ published' = published \cup {record}
    /\ frames' = IF writing.ends THEN Front(frames) ELSE frames
    /\ writing' = Running
    /\ UNCHANGED <<tracking, record, clock, readerVars, blinded>>

\* The handler has returned: ~DispatchRecord().
EndDispatch ==
    /\ writing.at = "run" /\ frames # <<>>
    /\ IF Last(frames).tracked
       THEN Raise(Ended(Last(frames).previous), Fields, TRUE) /\ UNCHANGED frames
       ELSE frames' = Front(frames) /\ UNCHANGED <<seq, writing>>
    /\ UNCHANGED <<tracking, record, clock, readerVars, published, blinded>>
-----------------------------------------------------------------------------
(* health(), on another thread.                                            *)

loopVars == <<tracking, seq, record, frames, writing, clock, published, blinded>>

Health(r) ==
    /\ reader[r].at = "idle"
    /\ IF tracking THEN reader' = [reader EXCEPT ![r].at = "load"] /\ UNCHANGED reading
                   ELSE reading' = [reading EXCEPT ![r] = Empty] /\ UNCHANGED reader
    /\ UNCHANGED loopVars

LoadSeq(r) ==
    /\ reader[r].at = "load"
    /\ Even(seq)
    /\ reader' = [reader EXCEPT ![r] = [@ EXCEPT !.at = "copy", !.before = seq,
                                                 !.left = Fields]]
    /\ UNCHANGED <<loopVars, reading>>

Load(r, f) ==
    /\ reader[r].at = "copy" /\ f \in reader[r].left
    /\ reader' = [reader EXCEPT ![r].copy[f] = record[f], ![r].left = @ \ {f}]
    /\ UNCHANGED <<loopVars, reading>>

\* Mutant: the counter is not read again.
RecheckNothing(r) ==
    /\ reader[r].at = "copy" /\ reader[r].left = {}
    /\ reading' = [reading EXCEPT ![r] = reader[r].copy]
    /\ reader' = [reader EXCEPT ![r] = Resting]
    /\ UNCHANGED loopVars

Recheck(r) ==
    /\ reader[r].at = "copy" /\ reader[r].left = {}
    /\ IF seq = reader[r].before
       THEN /\ reading' = [reading EXCEPT ![r] = reader[r].copy]
            /\ reader' = [reader EXCEPT ![r] = Resting]
       ELSE /\ reader' = [reader EXCEPT ![r] = [Resting EXCEPT !.at = "load"]]
            /\ UNCHANGED reading
    /\ UNCHANGED loopVars

HealthNext ==
    \/ \E enabled \in BOOLEAN : SetHealthTrackingEnabled(enabled)
    \/ \E e \in Events : BeginDispatch(e)
    \/ RecordBegin \/ (\E f \in Fields : Store(f)) \/ Publish \/ EndDispatch
    \/ \E r \in Readers : \/ Health(r) \/ LoadSeq(r) \/ Recheck(r)
                          \/ \E f \in Fields : Load(r, f)

HealthSpec == HealthInit /\ [][HealthNext]_healthVars
-----------------------------------------------------------------------------
\* A reading is what the record was at one moment, however the loop writes it
\* meanwhile: "a reader never pairs the receiver of one dispatch with the start time of
\* another" (AbstractEventDispatcher::health()).
ReadingIsOneMoment == \A r \in Readers : reading[r] \in published

\* rec names the innermost of the first n frames that is tracked, or nothing if none is.
Names(rec, fs, n) ==
    /\ (\A i \in 1..n : ~fs[i].tracked) =>
        ~rec.dispatching /\ rec.event = NoEvent /\ rec.start = 0
    /\ \A i \in 1..n : fs[i].tracked /\ (\A j \in i + 1..n : ~fs[j].tracked) =>
        rec.dispatching /\ rec.event = fs[i].event /\ rec.start = fs[i].start

\* Between two writes the record names the innermost dispatch that is tracked, the
\* outer one again when a nested pass is over, and nothing when the loop is idle.
\* (Tracking switched off between the pass's asking and its reading of what was
\* before makes it forget the outer one.)
InnermostIsNamed ==
    Even(seq) /\ writing.at = "run" /\ ~blinded => Names(record, frames, Len(frames))
=============================================================================
