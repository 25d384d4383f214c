-------------------------------- MODULE Drm --------------------------------
(***************************************************************************)
(* The DRM back end: one adopted surface, input from libinput, no window   *)
(* system.  `drm' is the back end; `dev' is the input devices, external:   *)
(* what is held down, and what libinput has to tell.                       *)
(***************************************************************************)
EXTENDS WindowSystem, KeyTranslation

CONSTANTS
    Keys,      \* the keys pressed: some of PhysicalKeys
    Handles,   \* whether an adopted surface comes with a handle: some of BOOLEAN
    MaxTasks   \* bound: repaints posted to the loop and not run

VARIABLES drm, dev

DrmState ==
    [input     : BOOLEAN,                  \* mInput, and mInputFd an event source
     pumping   : BOOLEAN,                  \* inside pumpInput()
     window    : Windows \cup {NoWindow},  \* mWindow
     pointer   : 0 .. 1,                   \* mPointerX, mPointerY as told
     buttons   : SUBSET Buttons,           \* mButtons
     modifiers : SUBSET {"Shift"},         \* mModifiers
     updatePending : BOOLEAN,              \* mUpdatePending
     tasks     : 0 .. MaxTasks,            \* repaints posted and not run
     life      : BOOLEAN]                  \* mLifeToken has not expired

DrmInit ==
    /\ drm = [input |-> FALSE, pumping |-> FALSE, window |-> NoWindow, pointer |-> 0,
              buttons |-> {}, modifiers |-> {}, updatePending |-> FALSE, tasks |-> 0,
              life |-> TRUE]
    /\ dev = [buttons |-> {}, keys |-> {}, cut |-> FALSE, lost |-> {}]

\* Events told while there is no window are dropped; a device may also be lost
\* with something held.
Unheard == dev.buttons # {} \/ dev.keys # {}

ClampToDrawable(x, size) == IF x < 0 THEN 0 ELSE IF x >= size THEN size - 1 ELSE x

-----------------------------------------------------------------------------
\* openInput(): libinput refuses, or its descriptor is an event source of the loop.
OpenInput(d) == IF d.input THEN {d} ELSE {d, [d EXCEPT !.input = TRUE]}

\* adoptWindow() centres the pointer and gives the one surface the focus; no
\* slot is connected to a Window nobody has seen.
AdoptWindow(v, size, handle) ==
    LET g == HandleFocusChange(NewWindow(gui, v, size, handle), v, TRUE)
    IN /\ MayAdopt(v)
       /\ drm.window = NoWindow
       /\ \E d \in OpenInput(drm) :
            IF d.input
            THEN /\ drm' = [d EXCEPT !.window = v, !.pointer = size \div 2]
                 /\ gui' = [g EXCEPT !.stack = gui.stack]
            ELSE UNCHANGED <<drm, gui>>
       /\ UNCHANGED dev

\* releaseNativeWindow() is reached only through a native window.
ReleaseNativeWindow(d, v) ==
    IF d.window = v /\ gui.window[v].native
    THEN [d EXCEPT !.window = NoWindow, !.updatePending = FALSE, !.buttons = {}]
    ELSE d

CloseWindow(v) ==
    /\ MayCall \/ (Ending /\ ~drm.pumping)
    /\ v \in Alive
    /\ gui' = AssignNoNative(Destroyed(gui, v), v)
    /\ drm' = ReleaseNativeWindow(drm, v)
    /\ dev' = [dev EXCEPT !.cut = @ \/ Unheard]

SetWindowVisible(v, visible) ==
    /\ MayShow(v, visible)
    /\ gui' = AssignVisible(gui, v, visible)
    /\ UNCHANGED <<drm, dev>>

-----------------------------------------------------------------------------
PumpBegins ==
    /\ Idle /\ drm.input /\ ~drm.pumping
    /\ drm' = [drm EXCEPT !.pumping = TRUE]
    /\ UNCHANGED <<gui, dev>>

PumpEnds ==
    /\ gui.stack = <<>> /\ drm.pumping
    /\ drm' = [drm EXCEPT !.pumping = FALSE]
    /\ UNCHANGED <<gui, dev>>

\* The descriptor reports an error: closeInput(), and the window stays.
InputLost ==
    /\ Idle /\ drm.input /\ ~drm.pumping
    /\ drm' = [drm EXCEPT !.input = FALSE]
    /\ dev' = [dev EXCEPT !.cut = @ \/ Unheard]
    /\ UNCHANGED gui

\* dispatchNativeEvent() drops what comes while no surface is adopted.
Handling(family) == Sees(family) /\ drm.pumping /\ drm.window # NoWindow
Dropping(family) == Sees(family) /\ drm.pumping /\ drm.window = NoWindow
w0 == drm.window

MovePointerTo(d, to) == [d EXCEPT !.pointer = ClampToDrawable(to, gui.window[w0].size)]

PointerMotion(to) ==
    /\ Handling("pointer")
    /\ drm' = MovePointerTo(drm, to)
    /\ gui' = HandleMouseMoved(gui, w0, drm.buttons)
    /\ UNCHANGED dev

PointerButton(button, pressed) ==
    LET held == IF pressed THEN drm.buttons \cup {button} ELSE drm.buttons \ {button}
    IN /\ Handling("pointer")
       /\ pressed = (button \notin dev.buttons)
       /\ dev' = [dev EXCEPT !.buttons = IF pressed THEN @ \cup {button} ELSE @ \ {button}]
       /\ drm' = [drm EXCEPT !.buttons = held]
       /\ gui' = IF pressed THEN HandleMousePressed(gui, w0, held, button)
                 ELSE HandleMouseReleased(gui, w0, held, button)

\* A scroll of less than a step on either axis is not told.
PointerScroll ==
    Handling("pointer") /\ gui' = HandleWheel(gui, w0) /\ UNCHANGED <<drm, dev>>

KeyboardKey(k, pressed) ==
    LET held == Accumulated(drm.modifiers, KeyFromEvdevCode[k], pressed)
        down == IF pressed THEN dev.keys \cup {k} ELSE dev.keys \ {k}
    IN /\ Handling("keys")
       /\ pressed = (k \notin dev.keys)
       /\ dev' = [dev EXCEPT !.keys = down, !.lost = Lost(@, k, pressed, down)]
       /\ drm' = [drm EXCEPT !.modifiers = held]
       /\ gui' = IF pressed THEN HandleKeyPressed(gui, w0, held)
                 ELSE HandleKeyReleased(gui, w0, held)

\* A button or a key that changes with nobody to tell it to.
ChangesUnheard ==
    /\ \/ \E b \in Buttons : Dropping("pointer")
            /\ dev' = [dev EXCEPT !.cut = TRUE,
                        !.buttons = IF b \in @ THEN @ \ {b} ELSE @ \cup {b}]
       \/ \E k \in Keys : Dropping("keys")
            /\ dev' = [dev EXCEPT !.cut = TRUE,
                        !.keys = IF k \in @ THEN @ \ {k} ELSE @ \cup {k}]
    /\ UNCHANGED <<drm, gui>>

Touch ==
    /\ Handling("touch")
    /\ gui' \in {HandleTouchDown(gui, w0), HandleTouchMotion(gui, w0), HandleTouchUp(gui, w0),
                 HandleTouchFrame(gui, w0), HandleTouchCancel(gui, w0)}
    /\ UNCHANGED <<drm, dev>>

-----------------------------------------------------------------------------
\* One repaint at a time is posted to the loop, which may refuse it.
RequestUpdate(v) ==
    /\ MayCall /\ gui.family = "updates" /\ v = w0 /\ v \in Alive
    /\ IF gui.window[v].native THEN drm' \in RepaintPosted(drm, MaxTasks) ELSE UNCHANGED drm
    /\ gui' = IF drm'.updatePending THEN Asked(gui, v) ELSE gui
    /\ UNCHANGED dev

\* Mutant: the flag is not taken back before the slots run.
RunPostedUpdateFlagKept ==
    /\ Idle \/ ~gui.up
    /\ ~drm.pumping /\ drm.tasks > 0
    /\ drm' = [drm EXCEPT !.tasks = @ - 1]
    /\ gui' = IF drm.life THEN HandleExpose(gui, w0) ELSE gui
    /\ UNCHANGED dev

RunPostedUpdate ==
    /\ Idle \/ ~gui.up
    /\ ~drm.pumping /\ drm.tasks > 0
    /\ IF drm.life
       THEN /\ drm' = [drm EXCEPT !.tasks = @ - 1, !.updatePending = FALSE]
            /\ gui' = HandleExpose(gui, w0)
       ELSE drm' = [drm EXCEPT !.tasks = @ - 1] /\ UNCHANGED gui
    /\ UNCHANGED dev

\* The application asks for the close itself: there is no frame to click on.
DestroyBackend ==
    /\ Ending /\ Alive = {} /\ ~drm.pumping
    /\ gui' = [gui EXCEPT !.up = FALSE]
    /\ drm' = [drm EXCEPT !.input = FALSE, !.life = FALSE]
    /\ UNCHANGED dev

\* The program calls quit().
ProgramQuits ==
    /\ MayCall /\ gui.family = "updates"
    /\ gui' = Quit(gui, "dropped")
    /\ UNCHANGED <<drm, dev>>
=============================================================================
