------------------------------ MODULE Wayland ------------------------------
(***************************************************************************)
(* The Wayland back end: one window on one surface, the compositor         *)
(* connection as an event source of the loop, input from the seat, the     *)
(* scale of the outputs the surface is on, and the pacing of repaints by   *)
(* wl_surface frame callbacks.                                             *)
(*                                                                         *)
(* `wl' is the back end's own state; `comp' is the compositor, which is    *)
(* external: what it has announced, where the pointer, the keyboard and    *)
(* the finger are, and what it owes.  Listeners run inside pumpDisplay(),  *)
(* one at a time, with their slots inside them, and the pump ends with a   *)
(* flush.                                                                  *)
(***************************************************************************)
EXTENDS WindowSystem, KeyTranslation, FiniteSets, FiniteSetsExt

CONSTANTS
    Outputs,   \* the monitors
    Keys,      \* the keys pressed: some of PhysicalKeys
    Repaces,   \* whether display pacing may come back over an old frame request
    MaxTasks   \* bound: repaints posted to the loop and not run

VARIABLES wl, comp

Surfaces == {"none", "ours", "other"}   \* "other": libdecor's, the cursor's
NotAnnounced == 0

WaylandState ==
    [display   : {"none", "failed", "connected"}, \* mDisplay, and connectDisplay()'s answer
     source    : {"none", "in", "in out"},  \* mConnectionFd and mPollMask
     pumping   : BOOLEAN,                   \* inside pumpDisplay()
     unsent    : {"nothing", "frame", "requests"},  \* libwayland's output buffer
     window    : Windows \cup {NoWindow},   \* mWindow
     surface   : BOOLEAN,                   \* mSurface
     role      : {"none", "ivi", "decor", "xdg"},
     devices   : SUBSET {"pointer", "keyboard", "touch"},
     scale     : [Outputs -> {NotAnnounced} \cup Ratios],  \* mOutputs, mOutputScales
     on        : SUBSET Outputs,            \* mSurfaceOutputs
     over      : BOOLEAN,                   \* mPointerOver
     buttons   : SUBSET Buttons,            \* mButtons
     modifiers : SUBSET {"Shift"},          \* mModifiers
     size      : Sizes,                     \* mWidth, mHeight
     updatePending  : BOOLEAN,              \* mUpdatePending
     framePending   : BOOLEAN,              \* mFrameCallbackPending
     hasDelivered   : BOOLEAN,              \* mHasDeliveredUpdate
     pacedRequested : BOOLEAN,              \* mPacedUpdateRequested
     tasks     : 0 .. MaxTasks,             \* repaints posted and not run
     life      : BOOLEAN]                   \* mLifeToken has not expired

CompositorState ==
    [shells   : SUBSET {"xdg", "ivi"},      \* the shells it offers
     callback : {"none", "queued", "committed"}, \* the frame request of our surface
     settled  : BOOLEAN,                    \* no scale announced without its done
     pointer  : Surfaces, keyboard : Surfaces, touch : Surfaces,
     buttons  : SUBSET Buttons,             \* buttons whose release it owes us
     cut      : BOOLEAN,                    \* history: it will never send one of them
     keys     : SUBSET Keys,                \* the keys really held
     lost     : SUBSET {"Shift"}]           \* history: the modifiers Lost

WaylandInit ==
    /\ wl = [display |-> "none", source |-> "none", pumping |-> FALSE,
             unsent |-> "nothing", window |-> NoWindow, surface |-> FALSE,
             role |-> "none", devices |-> {}, scale |-> [o \in Outputs |-> NotAnnounced],
             on |-> {}, over |-> FALSE, buttons |-> {}, modifiers |-> {}, size |-> 1,
             updatePending |-> FALSE, framePending |-> FALSE, hasDelivered |-> FALSE,
             pacedRequested |-> FALSE, tasks |-> 0, life |-> TRUE]
    /\ comp \in [shells : SUBSET {"xdg", "ivi"}, callback : {"none"}, settled : {TRUE},
                 pointer : {"none"}, keyboard : {"none"}, touch : {"none"},
                 buttons : {{}}, cut : {FALSE}, keys : {{}}, lost : {{}}]

w0 == wl.window
Handling(family) == Sees(family) /\ wl.pumping
Requested(w) == [w EXCEPT !.unsent = "requests"]

-----------------------------------------------------------------------------
(* The connection: one descriptor in the loop, and an output buffer. *)

\* registerConnection() and unregisterConnection(), with a dispatcher on this
\* thread that takes event sources.
RegisterConnection(w) == [w EXCEPT !.source = IF @ = "none" THEN "in" ELSE @]
UnregisterConnection(w) == [w EXCEPT !.source = "none"]
SetPollMask(w, mask) == [w EXCEPT !.source = IF @ = "none" THEN @ ELSE mask]

\* flushOutgoing(): all of it went out, some of it did not (EAGAIN), or the
\* connection is gone and the program is told to quit.
Flushes == IF gui.family = "updates" THEN {"sent", "again", "failed"} ELSE {"sent"}
FlushPossible(w, flush) == flush = "again" => w.unsent # "nothing"
FlushOutgoing(w, flush) ==
    CASE flush = "sent" -> [SetPollMask(w, "in") EXCEPT !.unsent = "nothing"]
      [] flush = "again" -> SetPollMask(w, "in out")
      [] flush = "failed" -> UnregisterConnection(w)
AfterFlush(g, flush) == IF flush = "failed" THEN Quit(g, "dropped") ELSE g

\* pumpDisplay() begins: poll(2) reported something, or an error.
PumpBegins ==
    /\ Idle /\ wl.source # "none" /\ ~wl.pumping
    /\ \/ wl' = [wl EXCEPT !.pumping = TRUE] /\ UNCHANGED gui
       \/ gui.family = "updates" /\ wl' = UnregisterConnection(wl) /\ gui' = Quit(gui, "dropped")
    /\ UNCHANGED comp

\* pumpDisplay() ends with whatever the listeners and their slots queued.
PumpEnds ==
    /\ gui.stack = <<>> /\ wl.pumping
    /\ \E flush \in Flushes :
        /\ FlushPossible(wl, flush)
        /\ wl' = [FlushOutgoing(wl, flush) EXCEPT !.pumping = FALSE]
        /\ gui' = AfterFlush(gui, flush)
    /\ UNCHANGED comp

WmBasePing == Handling("closing") /\ wl' = Requested(wl) /\ UNCHANGED <<gui, comp>>

\* connectDisplay(): the globals are bound.  A connection to a compositor that
\* offers no shell is kept, and is not examined again.
ConnectDisplay(w) == [w EXCEPT !.display = IF comp.shells = {} THEN "failed" ELSE "connected"]

-----------------------------------------------------------------------------
(* The window. *)

\* createShellObjects(): ivi when the program has an id for it, else libdecor
\* when it loaded, else xdg-shell.
ShellRoles ==
    (IF "ivi" \in comp.shells THEN {"ivi"} ELSE {})
        \cup (IF "xdg" \in comp.shells THEN {"decor", "xdg"} ELSE {})

\* The roundtrips dispatch what has arrived while mWindow is still null, and
\* the last pass sends whatever the output buffer holds.
Created(w, v, role) ==
    [RegisterConnection(w) EXCEPT !.surface = TRUE, !.role = role, !.window = v, !.size = 1,
                                  !.unsent = "nothing"]

\* createWindow(): no server to connect to, no shell, the shell refused, a window,
\* or no dispatcher registerConnection() can use, when the surface stays behind
\* without a window.
CreateWindow(v) ==
    /\ MayCreate(v) /\ w0 = NoWindow
    /\ LET w == IF wl.display = "none" THEN ConnectDisplay(wl) ELSE wl
       IN \/ wl.display = "none" /\ UNCHANGED <<gui, wl>>
          \/ wl' = w /\ UNCHANGED gui
          \/ /\ w.display = "connected"
             /\ \E role \in ShellRoles :
                \/ wl' = Created(w, v, role) /\ gui' = NewWindow(gui, v, 1, TRUE)
                \/ /\ wl.source = "none"
                   /\ wl' = [w EXCEPT !.surface = TRUE, !.role = role]
                   /\ UNCHANGED gui
    /\ UNCHANGED comp

\* releaseNativeWindow(): the surface and everything on it.  The frame request
\* that was on the surface dies with it, and the flush's answer is not looked at.
ReleaseNativeWindow(w, sent) ==
    [w EXCEPT !.role = "none", !.surface = FALSE, !.on = {}, !.window = NoWindow,
              !.updatePending = FALSE,
              !.unsent = IF sent THEN "nothing" ELSE "requests"]

\* A commit of our surface carries the frame request queued before it.
FrameCommitted == [comp EXCEPT !.callback = IF @ = "queued" THEN "committed" ELSE @]

\* The pointer is no longer ours: a release still owed will not come.
PointerTaken == [comp EXCEPT !.pointer = "none", !.buttons = {},
                             !.cut = @ \/ comp.buttons # {}]

SurfaceGone ==
    [(IF comp.pointer = "ours" THEN PointerTaken ELSE comp)
        EXCEPT !.callback = "none", !.touch = IF @ = "ours" THEN "none" ELSE @]

\* ~Window() of the one window.
CloseWindow(v) ==
    /\ MayCall \/ (Ending /\ ~wl.pumping)
    /\ v \in Alive /\ v = w0
    /\ gui' = AssignNoNative(Destroyed(gui, v), v)
    /\ \E sent \in {s \in BOOLEAN : s \/ gui.family = "updates"} :
            wl' = ReleaseNativeWindow(wl, sent)
    /\ comp' = SurfaceGone

SetWindowVisible(v, visible) ==
    /\ MayShow(v, visible)
    /\ gui' = AssignVisible(gui, v, visible)
    /\ UNCHANGED <<wl, comp>>

SetWindowTitle(v) ==
    /\ MayCall /\ gui.family = "updates" /\ v = w0
    /\ \E flush \in Flushes :
        /\ wl' = FlushOutgoing(IF wl.role \in {"decor", "xdg"} THEN Requested(wl) ELSE wl, flush)
        /\ gui' = AfterFlush(gui, flush)
    /\ UNCHANGED comp

\* reportResize(): only a size that is new is recorded and told.
ReportResize(g, w, size) ==
    IF size = w.size THEN g ELSE HandleResize(g, w.window, size)
Resized(w, size) == [w EXCEPT !.size = size]

DecorFrameConfigure(size) ==
    /\ Handling("closing") /\ wl.role = "decor"
    /\ gui' = ReportResize(gui, wl, size)
    /\ wl' = Requested(Resized(wl, size))
    /\ UNCHANGED comp

\* setClientSize(): the surface is resized here and now.
SetClientSize(v, size) ==
    /\ MayCall /\ gui.family = "closing" /\ v = w0
    /\ gui' = ReportResize(gui, wl, size)
    /\ wl' = FlushOutgoing(Resized(wl, size), "sent")
    /\ UNCHANGED comp

RequestClose == gui' = HandleCloseRequest(gui, w0) /\ UNCHANGED <<wl, comp>>
XdgToplevelClose == Handling("closing") /\ wl.role = "xdg" /\ RequestClose
DecorFrameClose == Handling("closing") /\ wl.role = "decor" /\ RequestClose

\* libdecor has drawn the frame, and has us commit the surface with it.
DecorFrameCommit ==
    /\ Handling("updates") /\ wl.role = "decor"
    /\ wl' = Requested(wl)
    /\ comp' = FrameCommitted
    /\ UNCHANGED gui

\* A configure is acknowledged, and stands for an expose.
XdgSurfaceConfigure ==
    /\ Handling("updates") /\ wl.role = "xdg"
    /\ gui' = HandleExpose(gui, w0)
    /\ wl' = Requested(wl)
    /\ UNCHANGED comp

-----------------------------------------------------------------------------
(* Input.  The surface an event names is compared with ours on entering; a   *)
(* motion, a button or a key names none.                                     *)

SeatCapabilities(devices) ==
    /\ Handling(gui.family) /\ gui.family \in {"pointer", "keys", "touch"}
    /\ wl.devices # devices
    /\ wl' = [wl EXCEPT !.devices = devices]
    /\ comp' = [(IF "pointer" \in devices THEN comp ELSE PointerTaken)
                    EXCEPT !.keyboard = IF "keyboard" \in devices THEN @ ELSE "none",
                           !.touch = IF "touch" \in devices THEN @ ELSE "none"]
    /\ UNCHANGED gui

\* buildMouseEvent(): the buttons an event says are held.
HeldInEvents(w) == w.buttons
ApplyCursor(w) == Requested(w)

HasPointer == Handling("pointer") /\ "pointer" \in wl.devices

PointerEnter(surface) ==
    /\ HasPointer /\ comp.pointer = "none" /\ comp.buttons = {}
    /\ surface = "ours" => wl.surface
    /\ comp' = [comp EXCEPT !.pointer = surface]
    /\ IF surface = "ours"
       THEN wl' = ApplyCursor([wl EXCEPT !.over = TRUE]) /\ gui' = HandleMouseEntered(gui, w0)
       ELSE UNCHANGED <<wl, gui>>

PointerLeave ==
    /\ HasPointer /\ comp.pointer # "none" /\ comp.buttons = {}
    /\ comp' = [comp EXCEPT !.pointer = "none"]
    /\ IF wl.over
       THEN wl' = [wl EXCEPT !.over = FALSE] /\ gui' = HandleMouseLeft(gui, w0)
       ELSE UNCHANGED <<wl, gui>>

PointerMotion ==
    /\ HasPointer /\ comp.pointer # "none"
    /\ gui' = HandleMouseMoved(gui, w0, HeldInEvents(wl))
    /\ UNCHANGED <<wl, comp>>

\* A button with no name here is dropped by buttonOf().
PointerButton(button, pressed) ==
    LET held == IF pressed THEN wl.buttons \cup {button} ELSE wl.buttons \ {button}
    IN /\ HasPointer /\ comp.pointer # "none"
       /\ pressed = (button \notin comp.buttons)
       /\ comp' = [comp EXCEPT !.buttons = IF pressed THEN @ \cup {button} ELSE @ \ {button}]
       /\ wl' = [wl EXCEPT !.buttons = held]
       /\ gui' = IF pressed THEN HandleMousePressed(gui, w0, HeldInEvents(wl'), button)
                 ELSE HandleMouseReleased(gui, w0, HeldInEvents(wl'), button)

\* An axis event too small for a detent is not told.
PointerAxis ==
    /\ HasPointer /\ comp.pointer # "none"
    /\ gui' = HandleWheel(gui, w0)
    /\ UNCHANGED <<wl, comp>>

HasKeyboard == Handling("keys") /\ "keyboard" \in wl.devices

\* enter brings the keys that are held: the one moment the set is made anew.
KeyboardEnter(surface) ==
    /\ HasKeyboard /\ comp.keyboard = "none"
    /\ surface = "ours" => wl.surface
    /\ comp' = [comp EXCEPT !.keyboard = surface, !.lost = {}]
    /\ IF surface = "ours"
       THEN /\ wl' = [wl EXCEPT !.modifiers = ModifiersOf(comp.keys)]
            /\ gui' = HandleFocusChange(gui, w0, TRUE)
       ELSE UNCHANGED <<wl, gui>>

\* A surface that is gone arrives as null, and so does ours when we have none.
KeyboardLeave ==
    /\ HasKeyboard /\ comp.keyboard # "none"
    /\ comp' = [comp EXCEPT !.keyboard = "none"]
    /\ IF comp.keyboard = "ours"
       THEN /\ wl' = [wl EXCEPT !.modifiers = {}]
            /\ gui' = HandleFocusChange(gui, w0, FALSE)
       ELSE UNCHANGED <<wl, gui>>

KeyboardKey(k, pressed) ==
    LET held == Accumulated(wl.modifiers, KeyFromEvdevCode[k], pressed)
        down == IF pressed THEN comp.keys \cup {k} ELSE comp.keys \ {k}
    IN /\ HasKeyboard /\ comp.keyboard # "none"
       /\ pressed = (k \notin comp.keys)
       /\ comp' = [comp EXCEPT !.keys = down, !.lost = Lost(@, k, pressed, down)]
       /\ wl' = [wl EXCEPT !.modifiers = held]
       /\ gui' = IF pressed THEN HandleKeyPressed(gui, w0, held)
                 ELSE HandleKeyReleased(gui, w0, held)

\* A key that changes while the keyboard is elsewhere.
KeyElsewhere(k) ==
    /\ Handling("keys") /\ comp.keyboard = "none"
    /\ comp' = [comp EXCEPT !.keys = IF k \in @ THEN @ \ {k} ELSE @ \cup {k}]
    /\ UNCHANGED <<wl, gui>>

HasTouch == Handling("touch") /\ "touch" \in wl.devices

TouchDown(surface) ==
    /\ HasTouch /\ comp.touch = "none" /\ (surface = "ours" => wl.surface)
    /\ comp' = [comp EXCEPT !.touch = surface]
    /\ gui' = IF surface = "ours" THEN HandleTouchDown(gui, w0) ELSE gui
    /\ UNCHANGED wl

TouchUp ==
    /\ HasTouch /\ comp.touch # "none"
    /\ comp' = [comp EXCEPT !.touch = "none"]
    /\ gui' = HandleTouchUp(gui, w0)
    /\ UNCHANGED wl

TouchMotion ==
    /\ HasTouch /\ comp.touch # "none"
    /\ gui' = HandleTouchMotion(gui, w0)
    /\ UNCHANGED <<wl, comp>>

TouchFrame == HasTouch /\ gui' = HandleTouchFrame(gui, w0) /\ UNCHANGED <<wl, comp>>

TouchCancel ==
    /\ HasTouch /\ comp.touch # "none"
    /\ comp' = [comp EXCEPT !.touch = "none"]
    /\ gui' = HandleTouchCancel(gui, w0)
    /\ UNCHANGED wl

-----------------------------------------------------------------------------
(* The scale: the largest of the outputs the surface is on, and at least 1. *)

ScaleOf(w) ==
    Max({1} \cup {w.scale[o] : o \in w.on})

UpdateDevicePixelRatio(g, w) == HandleDevicePixelRatioChanged(g, w.window, ScaleOf(w))

OutputChanges(w) == wl' = w /\ gui' = UpdateDevicePixelRatio(gui, w)

RegistryGlobal(o) ==
    /\ Handling("outputs") /\ wl.scale[o] = NotAnnounced
    /\ wl' = [wl EXCEPT !.scale[o] = 1]
    /\ UNCHANGED <<gui, comp>>

RegistryGlobalRemove(o) ==
    LET w == [wl EXCEPT !.scale[o] = NotAnnounced, !.on = @ \ {o}]
    IN /\ Handling("outputs") /\ wl.scale[o] # NotAnnounced
       /\ IF o \in wl.on THEN OutputChanges(w) ELSE wl' = w /\ UNCHANGED gui
       /\ UNCHANGED comp

\* A scale takes effect with the done that closes the group of events.
OutputScale(o, scale) ==
    /\ Handling("outputs") /\ wl.scale[o] # NotAnnounced /\ wl.scale[o] # scale
    /\ wl' = [wl EXCEPT !.scale[o] = scale]
    /\ comp' = [comp EXCEPT !.settled = FALSE]
    /\ UNCHANGED gui

OutputDone ==
    /\ Handling("outputs") /\ ~comp.settled
    /\ comp' = [comp EXCEPT !.settled = TRUE]
    /\ OutputChanges(wl)

\* A surface is on an output once something has been drawn on it, so not before
\* its window is there.
SurfaceEnter(o) ==
    /\ Handling("outputs") /\ w0 # NoWindow /\ wl.scale[o] # NotAnnounced /\ o \notin wl.on
    /\ OutputChanges([wl EXCEPT !.on = @ \cup {o}])
    /\ UNCHANGED comp

\* Mutant: the output left behind is not taken into account.
SurfaceLeaveUntold(o) ==
    /\ Handling("outputs") /\ o \in wl.on
    /\ wl' = [wl EXCEPT !.on = @ \ {o}]
    /\ UNCHANGED <<gui, comp>>

SurfaceLeave(o) ==
    /\ Handling("outputs") /\ o \in wl.on
    /\ OutputChanges([wl EXCEPT !.on = @ \ {o}])
    /\ UNCHANGED comp

-----------------------------------------------------------------------------
(* Repaints.  The renderer draws inside an expose; its commit carries the    *)
(* frame request queued before it.                                           *)

Draw ==
    /\ gui.stack # <<>> /\ gui.family = "updates" /\ wl.surface
    /\ Innermost.signal = "exposed"
    /\ wl' = Requested(wl)
    /\ comp' = FrameCommitted
    /\ UNCHANGED gui

\* requestUpdate().  A paced window that has been given one update before rides
\* on a frame callback, and asks for nothing while one is outstanding; any other
\* has one repaint posted to the loop, which may refuse it.
RequestUpdate(v) ==
    /\ MayCall /\ gui.family = "updates" /\ v = w0
    /\ \E flush \in Flushes :
        LET w == FlushOutgoing(wl, flush)
            paced == gui.window[v].pacing = "Display" /\ w.surface /\ w.hasDelivered
        IN /\ FlushPossible(wl, flush)
           /\ IF paced
              THEN /\ wl' = IF w.framePending THEN w
                            ELSE [w EXCEPT !.pacedRequested = TRUE, !.framePending = TRUE,
                                           !.unsent = IF @ = "nothing" THEN "frame" ELSE @]
                   /\ comp' = IF w.framePending THEN comp
                              ELSE [comp EXCEPT !.callback = "queued"]
              ELSE wl' \in RepaintPosted(w, MaxTasks) /\ UNCHANGED comp
           /\ gui' = AfterFlush(IF paced \/ wl'.updatePending THEN Asked(gui, v) ELSE gui,
                                flush)

\* The posted repaint; the flush after its slots sends what they drew.
RunPostedUpdate ==
    /\ Idle \/ ~gui.up
    /\ ~wl.pumping /\ wl.tasks > 0
    /\ IF wl.life
       THEN /\ wl' = [wl EXCEPT !.tasks = @ - 1, !.updatePending = FALSE, !.hasDelivered = TRUE]
            /\ gui' = HandleExposeThen(gui, w0, "flush")
       ELSE wl' = [wl EXCEPT !.tasks = @ - 1] /\ UNCHANGED gui
    /\ UNCHANGED comp

\* deliverPacedUpdate() and releasePacedUpdate(): an update asked for is given;
\* w is the back end as its caller leaves it.
DeliverPacedUpdate(g, v, w) ==
    /\ wl' = [w EXCEPT !.pacedRequested = FALSE]
    /\ gui' = IF w.pacedRequested THEN HandleExposeThen(g, v, "flush") ELSE g
ReleasePacedUpdate(g, v) ==
    /\ wl' = [wl EXCEPT !.pacedRequested = FALSE]
    /\ gui' = IF wl.pacedRequested THEN HandleExposeThen(g, v, "flush") ELSE g

\* The frame callback fires: the compositor is ready for another frame.
FrameReady ==
    /\ Handling("updates") /\ comp.callback = "committed"
    /\ comp' = [comp EXCEPT !.callback = "none"]
    /\ DeliverPacedUpdate(gui, w0, [wl EXCEPT !.framePending = FALSE])

\* setUpdatePacing(): a window that stops being paced is given what it waits for.
SetPacing(v, pacing) ==
    LET g == SetUpdatePacing(gui, v, pacing)
    IN /\ MayCall /\ gui.family = "updates" /\ v = w0
       /\ gui.window[v].pacing # pacing
       /\ pacing = "Display" => Repaces \/ ~wl.framePending
       /\ IF ReleasesPacedUpdate(v, pacing)
          THEN ReleasePacedUpdate(g, v)
          ELSE wl' = wl /\ gui' = g
       /\ UNCHANGED comp

\* The flush behind an expose, once its slots have returned.
FlushAfterSlots ==
    /\ gui.stack # <<>> /\ Innermost.then = "flush"
    /\ \E flush \in Flushes :
        /\ FlushPossible(wl, flush)
        /\ wl' = FlushOutgoing(wl, flush)
        /\ gui' = AfterFlush(Returned, flush)
    /\ UNCHANGED comp

\* ~PlatformIntegrationWayland(), after the application has deleted its windows.
DestroyBackend ==
    /\ Ending /\ Alive = {} /\ ~wl.pumping
    /\ gui' = [gui EXCEPT !.up = FALSE]
    /\ wl' = [wl EXCEPT !.source = "none", !.pumping = FALSE, !.display = "none",
                        !.scale = [o \in Outputs |-> NotAnnounced], !.on = {},
                        !.devices = {}, !.life = FALSE]
    /\ UNCHANGED comp
=============================================================================
