---------------------------- MODULE WindowSystem ----------------------------
(***************************************************************************)
(* What every window system back end shares: the Window objects, the input *)
(* state WindowSystemInterface keeps for the process, and the application  *)
(* object that owns the windows.  A back end reports an event by calling   *)
(* one of the handle... functions; each is here an operator that takes the *)
(* GUI's state to the state after it.                                      *)
(*                                                                         *)
(* One thread does all of it, but not one call at a time: a report emits a *)
(* signal, the slots run inside it, and what they call (close this window, *)
(* ask for a repaint, switch the pacing) happens before the handler goes   *)
(* on.  `stack' holds the emissions that are going on, the innermost last, *)
(* each with what its handler still has to do when the slots return.       *)
(***************************************************************************)
EXTENDS Naturals, SequencesExt

CONSTANTS
    Windows,    \* Window objects, each made at most once
    Buttons,    \* mouse buttons
    NoWindow,   \* the null Window*
    MaxNesting  \* bound: emissions inside one another

VARIABLE gui

Platforms == {"Wayland", "X11", "Drm", "Windows"}
\* Bound: the events that reach the process in one behaviour are of one family.
\* The families meet in the windows' lives and in nothing else.
Families == {"pointer", "keys", "touch", "outputs", "updates", "closing"}
Pacings == {"Immediate", "Display"}
Sizes == 1 .. 2
Ratios == 1 .. 2

\* What the handler of an emission does once the slots have returned.
Continuations ==
    {"nothing", "flush", "closeRequested", "mouseMoved", "resizing"}

WindowRecord ==
    [life      : {"none", "alive", "destroyed"},
     native    : BOOLEAN,   \* hasNative()
     visible   : BOOLEAN,   \* mVisible
     pacing    : Pacings,   \* mUpdatePacing
     size      : Sizes,     \* mWidth and mHeight
     ratio     : Ratios,    \* mDevicePixelRatio
     asked     : BOOLEAN,   \* history: requestUpdate() called, no expose since
     down      : SUBSET Buttons]  \* history: presses told without a release

GuiState ==
    [platform   : Platforms \cup {"Unknown"},
     family     : Families,                      \* the events of this behaviour
     up         : BOOLEAN,                       \* mIntegration is there
     quitOnLast : BOOLEAN,                       \* mQuitOnLastWindowClosed
     quit       : {"no", "last", "dropped"},     \* why quit() was called
     buttons    : SUBSET Buttons,                \* sMouseButtons
     modifiers  : SUBSET {"Shift"},              \* sKeyModifiers
     focus      : Windows \cup {NoWindow},       \* sFocusWindow
     touchFocus : Windows \cup {NoWindow},       \* sTouchFocusWindow
     window     : [Windows -> WindowRecord],
     stack      : Seq([window : Windows, signal : STRING, then : Continuations])]

NewWindowRecord ==
    [life |-> "none", native |-> FALSE, visible |-> FALSE, pacing |-> "Immediate",
     size |-> 1, ratio |-> 1, asked |-> FALSE, down |-> {}]

GuiInit(platform, up, families) ==
    /\ gui \in
        [platform : {platform}, family : families, up : {up}, quitOnLast : BOOLEAN, quit : {"no"},
         buttons : {{}}, modifiers : {{}}, focus : {NoWindow}, touchFocus : {NoWindow},
         window : {[w \in Windows |-> NewWindowRecord]}, stack : {<<>>}]

Alive == {w \in Windows : gui.window[w].life = "alive"}
\* The loop is between two handlers.
Idle == gui.stack = <<>> /\ gui.quit = "no"
\* No handler is going on, and events of this family reach the process.
Sees(family) == gui.stack = <<>> /\ gui.family = family
\* A slot may run, or the loop's other work: the application's own calls.
MayCall == Len(gui.stack) < MaxNesting /\ (gui.quit = "no" \/ gui.stack # <<>>)
\* exec() has returned: the application object is being destroyed.
Ending == gui.stack = <<>> /\ gui.quit # "no" /\ gui.up

\* GuiApplication::createWindow() and adoptWindow(): with a back end.  A new
\* window is the application's child, and goes with it at the latest.
MayCreate(v) == MayCall /\ gui.up /\ gui.window[v].life = "none"
MayAdopt(v) == MayCreate(v)
\* show() and hide(), of a window with a native window behind it.
MayShow(v, visible) ==
    /\ MayCall /\ gui.family = "closing" /\ v \in Alive /\ gui.window[v].native
    /\ gui.window[v].visible # visible

-----------------------------------------------------------------------------
(* WindowSystemInterface: g is the state of the GUI, w the window or null. *)

EmitThen(g, w, signal, then) ==
    [g EXCEPT !.stack = Append(@, [window |-> w, signal |-> signal, then |-> then])]
Emit(g, w, signal) == EmitThen(g, w, signal, "nothing")

Deliver(g, w, signal) == IF w = NoWindow THEN g ELSE Emit(g, w, signal)

HandleMousePressed(g, w, held, button) ==
    IF w = NoWindow THEN g
    ELSE Emit([g EXCEPT !.buttons = held, !.window[w].down = @ \cup {button}],
              w, "mousePressed")

HandleMouseReleased(g, w, held, button) ==
    IF w = NoWindow THEN g
    ELSE Emit([g EXCEPT !.buttons = held, !.window[w].down = @ \ {button}],
              w, "mouseReleased")

HandleMouseMoved(g, w, held) ==
    IF w = NoWindow THEN g ELSE Emit([g EXCEPT !.buttons = held], w, "mouseMoved")

HandleMouseEntered(g, w) == Deliver(g, w, "mouseEntered")
HandleMouseLeft(g, w) == Deliver(g, w, "mouseLeft")
HandleWheel(g, w) == Deliver(g, w, "wheel")

HandleTouchDown(g, w) ==
    IF w = NoWindow THEN g ELSE Emit([g EXCEPT !.touchFocus = w], w, "touchDown")
HandleTouchUp(g, w) == Deliver(g, w, "touchUp")
HandleTouchMotion(g, w) == Deliver(g, w, "touchMotion")

\* A frame and a cancel may name no window: the one with the touch focus.
TouchTarget(g, w) == IF w # NoWindow THEN w ELSE g.touchFocus
HandleTouchFrame(g, w) == Deliver(g, TouchTarget(g, w), "touchFrame")
HandleTouchCancel(g, w) ==
    Deliver([g EXCEPT !.touchFocus = NoWindow], TouchTarget(g, w), "touchCancel")

HandleResize(g, w, size) ==
    IF w = NoWindow THEN g
    ELSE Emit([g EXCEPT !.window[w].size = size], w, "resized")

HandleDevicePixelRatioChanged(g, w, ratio) ==
    IF w = NoWindow \/ g.window[w].ratio = ratio THEN g
    ELSE Emit([g EXCEPT !.window[w].ratio = ratio], w, "devicePixelRatioChanged")

SetInitialDevicePixelRatio(g, w, ratio) == [g EXCEPT !.window[w].ratio = ratio]

HandleExposeThen(g, w, then) ==
    IF w = NoWindow THEN g
    ELSE EmitThen([g EXCEPT !.window[w].asked = FALSE], w, "exposed", then)
HandleExpose(g, w) == HandleExposeThen(g, w, "nothing")

HandleMenuCommand(g, w) == Deliver(g, w, "menuCommand")

HandleCloseRequest(g, w) ==
    IF w = NoWindow THEN g ELSE EmitThen(g, w, "closeRequested", "closeRequested")

HandleFocusChange(g, w, gained) ==
    IF w = NoWindow THEN g
    ELSE Emit([g EXCEPT !.focus = IF gained THEN w
                                  ELSE IF @ = w THEN NoWindow ELSE @],
              w, "focusChanged")

HandleKeyPressed(g, w, held) == Deliver([g EXCEPT !.modifiers = held], w, "keyPressed")
HandleKeyReleased(g, w, held) == Deliver([g EXCEPT !.modifiers = held], w, "keyReleased")

\* Mutant: the touch focus is forgotten about.
HandleWindowDestroyedTouchKept(g, w) ==
    [g EXCEPT !.focus = IF @ = w THEN NoWindow ELSE @]

HandleWindowDestroyed(g, w) ==
    [g EXCEPT !.focus = IF @ = w THEN NoWindow ELSE @,
              !.touchFocus = IF @ = w THEN NoWindow ELSE @]

-----------------------------------------------------------------------------
(* Window, and the writes PlatformIntegration makes to one. *)

\* The Window that fronts a native window of this size.
NewWindow(g, w, size, native) ==
    [g EXCEPT !.window[w] = [NewWindowRecord EXCEPT !.life = "alive",
                                                    !.native = native, !.size = size]]

AssignNoNative(g, w) == [g EXCEPT !.window[w].native = FALSE]
AssignVisible(g, w, visible) == [g EXCEPT !.window[w].visible = visible]

\* ~Window() but for releaseNativeWindow(), which the back end adds.
Destroyed(g, w) ==
    LET h == HandleWindowDestroyed(g, w)
    IN [h EXCEPT !.window[w].life = "destroyed", !.window[w].visible = FALSE,
                 !.window[w].asked = FALSE, !.window[w].down = {}]

SetUpdatePacing(g, w, pacing) == [g EXCEPT !.window[w].pacing = pacing]

\* setUpdatePacing() tells the back end, which may be holding an update back.
ReleasesPacedUpdate(w, pacing) ==
    gui.window[w].pacing = "Display" /\ pacing = "Immediate" /\ gui.window[w].native

\* requestUpdate() reached a native window: the application is owed an expose.
Asked(g, w) == IF g.window[w].native THEN [g EXCEPT !.window[w].asked = TRUE] ELSE g

\* A repaint posted by back end b, of Wayland or of DRM, when none is pending.
\* CoreApplication::post() refuses on a loop that is gone or a queue that is full,
\* and the flag is taken back.
RepaintPosted(b, maxTasks) ==
    IF b.updatePending THEN {b}
    ELSE {b} \cup {[b EXCEPT !.updatePending = TRUE, !.tasks = n] :
                        n \in {b.tasks + 1} \cap (0 .. maxTasks)}

-----------------------------------------------------------------------------
(* GuiApplication. *)

Quit(g, why) == [g EXCEPT !.quit = IF @ = "no" THEN why ELSE @]

\* The default answer to a close request: hide, and quit with the last.
HandleCloseRequested(g, w) ==
    LET hidden == IF g.window[w].native THEN AssignVisible(g, w, FALSE) ELSE g
    IN IF ~g.quitOnLast THEN g
       ELSE IF \E v \in Windows : hidden.window[v].visible THEN hidden
       ELSE Quit(hidden, "last")

Innermost == Last(gui.stack)
Returned == [gui EXCEPT !.stack = Front(@)]

\* The slots of the innermost emission are done and its handler, when that is
\* WindowSystemInterface's own, finishes: handleCloseRequest() asks whether
\* the window is still there before it goes on.
SlotsReturn ==
    /\ gui.stack # <<>>
    /\ \/ /\ Innermost.then = "nothing"
          /\ gui' = Returned
       \/ /\ Innermost.then = "closeRequested"
          /\ gui' = IF Innermost.window \in Alive
                    THEN HandleCloseRequested(Returned, Innermost.window)
                    ELSE Returned
=============================================================================
