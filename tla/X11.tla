-------------------------------- MODULE X11 --------------------------------
(***************************************************************************)
(* The X11 back end: windows it creates and windows it adopts, on one      *)
(* display connection, which is an event source of the loop.  `x' is the   *)
(* back end; `srv' is the server and the events it has put in the queue,   *)
(* external.  pumpDisplay() takes the queue apart until it is empty, and   *)
(* an event whose window is no longer tracked is dropped.                  *)
(***************************************************************************)
EXTENDS WindowSystem, KeyTranslation

CONSTANTS
    Keys,      \* the keys pressed: some of PhysicalKeys
    MaxQueue,  \* bound: events in Xlib's queue
    MaxTasks   \* bound: passes posted to the loop and not run

VARIABLES x, srv

\* XIDs: of a window created for this Window, or of another library's that it
\* adopts.  Bound: no window is handed over for adoption a second time.
Created(v) == <<v, "created">>
Foreign(v) == <<v, "foreign">>
Ids == {Created(v) : v \in Windows} \cup {Foreign(v) : v \in Windows}
NoId == <<NoWindow, "none">>
EventTypes == {"KeyPress", "KeyRelease", "ButtonPress", "ButtonRelease",
               "MotionNotify", "EnterNotify", "LeaveNotify", "ConfigureNotify",
               "Expose", "ClientMessage", "FocusIn", "FocusOut"}
None == "none"
Event(type, id, what, state) == [type |-> type, id |-> id, what |-> what, state |-> state]

Tracked == [window : Windows, id : Ids, updatePending : BOOLEAN, created : BOOLEAN]

X11State ==
    [display : {"none", "own", "adopted"},  \* mDisplay, mOwnsDisplay
     source  : BOOLEAN,                     \* mConnectionFd is an event source
     pumping : BOOLEAN,                     \* inside pumpDisplay()
     windows : Seq(Tracked),                \* mWindows
     tasks   : 0 .. MaxTasks]               \* further passes posted and not run

X11Init ==
    /\ x = [display |-> "none", source |-> FALSE, pumping |-> FALSE, windows |-> <<>>,
            tasks |-> 0]
    /\ srv \in [queue : {<<>>}, buttons : {{}}, grab : {NoId}, keys : {{}}, dpi : Ratios]

WindowFor(id) == SelectInSeq(x.windows, LAMBDA t : t.id = id)
EntryOf(v) == SelectInSeq(x.windows, LAMBDA t : t.window = v)
ShiftDown(keys) == keys \cap {"left shift", "right shift"} # {}
ModifiersFromState(keys) == IF ShiftDown(keys) THEN {"Shift"} ELSE {}

\* XLookupString with the state from before the event, made good for the key's
\* own modifier.
KeyEventFrom(k, keys, pressed) ==
    [key |-> KeyFromKeySym(KeySym(k, ShiftDown(keys))),
     modifiers |-> Accumulated(ModifiersFromState(keys),
                               KeyFromKeySym(KeySym(k, ShiftDown(keys))), pressed)]

-----------------------------------------------------------------------------
(* The connection. *)

\* ensureOwnDisplay(), when no window has been adopted from a display.
WithDisplay(d, kind) == [d EXCEPT !.display = IF @ = "none" THEN kind ELSE @]

\* unregisterConnection() also forgets the display.
Unregistered(d) == [d EXCEPT !.source = FALSE, !.display = "none", !.pumping = FALSE]

PumpBegins ==
    /\ Idle /\ x.source /\ ~x.pumping
    /\ \/ srv.queue # <<>> /\ x' = [x EXCEPT !.pumping = TRUE] /\ UNCHANGED gui
       \/ gui.family = "updates" /\ x' = Unregistered(x) /\ gui' = Quit(gui, "dropped")
    /\ UNCHANGED srv

\* The queue is empty; what a slot's round trip reads into it after that gets a
\* pass of its own.
PumpEnds ==
    /\ gui.stack = <<>> /\ x.pumping /\ srv.queue = <<>>
    /\ \/ x' = [x EXCEPT !.pumping = FALSE]
       \/ x.tasks < MaxTasks /\ x' = [x EXCEPT !.pumping = FALSE, !.tasks = @ + 1]
    /\ UNCHANGED <<gui, srv>>

RunPostedPass ==
    /\ Idle /\ ~x.pumping /\ x.tasks > 0
    /\ x' = [x EXCEPT !.tasks = @ - 1, !.pumping = x.display # "none"]
    /\ UNCHANGED <<gui, srv>>

-----------------------------------------------------------------------------
(* Windows. *)

\* prepareConnection(): no dispatcher of the right kind on this thread.
Prepared(d) == [d EXCEPT !.source = TRUE]
Track(d, v, id, created) ==
    [d EXCEPT !.windows = Append(@, [window |-> v, id |-> id, updatePending |-> FALSE,
                                     created |-> created])]

\* reportDevicePixelRatio(): read once, told to nobody.
Fronted(v, size) == SetInitialDevicePixelRatio(NewWindow(gui, v, size, TRUE), v, srv.dpi)

\* createWindow(): no display; no such visual, no native window or no event
\* source, when what was made is destroyed again; a window.
CreateWindow(v) ==
    /\ MayCreate(v)
    /\ \/ x.display = "none" /\ UNCHANGED <<gui, x>>
       \/ x' = WithDisplay(x, "own") /\ ~x.source /\ UNCHANGED gui
       \/ x' = Track(Prepared(WithDisplay(x, "own")), v, Created(v), TRUE) /\ gui' = Fronted(v, 1)
    /\ UNCHANGED srv

\* adoptWindow(): a window of another library's, on the one display there is.
AdoptWindow(v) ==
    /\ MayAdopt(v)
    /\ x.display # "own"
    /\ \/ ~x.source /\ x' = WithDisplay(x, "adopted") /\ UNCHANGED gui
       \/ x' = Track(Prepared(WithDisplay(x, "adopted")), v, Foreign(v), FALSE) /\ gui' = Fronted(v, 2)
    /\ UNCHANGED srv

\* releaseNativeWindow(): a created window is destroyed, an adopted one is left
\* standing and no longer listened to; the server sends nothing more for it, and
\* a release it owed has nobody to go to.
CloseWindow(v) ==
    /\ MayCall \/ (Ending /\ ~x.pumping)
    /\ v \in Alive
    /\ gui' = AssignNoNative(Destroyed(gui, v), v)
    /\ x' = [x EXCEPT !.windows = SelectSeq(@, LAMBDA t : t.window # v)]
    /\ srv' = IF EntryOf(v) # 0 /\ srv.grab = x.windows[EntryOf(v)].id
              THEN [srv EXCEPT !.buttons = {}, !.grab = NoId] ELSE srv

SetWindowVisible(v, visible) ==
    /\ MayShow(v, visible)
    /\ x.display # "none"
    /\ gui' = AssignVisible(gui, v, visible)
    /\ UNCHANGED <<x, srv>>

Room == Len(srv.queue) < MaxQueue
Sends(event) == srv' = [srv EXCEPT !.queue = Append(@, event)]

\* setClientSize() asks the server, whose answer is a ConfigureNotify.
SetClientSize(v, size) ==
    /\ MayCall /\ gui.family = "closing" /\ v \in Alive /\ x.display # "none" /\ Room
    /\ Sends(Event("ConfigureNotify", x.windows[EntryOf(v)].id, size, {}))
    /\ UNCHANGED <<gui, x>>

\* requestUpdate() sends this window an Expose, one at a time.
RequestUpdate(v) ==
    LET n == EntryOf(v)
    IN /\ MayCall /\ gui.family = "updates" /\ v \in Alive /\ n # 0 /\ x.display # "none"
       /\ gui' = Asked(gui, v)
       /\ IF x.windows[n].updatePending
          THEN UNCHANGED <<x, srv>>
          ELSE /\ Room
               /\ Sends(Event("Expose", x.windows[n].id, 0, {}))
               /\ x' = [x EXCEPT !.windows[n].updatePending = TRUE]

-----------------------------------------------------------------------------
(* The server.  The window a button went down in gets every pointer event    *)
(* until all buttons are up.                                                  *)

Listening == {x.windows[n].id : n \in DOMAIN x.windows}
\* Bound: the server puts events in the queue between two handlers.
ServerMay(family) == Sees(family) /\ gui.quit = "no" /\ Room /\ x.source

ServerButton(id, b) ==
    LET after == IF b \in srv.buttons THEN srv.buttons \ {b} ELSE srv.buttons \cup {b}
        type == IF b \in srv.buttons THEN "ButtonRelease" ELSE "ButtonPress"
    IN /\ ServerMay("pointer") /\ id \in Listening /\ srv.grab \in {NoId, id}
       /\ srv' = [srv EXCEPT !.queue = Append(@, Event(type, id, b, srv.buttons)),
                             !.buttons = after,
                             !.grab = IF after = {} THEN NoId ELSE id]
       /\ UNCHANGED <<gui, x>>

ServerPointer(id) ==
    /\ ServerMay("pointer") /\ id \in Listening /\ srv.grab \in {NoId, id}
    /\ \/ \E type \in {"MotionNotify", "EnterNotify", "LeaveNotify"} :
            Sends(Event(type, id, None, srv.buttons))
       \/ \E type \in {"ButtonPress", "ButtonRelease"} :
            Sends(Event(type, id, "wheel", srv.buttons))
    /\ UNCHANGED <<gui, x>>

ServerKey(id, k) ==
    LET type == IF k \in srv.keys THEN "KeyRelease" ELSE "KeyPress"
    IN /\ ServerMay("keys") /\ id \in Listening
       /\ srv' = [srv EXCEPT !.queue = Append(@, Event(type, id, k, srv.keys)),
                             !.keys = IF k \in @ THEN @ \ {k} ELSE @ \cup {k}]
       /\ UNCHANGED <<gui, x>>

ServerFocus(id) ==
    /\ ServerMay("keys") /\ id \in Listening
    /\ \E type \in {"FocusIn", "FocusOut"} : Sends(Event(type, id, None, {}))
    /\ UNCHANGED <<gui, x>>

\* The window manager moves, resizes or asks to close; a part uncovered is told
\* with the number of exposes still to come.
ServerManages(id) ==
    /\ id \in Listening
    /\ \/ ServerMay("closing") /\ \E size \in Sizes : Sends(Event("ConfigureNotify", id, size, {}))
       \/ ServerMay("closing") /\ Sends(Event("ClientMessage", id, None, {}))
       \/ ServerMay("updates") /\ \E count \in 0 .. 1 : Sends(Event("Expose", id, count, {}))
    /\ UNCHANGED <<gui, x>>

-----------------------------------------------------------------------------
(* dispatchNativeEvent(): one event of the queue. *)

\* The mask has no bit for a side button, and is from before the event.
ButtonsFromState(state) == state \ {"Extra1"}
ButtonsAfter(e) ==
    CASE e.type = "ButtonPress" -> ButtonsFromState(e.state) \cup {e.what}
      [] e.type = "ButtonRelease" -> ButtonsFromState(e.state) \ {e.what}
      [] OTHER -> ButtonsFromState(e.state)

\* The wheel is buttons to X11: a press of one is a step, its release nothing.
WheelDeltaOf(button) == IF button = "wheel" THEN 1 ELSE 0

ButtonEvent(g, w, e) ==
    CASE e.type = "ButtonPress" /\ WheelDeltaOf(e.what) # 0 -> HandleWheel(g, w)
      [] e.type = "ButtonRelease" /\ WheelDeltaOf(e.what) # 0 -> g
      [] e.type = "ButtonPress" /\ WheelDeltaOf(e.what) = 0 ->
            HandleMousePressed(g, w, ButtonsAfter(e), e.what)
      [] e.type = "ButtonRelease" /\ WheelDeltaOf(e.what) = 0 ->
            HandleMouseReleased(g, w, ButtonsAfter(e), e.what)

CrossingEvent(g, w, e) ==
    CASE e.type = "MotionNotify" -> HandleMouseMoved(g, w, ButtonsAfter(e))
      [] e.type = "EnterNotify" -> HandleMouseEntered(g, w)
      [] e.type = "LeaveNotify" -> HandleMouseLeft(g, w)

KeyEvent(g, w, e) ==
    IF e.type = "KeyPress"
    THEN HandleKeyPressed(g, w, KeyEventFrom(e.what, e.state, TRUE).modifiers)
    ELSE HandleKeyReleased(g, w, KeyEventFrom(e.what, e.state, FALSE).modifiers)

WindowEvent(g, w, e) ==
    CASE e.type = "ConfigureNotify" ->
            IF e.what = g.window[w].size THEN g ELSE HandleResize(g, w, e.what)
      [] e.type = "Expose" -> IF e.what # 0 THEN g ELSE HandleExpose(g, w)
      [] e.type = "ClientMessage" -> HandleCloseRequest(g, w)
      [] e.type = "FocusIn" -> HandleFocusChange(g, w, TRUE)
      [] e.type = "FocusOut" -> HandleFocusChange(g, w, FALSE)

\* A motion with another for the same window right behind it is passed over.
Superseded(e) ==
    /\ e.type = "MotionNotify" /\ Len(srv.queue) > 1
    /\ srv.queue[2].type = "MotionNotify" /\ srv.queue[2].id = e.id

DispatchNativeEvent ==
    LET e == Head(srv.queue)
        n == WindowFor(e.id)
        w == x.windows[n].window
    IN /\ gui.stack = <<>> /\ x.pumping /\ srv.queue # <<>>
       /\ srv' = [srv EXCEPT !.queue = Tail(@)]
       /\ IF n = 0 \/ Superseded(e)
          THEN UNCHANGED <<gui, x>>
          ELSE /\ gui' = CASE e.type \in {"ButtonPress", "ButtonRelease"} -> ButtonEvent(gui, w, e)
                           [] e.type \in {"MotionNotify", "EnterNotify", "LeaveNotify"} ->
                                CrossingEvent(gui, w, e)
                           [] e.type \in {"KeyPress", "KeyRelease"} -> KeyEvent(gui, w, e)
                           [] OTHER -> WindowEvent(gui, w, e)
               /\ x' = IF e.type = "Expose" /\ e.what = 0
                       THEN [x EXCEPT !.windows[n].updatePending = FALSE] ELSE x

\* ~PlatformIntegrationX11(): a display of its own is closed.
DestroyBackend ==
    /\ Ending /\ Alive = {} /\ ~x.pumping
    /\ gui' = [gui EXCEPT !.up = FALSE]
    /\ x' = Unregistered(x)
    /\ UNCHANGED srv
=============================================================================
