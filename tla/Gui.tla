-------------------------------- MODULE Gui --------------------------------
(***************************************************************************)
(* The GUI library on the platform it runs on: the application object, its *)
(* windows, and the one back end PlatformIntegration::create() made.  The  *)
(* back ends share the Window objects and WindowSystemInterface            *)
(* (WindowSystem) and nothing else, so a behaviour belongs to one of them. *)
(***************************************************************************)
EXTENDS WindowSystem, FiniteSets

CONSTANTS Outputs, Keys, Repaces, Handles, SlotsCloseOnEnter, MaxTasks, MaxQueue

VARIABLES wl, comp, drm, dev, x, srv, n32, usr

onWayland == <<wl, comp>>
onDrm == <<drm, dev>>
onX11 == <<x, srv>>
onWin32 == <<n32, usr>>
vars == <<gui, onWayland, onDrm, onX11, onWin32>>

WL == INSTANCE Wayland
DR == INSTANCE Drm
XE == INSTANCE X11 WITH MaxTasks <- 1
WN == INSTANCE Win32

-----------------------------------------------------------------------------
(* PlatformIntegration: which back end, and whether there is one. *)

Situations ==
    [os        : {"windows", "linux"},
     said      : {"wayland", "x11", "drm", "windows", "other", "nothing"},  \* -platform,
                                                         \* or the environment
     built     : SUBSET {"Wayland", "X11", "Drm"},       \* found when it was compiled
     available : SUBSET {"Wayland", "X11"}]              \* a server answers

PlatformFromName(name) ==
    CASE name = "wayland" -> "Wayland"
      [] name = "x11" -> "X11"
      [] name = "drm" -> "Drm"
      [] name = "windows" -> "Windows"
      [] OTHER -> "Unknown"

ChoosePlatform(s) ==
    CASE s.os = "windows" -> "Windows"
      [] s.os = "linux" /\ s.said # "nothing" -> PlatformFromName(s.said)
      [] s.os = "linux" /\ s.said = "nothing" ->
            IF "Wayland" \in s.built \cap s.available THEN "Wayland"
            ELSE IF "X11" \in s.built \cap s.available THEN "X11"
            ELSE "Drm"

\* create(): the back end of that platform, or null.
Created(s) ==
    IF s.os = "windows" THEN ChoosePlatform(s) = "Windows" ELSE ChoosePlatform(s) \in s.built

\* initPlatform(): a platform with no back end is Unknown, and the program runs
\* without windows.
InitPlatform(s) == IF Created(s) THEN ChoosePlatform(s) ELSE "Unknown"

\* Bound: the families of events looked at with each back end.
FamiliesOf(platform) ==
    CASE platform = "Wayland" -> Families
      [] platform = "X11" -> {"pointer", "keys", "updates", "closing"}
      [] platform = "Drm" -> {"pointer", "keys", "touch", "updates", "closing"}
      [] platform = "Windows" -> {"pointer", "keys", "outputs", "updates", "closing"}
      [] OTHER -> {"closing"}

Init ==
    /\ \E platform \in {InitPlatform(s) : s \in Situations} :
            GuiInit(platform, platform # "Unknown", FamiliesOf(platform))
    /\ gui.family # "closing" => gui.quitOnLast
    /\ WL!WaylandInit /\ DR!DrmInit /\ XE!X11Init /\ WN!Win32Init
    \* A back end that is not there has nothing behind it.
    /\ gui.platform # "Wayland" => comp.shells = {}
    /\ gui.platform # "X11" \/ gui.family # "updates" => srv.dpi = 1

-----------------------------------------------------------------------------
NextWayland ==
    \/ WL!PumpBegins \/ WL!PumpEnds \/ WL!WmBasePing
    \/ \E v \in Windows : WL!CreateWindow(v) \/ WL!CloseWindow(v) \/ WL!SetWindowTitle(v)
                            \/ WL!RequestUpdate(v)
    \/ \E v \in Windows, visible \in BOOLEAN : WL!SetWindowVisible(v, visible)
    \/ \E v \in Windows, size \in Sizes : WL!SetClientSize(v, size)
    \/ \E v \in Windows, pacing \in Pacings : WL!SetPacing(v, pacing)
    \/ \E size \in Sizes : WL!DecorFrameConfigure(size)
    \/ WL!XdgToplevelClose \/ WL!DecorFrameClose \/ WL!DecorFrameCommit \/ WL!XdgSurfaceConfigure
    \/ \E devices \in SUBSET {"pointer", "keyboard", "touch"} : WL!SeatCapabilities(devices)
    \/ \E s \in {"ours", "other"} : WL!PointerEnter(s) \/ WL!KeyboardEnter(s) \/ WL!TouchDown(s)
    \/ WL!PointerLeave \/ WL!PointerMotion \/ WL!PointerAxis \/ WL!KeyboardLeave
    \/ \E b \in Buttons, pressed \in BOOLEAN : WL!PointerButton(b, pressed)
    \/ \E k \in Keys, pressed \in BOOLEAN : WL!KeyboardKey(k, pressed)
    \/ \E k \in Keys : WL!KeyElsewhere(k)
    \/ WL!TouchUp \/ WL!TouchMotion \/ WL!TouchFrame \/ WL!TouchCancel
    \/ \E o \in Outputs : WL!RegistryGlobal(o) \/ WL!RegistryGlobalRemove(o)
                            \/ WL!SurfaceEnter(o) \/ WL!SurfaceLeave(o)
    \/ \E o \in Outputs, scale \in Ratios : WL!OutputScale(o, scale)
    \/ WL!OutputDone \/ WL!Draw \/ WL!RunPostedUpdate \/ WL!FrameReady
    \/ WL!FlushAfterSlots \/ WL!DestroyBackend

NextDrm ==
    \/ \E v \in Windows, size \in Sizes, handle \in Handles : DR!AdoptWindow(v, size, handle)
    \/ \E v \in Windows : DR!CloseWindow(v) \/ DR!RequestUpdate(v)
    \/ \E v \in Windows, visible \in BOOLEAN : DR!SetWindowVisible(v, visible)
    \/ DR!PumpBegins \/ DR!PumpEnds \/ DR!InputLost
    \/ \E to \in {-1, 0, 1, 2} : DR!PointerMotion(to)
    \/ \E b \in Buttons, pressed \in BOOLEAN : DR!PointerButton(b, pressed)
    \/ \E k \in Keys, pressed \in BOOLEAN : DR!KeyboardKey(k, pressed)
    \/ DR!PointerScroll \/ DR!ChangesUnheard \/ DR!Touch
    \/ DR!RunPostedUpdate \/ DR!DestroyBackend \/ DR!ProgramQuits

NextX11 ==
    \/ XE!PumpBegins \/ XE!PumpEnds \/ XE!RunPostedPass \/ XE!DispatchNativeEvent
    \/ \E v \in Windows : XE!CreateWindow(v) \/ XE!AdoptWindow(v) \/ XE!CloseWindow(v)
                            \/ XE!RequestUpdate(v)
    \/ \E v \in Windows, visible \in BOOLEAN : XE!SetWindowVisible(v, visible)
    \/ \E v \in Windows, size \in Sizes : XE!SetClientSize(v, size)
    \/ \E id \in XE!Ids : \/ \E b \in Buttons : XE!ServerButton(id, b)
                          \/ \E k \in Keys : XE!ServerKey(id, k)
                          \/ XE!ServerPointer(id) \/ XE!ServerFocus(id) \/ XE!ServerManages(id)
    \/ XE!DestroyBackend

NextWin32 ==
    \/ \E w \in Windows : \/ WN!CreateWindow(w) \/ WN!CloseWindow(w) \/ WN!MouseMove(w)
                          \/ WN!MouseLeave(w) \/ WN!MouseWheel(w) \/ WN!KillFocus(w)
                          \/ WN!SetFocus(w) \/ WN!SetMenu(w) \/ WN!RequestUpdate(w)
                          \/ WN!Paint(w) \/ WN!CloseMessage(w) \/ WN!MenuCommand(w)
    \/ \E w \in Windows, visible \in BOOLEAN : WN!SetWindowVisible(w, visible)
    \/ \E w \in Windows, b \in Buttons : WN!ButtonMessage(w, b)
    \/ \E b \in Buttons : WN!ButtonElsewhere(b)
    \/ \E w \in Windows, k \in Keys : WN!KeyDownOrUp(w, k)
    \/ \E w \in Windows, size \in Sizes : WN!SetClientSize(w, size) \/ WN!UserResizes(w, size)
    \/ \E w \in Windows, ratio \in Ratios : WN!DpiChanged(w, ratio)
    \/ WN!MouseMoveAfterEnter \/ WN!SizingGoesOn \/ WN!DestroyBackend

Next ==
    \/ SlotsReturn /\ UNCHANGED <<onWayland, onDrm, onX11, onWin32>>
    \/ gui.platform = "Wayland" /\ NextWayland /\ UNCHANGED <<onDrm, onX11, onWin32>>
    \/ gui.platform = "Drm" /\ NextDrm /\ UNCHANGED <<onWayland, onX11, onWin32>>
    \/ gui.platform = "X11" /\ NextX11 /\ UNCHANGED <<onWayland, onDrm, onWin32>>
    \/ gui.platform = "Windows" /\ NextWin32 /\ UNCHANGED <<onWayland, onDrm, onX11>>

Spec == Init /\ [][Next]_vars

-----------------------------------------------------------------------------
TypeOK ==
    /\ gui \in GuiState
    /\ wl \in WL!WaylandState /\ comp \in WL!CompositorState
    /\ drm \in DR!DrmState
    /\ x \in XE!X11State
    /\ n32 \in WN!Win32State /\ usr \in WN!SystemState

\* The windows a back end knows and reports events to are the windows that are
\* alive, each once, and the focus is on one of them: a Window destroyed by a
\* slot, in the middle of the report of an event or of its own repaint, is not
\* named by anything that is still to run.
WindowsAreTracked ==
    /\ TypeOK
    /\ {gui.focus, gui.touchFocus} \subseteq Alive \cup {NoWindow}
    /\ gui.platform = "Wayland" => Alive = {wl.window} \ {NoWindow}
    /\ gui.platform = "Drm" => Alive = {drm.window} \ {NoWindow}
    /\ gui.platform = "X11" =>
        /\ Alive = {x.windows[n].window : n \in DOMAIN x.windows}
        /\ \A m, n \in DOMAIN x.windows :
            x.windows[m].window = x.windows[n].window \/ x.windows[m].id = x.windows[n].id
                => m = n
    /\ gui.platform = "Windows" =>
        /\ Alive = n32.attached
        /\ \A i \in DOMAIN gui.stack :
            gui.stack[i].then = "mouseMoved" => gui.stack[i].window \in Alive

\* A window that asked to draw and has not been given an expose has one coming:
\* a repaint posted to the loop, a frame callback, an Expose in the queue, or a
\* WM_PAINT.  No crossing of posted, paced and slot-made requests loses it, and one
\* that the loop's queue refused (it is not asked for again) spoils none after it.
UpdateIsOwed ==
    \A w \in Alive : gui.window[w].asked /\ gui.quit = "no" =>
        CASE gui.platform = "Wayland" ->
                \/ wl.updatePending /\ wl.tasks > 0
                \/ wl.pacedRequested /\ comp.callback # "none"
          [] gui.platform = "Drm" -> drm.updatePending /\ drm.tasks > 0
          [] gui.platform = "X11" ->
                \E n \in DOMAIN srv.queue :
                    /\ srv.queue[n].type = "Expose" /\ srv.queue[n].what = 0
                    /\ \E t \in DOMAIN x.windows :
                            x.windows[t].window = w /\ x.windows[t].id = srv.queue[n].id
          [] gui.platform = "Windows" -> w \in usr.invalid

\* Between two reports a window that was told of a press has its release still to
\* come: by a grab, a capture or an event under way.  On Wayland and DRM, which keep
\* a set of their own, the buttons an event says are held are those the user holds.
ButtonsBalance ==
    gui.stack = <<>> /\ gui.quit = "no" =>
        CASE gui.platform = "Wayland" ->
                comp.cut \/ /\ wl.buttons = comp.buttons
                            /\ \A w \in Alive : gui.window[w].down \subseteq comp.buttons
          [] gui.platform = "Drm" ->
                dev.cut \/ /\ drm.buttons = dev.buttons
                           /\ \A w \in Alive : gui.window[w].down \subseteq dev.buttons
          [] gui.platform = "X11" ->
                \A t \in DOMAIN x.windows : \A b \in gui.window[x.windows[t].window].down :
                    \/ srv.grab = x.windows[t].id /\ b \in srv.buttons
                    \/ \E n \in DOMAIN srv.queue :
                        srv.queue[n] = [srv.queue[n] EXCEPT !.type = "ButtonRelease",
                                                            !.id = x.windows[t].id, !.what = b]
          [] gui.platform = "Windows" ->
                \A w \in Alive : gui.window[w].down # {} =>
                    usr.capture = w /\ gui.window[w].down \subseteq usr.buttons
          [] OTHER -> TRUE

\* On Wayland and DRM, while a window of ours has the keyboard, the modifiers the
\* back end gives with an event are those of the keys that are down, whatever was
\* pressed and released while the keyboard was elsewhere.  Excepted: a modifier with
\* two keys, from when one of them comes up with the other down to the next of their
\* presses or entries.
ModifiersFollowTheKeys ==
    gui.stack = <<>> =>
        CASE gui.platform = "Wayland" ->
                comp.keyboard = "ours" =>
                    wl.modifiers = WL!ModifiersOf(comp.keys) \ comp.lost
          [] gui.platform = "Drm" ->
                dev.cut \/ drm.modifiers = WL!ModifiersOf(dev.keys) \ dev.lost
          [] OTHER -> TRUE

\* When the compositor has finished what it was announcing, the window's ratio
\* is the largest scale of the outputs it is on.
RatioFollowsTheOutputs ==
    gui.platform = "Wayland" /\ comp.settled /\ wl.window # NoWindow =>
        gui.window[wl.window].ratio = WL!ScaleOf(wl)

\* When every handler has returned and the loop may sleep, no request sits in
\* the output buffer unless the loop watches the descriptor for room.
NothingSitsUnsent ==
    gui.stack = <<>> /\ ~wl.pumping /\ wl.window # NoWindow /\ wl.unsent = "requests"
        => wl.source # "in"

\* The size a Window gives is the size its native window has.
SizeIsTold ==
    gui.stack = <<>> =>
        /\ gui.platform = "Wayland" /\ wl.window # NoWindow => gui.window[wl.window].size = wl.size
        /\ gui.platform = "Windows" =>
            \A w \in Alive : gui.window[w].size = n32.client[w]

\* What a window asks of the system reaches it: its repaint is coming, and no request is
\* left in a buffer that nobody will flush.
RequestsGetThrough == UpdateIsOwed /\ NothingSitsUnsent

\* The input that the Wayland and DRM back ends keep between two reports is the user's, but
\* for a modifier with both its keys down; and on all four a press that a window was told of
\* has its release to come, through grabs, captures, focus changes and what happens elsewhere.
InputIsTheUsers == ButtonsBalance /\ ModifiersFollowTheKeys

\* A Window gives the size and the device pixel ratio that its native window has, however
\* the announcements nest and whatever order they come in.
GeometryIsTold == RatioFollowsTheOutputs /\ SizeIsTold
=============================================================================
