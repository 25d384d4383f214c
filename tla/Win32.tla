------------------------------- MODULE Win32 -------------------------------
(***************************************************************************)
(* The Win32 back end: the window procedure.  `n32' is what the back end   *)
(* keeps, most of it in the native windows themselves; `usr' is the system *)
(* and its user, external: what is held down, which window has the mouse   *)
(* captured, which is to be painted.                                       *)
(*                                                                         *)
(* A message reaches the procedure from the loop, or from inside a call    *)
(* that sends it (a resize, a change of focus), when it is nested in       *)
(* whatever made the call.                                                 *)
(***************************************************************************)
EXTENDS WindowSystem, KeyTranslation

CONSTANTS
    Keys,               \* the keys pressed: some of PhysicalKeys
    SlotsCloseOnEnter   \* whether a slot of mouseEntered may close its window

VARIABLES n32, usr

Win32State ==
    [class    : BOOLEAN,                  \* mClassRegistered
     attached : SUBSET Windows,           \* GWLP_USERDATA names the Window
     tracking : SUBSET Windows,           \* kTrackingFlagSlot is set
     client   : [Windows -> Sizes],       \* GetClientRect()
     sizing   : [window : Windows \cup {NoWindow}, size : Sizes, pass : 0 .. 3]]

SystemState ==
    [buttons : SUBSET Buttons, keys : SUBSET Keys,
     capture : Windows \cup {NoWindow},
     focus   : Windows \cup {NoWindow},
     over    : Windows \cup {NoWindow},   \* WM_MOUSELEAVE is owed by this window
     invalid : SUBSET Windows]            \* a WM_PAINT is owed

NotSizing == [window |-> NoWindow, size |-> 1, pass |-> 0]

Win32Init ==
    /\ n32 = [class |-> FALSE, attached |-> {}, tracking |-> {},
              client |-> [w \in Windows |-> 1], sizing |-> NotSizing]
    /\ usr = [buttons |-> {}, keys |-> {}, capture |-> NoWindow, focus |-> NoWindow,
              over |-> NoWindow, invalid |-> {}]

\* A message for a window whose Window is gone goes to DefWindowProc().
Procedure(family, w) == Sees(family) /\ gui.quit = "no" /\ w \in n32.attached

-----------------------------------------------------------------------------
EnsureWindowClass(n) == IF n.class THEN {n} ELSE {n, [n EXCEPT !.class = TRUE]}
RatioForWindow == IF gui.family = "outputs" THEN Ratios ELSE {1}

\* createWindow(): no class, no native window, or a window that is scaled as
\* its monitor is, told to nobody.
CreateWindow(w) ==
    /\ MayCreate(w)
    /\ \E n \in EnsureWindowClass(n32) :
        \/ n32' = n /\ UNCHANGED gui
        \/ /\ n.class
           /\ n32' = [n EXCEPT !.attached = @ \cup {w}]
           /\ \E ratio \in RatioForWindow :
                gui' = SetInitialDevicePixelRatio(NewWindow(gui, w, 1, TRUE), w, ratio)
    /\ UNCHANGED usr

\* releaseNativeWindow(): the procedure is detached first, so that what
\* DestroyWindow() sends reaches nobody.
CloseWindow(w) ==
    /\ MayCall \/ Ending
    /\ w \in Alive
    /\ SlotsCloseOnEnter \/ \A i \in DOMAIN gui.stack :
            ~(gui.stack[i].window = w /\ gui.stack[i].then = "mouseMoved")
    /\ gui' = AssignNoNative(Destroyed(gui, w), w)
    /\ n32' = [n32 EXCEPT !.attached = @ \ {w}]
    /\ usr' = [usr EXCEPT !.capture = IF @ = w THEN NoWindow ELSE @,
                          !.focus = IF @ = w THEN NoWindow ELSE @,
                          !.over = IF @ = w THEN NoWindow ELSE @,
                          !.invalid = @ \ {w}]

SetWindowVisible(w, visible) ==
    /\ MayShow(w, visible)
    /\ gui' = AssignVisible(gui, w, visible)
    /\ UNCHANGED <<n32, usr>>

-----------------------------------------------------------------------------
(* Pointer messages. *)

\* The MK_ bits of a message: the buttons as they are after it.
ButtonsFromKeyState(state) == state \cap Buttons

\* handleButtonDown(): the first button captures the mouse, so that the release
\* comes here wherever it happens.
ButtonDown(w, b) ==
    LET held == usr.buttons \cup {b}
    IN /\ Procedure("pointer", w) /\ b \notin usr.buttons /\ usr.capture \in {NoWindow, w}
       /\ usr' = [usr EXCEPT !.buttons = held, !.capture = w]
       /\ gui' = HandleMousePressed(gui, w, ButtonsFromKeyState(held), b)
       /\ UNCHANGED n32

\* Mutant: the first button that comes up lets go of the mouse.
ButtonUpLetsGo(w, b) ==
    LET held == usr.buttons \ {b}
    IN /\ Procedure("pointer", w) /\ b \in usr.buttons /\ usr.capture \in {NoWindow, w}
       /\ usr' = [usr EXCEPT !.buttons = held, !.capture = IF @ = w THEN NoWindow ELSE @]
       /\ gui' = HandleMouseReleased(gui, w, ButtonsFromKeyState(held), b)
       /\ UNCHANGED n32

\* handleButtonUp(): the last button lets go of it.  With no capture the release
\* goes to whichever window the pointer is over.
ButtonUp(w, b) ==
    LET held == usr.buttons \ {b}
    IN /\ Procedure("pointer", w) /\ b \in usr.buttons /\ usr.capture \in {NoWindow, w}
       /\ usr' = [usr EXCEPT !.buttons = held,
                             !.capture = IF held = {} /\ @ = w THEN NoWindow ELSE @]
       /\ gui' = HandleMouseReleased(gui, w, ButtonsFromKeyState(held), b)
       /\ UNCHANGED n32

\* The messages of the five buttons, the side buttons' sharing one.
ButtonMessage(w, b) == ButtonDown(w, b) \/ ButtonUp(w, b)

\* Somewhere else, where no window of ours sees it.
ButtonElsewhere(b) ==
    /\ Sees("pointer") /\ usr.capture = NoWindow
    /\ usr' = [usr EXCEPT !.buttons = IF b \in @ THEN @ \ {b} ELSE @ \cup {b}]
    /\ UNCHANGED <<gui, n32>>

\* The first move since the pointer came is an enter as well.
MouseMove(w) ==
    /\ Procedure("pointer", w) /\ usr.capture \in {NoWindow, w}
    /\ IF w \in n32.tracking
       THEN gui' = HandleMouseMoved(gui, w, usr.buttons) /\ UNCHANGED <<n32, usr>>
       ELSE /\ n32' = [n32 EXCEPT !.tracking = @ \cup {w}]
            /\ usr' = [usr EXCEPT !.over = w]
            /\ gui' = EmitThen(gui, w, "mouseEntered", "mouseMoved")

\* The enter's slots have returned, and the same message goes on as a move.
MouseMoveAfterEnter ==
    /\ gui.stack # <<>> /\ Innermost.then = "mouseMoved" /\ Innermost.window \in Alive
    /\ gui' = HandleMouseMoved(Returned, Innermost.window, usr.buttons)
    /\ UNCHANGED <<n32, usr>>

MouseLeave(w) ==
    /\ Procedure("pointer", w) /\ usr.over = w
    /\ usr' = [usr EXCEPT !.over = NoWindow]
    /\ n32' = [n32 EXCEPT !.tracking = @ \ {w}]
    /\ gui' = HandleMouseLeft(gui, w)

MouseWheel(w) ==
    Procedure("pointer", w) /\ gui' = HandleWheel(gui, w) /\ UNCHANGED <<n32, usr>>

-----------------------------------------------------------------------------
(* Keys and focus. *)

\* GetKeyState() as of the message: a modifier is down while either key is.
CurrentModifiers(keys) ==
    IF keys \cap {"left shift", "right shift"} # {} THEN {"Shift"} ELSE {}

KeyEventFromMessage(k) ==
    IF k = "keypad enter" THEN "Enter" ELSE KeyFromVirtualKey(VirtualKey(k))

KeyDownOrUp(w, k) ==
    LET pressed == k \notin usr.keys
        keys == IF pressed THEN usr.keys \cup {k} ELSE usr.keys \ {k}
    IN /\ Procedure("keys", w) /\ usr.focus = w
       /\ usr' = [usr EXCEPT !.keys = keys]
       /\ gui' = IF pressed THEN HandleKeyPressed(gui, w, CurrentModifiers(keys))
                 ELSE HandleKeyReleased(gui, w, CurrentModifiers(keys))
       /\ UNCHANGED n32

\* WM_KILLFOCUS to the one, WM_SETFOCUS to the other.
KillFocus(w) ==
    /\ Procedure("keys", w) /\ usr.focus = w
    /\ usr' = [usr EXCEPT !.focus = NoWindow]
    /\ gui' = HandleFocusChange(gui, w, FALSE)
    /\ UNCHANGED n32

SetFocus(w) ==
    /\ Procedure("keys", w) /\ usr.focus = NoWindow
    /\ usr' = [usr EXCEPT !.focus = w]
    /\ gui' = HandleFocusChange(gui, w, TRUE)
    /\ UNCHANGED n32

-----------------------------------------------------------------------------
(* Sizes.  SetWindowPos() sends WM_SIZE before it returns. *)

\* setClientSize(), one pass: the frame's extent may change with the outer size
\* (a menu bar that wraps, or the shell clamps the window), so the client area may
\* come out wrong, every time.
\* WM_SIZE is sent for a size that changed.
Sizing(g, w, got, size, pass) ==
    /\ n32' = [n32 EXCEPT !.client[w] = got,
                          !.sizing = [window |-> w, size |-> size, pass |-> pass]]
    /\ gui' = IF got # n32.client[w] /\ w \in n32.attached
              THEN EmitThen([g EXCEPT !.window[w].size = got], w, "resized", "resizing")
              ELSE EmitThen(g, w, "no signal", "resizing")

SetClientSize(w, size) ==
    /\ MayCall /\ gui.family = "closing" /\ w \in Alive
    /\ n32.sizing = NotSizing /\ n32.client[w] # size
    /\ \E got \in Sizes : Sizing(gui, w, got, size, 1)
    /\ UNCHANGED usr

\* setMenu(): the bar takes its room from the client area, which is given back.
SetMenu(w) ==
    /\ MayCall /\ gui.family = "closing" /\ w \in Alive
    /\ n32.sizing = NotSizing
    /\ \E got \in Sizes : got <= n32.client[w] /\ Sizing(gui, w, got, gui.window[w].size, 0)
    /\ UNCHANGED usr

\* The next pass, or the end: the size is right, three have been tried, or the
\* window was destroyed by a slot, when its handle measures nothing.
SizingGoesOn ==
    LET s == n32.sizing
    IN /\ gui.stack # <<>> /\ Innermost.then = "resizing"
       /\ IF s.window \notin Alive \/ n32.client[s.window] = s.size \/ s.pass = 3
          THEN n32' = [n32 EXCEPT !.sizing = NotSizing] /\ gui' = Returned
          ELSE \E got \in Sizes : Sizing(Returned, s.window, got, s.size, s.pass + 1)
       /\ UNCHANGED usr

\* WM_SIZE by the user; a minimized window, of size 0, is not told.
UserResizes(w, size) ==
    /\ Procedure("closing", w) /\ size # n32.client[w]
    /\ n32' = [n32 EXCEPT !.client[w] = size]
    /\ gui' = HandleResize(gui, w, size)
    /\ UNCHANGED usr

DpiChanged(w, ratio) ==
    /\ Procedure("outputs", w)
    /\ gui' = HandleDevicePixelRatioChanged(gui, w, ratio)
    /\ UNCHANGED <<n32, usr>>

-----------------------------------------------------------------------------
(* Painting, closing, menus. *)

\* requestUpdate(): InvalidateRect(); many requests are one WM_PAINT.
RequestUpdate(w) ==
    /\ MayCall /\ gui.family = "updates" /\ w \in Alive
    /\ gui' = Asked(gui, w)
    /\ usr' = [usr EXCEPT !.invalid = @ \cup {w}]
    /\ UNCHANGED n32

\* WM_PAINT: validated before the slots run, so that one of them can ask again.
Paint(w) ==
    /\ Procedure("updates", w) /\ w \in usr.invalid
    /\ usr' = [usr EXCEPT !.invalid = @ \ {w}]
    /\ gui' = HandleExpose(gui, w)
    /\ UNCHANGED n32

CloseMessage(w) ==
    Procedure("closing", w) /\ gui' = HandleCloseRequest(gui, w) /\ UNCHANGED <<n32, usr>>

MenuCommand(w) ==
    Procedure("closing", w) /\ gui' = HandleMenuCommand(gui, w) /\ UNCHANGED <<n32, usr>>

\* ~PlatformIntegrationWin32() unregisters the class.
DestroyBackend ==
    /\ Ending /\ Alive = {}
    /\ gui' = [gui EXCEPT !.up = FALSE]
    /\ n32' = [n32 EXCEPT !.class = FALSE]
    /\ UNCHANGED usr
=============================================================================
