------------------------------ MODULE Desktop ------------------------------
(***************************************************************************)
(* The window manager (kernel/gui/wm.cpp) with the mouse state that        *)
(* interrupts change under it (drivers/mouse.cpp) and the windows of Win32 *)
(* programs (win32/win32.cpp).                                             *)
(*                                                                         *)
(* wm_update is three steps, because interrupts are enabled in it: it      *)
(* copies the mouse state, it takes the latched click and acts on it, and  *)
(* it handles one key.  The run loop calls it; while a program that was    *)
(* started from the desktop's terminal runs, only the program's            *)
(* GetMessageA does.  Coordinates are pixels of the 1920x1080 screen, and  *)
(* Point has those the pointer visits.  A move with the button up is seen  *)
(* only by the next press, so the pointer moves with presses and drags.    *)
(* Drawing, which nothing reads back, and is_minimized, which nothing      *)
(* sets, are left out; a destroyed window's position is forgotten, since   *)
(* the next window in its slot sets all of it.                             *)
(***************************************************************************)
EXTENDS Integers, FiniteSets, FiniteSetsExt

CONSTANTS
  MAX_WINDOWS,
  Point,        \* positions the pointer visits
  Buffers,      \* window buffers the kernel heap has room for
  LastWindow,   \* bound on window numbers
  MaxPackets    \* bound on mouse packets

\* Pixels of the screen; Untitled is the title of a slot that was never used.
ScreenWidth == 1920
ScreenHeight == 1080
Untitled == ""

ASSUME DesktopAssumption ==
  /\ MAX_WINDOWS \in Nat \ {0} /\ Buffers \in Nat /\ LastWindow \in Nat /\ MaxPackets \in Nat
  /\ Point \subseteq (0..(ScreenWidth - 1)) \X (0..(ScreenHeight - 1))

VARIABLES
  desk,       \* g_windows, g_window_count, g_next_window_id, g_active_window, g_term_window
  heap,       \* buffers allocated
  g_menu_open, g_prev_mouse_left,
  g_mouse_state,
  seen,       \* the copy of the mouse state wm_update works with
  update,     \* how far wm_update is
  program,    \* whether a Win32 program runs
  hWnd,       \* the window it created, and its id at that time
  press,      \* the latest press: times acted on, and whether it raced the copy
  stale,      \* whether a program has shown a window that was closed
  packets     \* mouse packets so far

desktopVars == <<desk, heap, g_menu_open, g_prev_mouse_left, g_mouse_state, seen, update,
                 program, hWnd, press, stale, packets>>

Slot == 1..MAX_WINDOWS
Middle == <<ScreenWidth \div 2, ScreenHeight \div 2>>

\* Places: x, y, width, height.
Terminal == [title |-> "terminal", x |-> 80, y |-> 60, width |-> 800, height |-> 520, movable |-> TRUE]
Monitor  == [title |-> "monitor", x |-> 60, y |-> 60, width |-> 680, height |-> 400, movable |-> TRUE]
Win32App == [title |-> "win32", x |-> 780, y |-> 60, width |-> 720, height |-> 440, movable |-> TRUE]
Default  == [title |-> "program", x |-> 120, y |-> 100, width |-> 440, height |-> 300, movable |-> TRUE]
Popup    == [title |-> "popup", x |-> 320, y |-> 240, width |-> 380, height |-> 160, movable |-> FALSE]
Place == {Terminal, Monitor, Win32App, Default, Popup}

Blank == [id |-> 0, title |-> Untitled, x |-> 0, y |-> 0, width |-> 0, height |-> 0, movable |-> FALSE,
          buffer |-> FALSE, is_active |-> FALSE, is_dragging |-> FALSE, grip |-> <<0, 0>>]

Free(d) == {s \in Slot : d.windows[s].id = 0}
Used(d) == Slot \ Free(d)

----------------------------------------------------------------------------
(* The calls on the window table; each gives the table it leaves.          *)

FirstSlot(d) == IF Free(d) = {} THEN d.count + 1 ELSE Min(Free(d))

wm_create_window(d, p, buffer) ==
  LET s == FirstSlot(d)
      w == [id |-> d.next_id, title |-> p.title, x |-> p.x, y |-> p.y, width |-> p.width,
            height |-> p.height, movable |-> p.movable, buffer |-> buffer,
            is_active |-> TRUE, is_dragging |-> FALSE, grip |-> <<0, 0>>]
  IN  IF d.count >= MAX_WINDOWS THEN d
      ELSE [d EXCEPT !.windows = [t \in Slot |->
                        IF t = s THEN w
                        ELSE IF @[t].id # 0 THEN [@[t] EXCEPT !.is_active = FALSE] ELSE @[t]],
                     !.next_id = @ + 1, !.count = @ + 1, !.active = s]

Closed(w) == [Blank EXCEPT !.title = w.title]

\* The last window that is left becomes active when the active one goes.
wm_destroy_window(d, s) ==
  LET rest == [d.windows EXCEPT ![s] = Closed(@)]
      left == {t \in Slot : rest[t].id # 0}
      next == IF left = {} THEN 0 ELSE Max(left)
      heir == IF d.active = s THEN next ELSE d.active
  IN  [d EXCEPT !.windows = IF d.active = s /\ next # 0
                              THEN [rest EXCEPT ![next].is_active = TRUE] ELSE rest,
                !.count = @ - 1,
                !.active = heir,
                !.term = IF d.term = s THEN 0 ELSE @]

\* Faulty variant: the others stay active.
wm_focus_window_others(d, id) ==
  LET same == {s \in Slot : d.windows[s].id = id}
      terms == {s \in same : d.windows[s].title = "terminal"}
  IN  [d EXCEPT !.windows = [s \in Slot |-> [@[s] EXCEPT !.is_active = @ \/ s \in same]],
                !.active = IF same = {} THEN 0 ELSE Max(same),
                !.term = IF terms = {} THEN @ ELSE Max(terms)]

\* Every slot with this id: for id 0 those are all the free ones.
wm_focus_window(d, id) ==
  LET same == {s \in Slot : d.windows[s].id = id}
      terms == {s \in same : d.windows[s].title = "terminal"}
  IN  [d EXCEPT !.windows = [s \in Slot |->
                   IF s \in same THEN [@[s] EXCEPT !.is_active = TRUE]
                   ELSE IF @[s].id # 0 THEN [@[s] EXCEPT !.is_active = FALSE] ELSE @[s]],
                !.active = IF same = {} THEN 0 ELSE Max(same),
                !.term = IF terms = {} THEN @ ELSE Max(terms)]

\* An application that is open is brought to the front, otherwise its window is created.
Open(d, p) ==
  LET open == {s \in Used(d) : d.windows[s].title = p.title}
      made == wm_create_window(d, p, heap < Buffers)
      s == IF open # {} THEN Min(open) ELSE made.active
      shown == IF open # {} THEN wm_focus_window(d, d.windows[s].id) ELSE made
  IN  IF p = Terminal /\ (open # {} \/ (made # d /\ heap < Buffers))
        THEN [shown EXCEPT !.term = s] ELSE shown

\* A window that did not exist before has taken a buffer, if there was one.
HeapAfter(before, after) ==
  IF after.next_id > before.next_id /\ heap < Buffers THEN heap + 1 ELSE heap

EmptyDesk == [windows |-> [s \in Slot |-> Blank], count |-> 0, next_id |-> 1, active |-> 0, term |-> 0]

----------------------------------------------------------------------------
(* Where a click falls.                                                    *)

Within(v, lo, hi) == lo <= v /\ v <= hi

OnStart(c) == Within(c[1], 0, 110) /\ Within(c[2], 0, 34)
OnMenu(c) == Within(c[1], 8, 8 + 280) /\ Within(c[2], 34, 34 + 250)

\* The menu's items by their first line, up to the next item's.
Item(c) ==
  LET y == c[2] - 34 IN
  CASE Within(y, 56, 84) -> "monitor" [] Within(y, 85, 112) -> "win32"
    [] Within(y, 113, 144) -> "terminal" [] Within(y, 145, 176) -> "close_all"
    [] Within(y, 177, 250) -> "reboot" [] OTHER -> "none"

\* Reboot ends every behaviour and is not clicked.
ASSUME NoReboot == \A c \in Point : OnMenu(c) => Item(c) # "reboot"

OnClose(w, c) == Within(c[1], w.x + w.width - 48, w.x + w.width + 8) /\ Within(c[2], w.y, w.y + 32)
OnWindow(w, c) == Within(c[1], w.x, w.x + w.width - 1) /\ Within(c[2], w.y, w.y + w.height + 28 - 1)

Grabbed(w, c) ==
  IF c[2] < w.y + 28 /\ w.movable
    THEN [w EXCEPT !.is_dragging = TRUE, !.grip = <<c[1] - w.x, c[2] - w.y>>] ELSE w

\* The active window is tried first, then the others from the last slot down.
Clicked(d, c) ==
  LET a == d.active
      front == a # 0 /\ d.windows[a].id # 0
      hits == {s \in Used(d) \ {a} : OnClose(d.windows[s], c) \/ OnWindow(d.windows[s], c)}
      h == Max(hits)
      focused == wm_focus_window(d, d.windows[h].id)
  IN  IF front /\ OnClose(d.windows[a], c) THEN wm_destroy_window(d, a)
      ELSE IF front /\ OnWindow(d.windows[a], c)
        THEN [d EXCEPT !.windows[a] = Grabbed(@, c)]
      ELSE IF hits = {} THEN d
      ELSE IF OnClose(d.windows[h], c) THEN wm_destroy_window(d, h)
      ELSE [focused EXCEPT !.windows[h] = Grabbed(@, c)]

Dragged(w, p) ==
  LET y == p[2] - w.grip[2] IN [w EXCEPT !.x = p[1] - w.grip[1], !.y = IF y < 32 THEN 32 ELSE y]

----------------------------------------------------------------------------
(* Mouse interrupts: a packet may arrive between any two steps.            *)

Packet == packets < MaxPackets /\ packets' = packets + 1

mouse_press(p) ==
  /\ Packet /\ ~g_mouse_state.left
  /\ OnMenu(p) => desk.next_id <= LastWindow
  /\ g_mouse_state' = [pos |-> p, left |-> TRUE, left_clicked |-> TRUE, click |-> p]
  /\ press' = [acted |-> 0, raced |-> update = "copied"]
  /\ UNCHANGED <<desk, heap, g_menu_open, g_prev_mouse_left, seen, update, program, hWnd, stale>>

mouse_drag(p) ==
  /\ Packet /\ g_mouse_state.left /\ p # g_mouse_state.pos
  /\ g_mouse_state' = [g_mouse_state EXCEPT !.pos = p]
  /\ UNCHANGED <<desk, heap, g_menu_open, g_prev_mouse_left, seen, update, program, hWnd, press,
                 stale>>

mouse_release ==
  /\ Packet /\ g_mouse_state.left
  /\ g_mouse_state' = [g_mouse_state EXCEPT !.left = FALSE]
  /\ UNCHANGED <<desk, heap, g_menu_open, g_prev_mouse_left, seen, update, program, hWnd, press,
                 stale>>

----------------------------------------------------------------------------
(* wm_update.                                                              *)

wm_copy ==
  /\ update = "idle"
  /\ seen' = [pos |-> g_mouse_state.pos, left |-> g_mouse_state.left]
  /\ update' = "copied"
  /\ UNCHANGED <<desk, heap, g_menu_open, g_prev_mouse_left, g_mouse_state, program, hWnd, press,
                 stale, packets>>

\* Faulty variant: nothing is updated when no window is left.
wm_run_loop_windows == ~program /\ Used(desk) # {} /\ wm_copy

wm_run_loop == ~program /\ wm_copy
u32_GetMessageA == program /\ wm_copy

clicked == g_mouse_state.left_clicked \/ (seen.left /\ ~g_prev_mouse_left)
ClickAt == IF g_mouse_state.left_clicked THEN g_mouse_state.click ELSE seen.pos

\* mouse_consume_click, and the press is acted on.
mouse_consume_click ==
  /\ clicked
  /\ g_mouse_state' = [g_mouse_state EXCEPT !.left_clicked = FALSE, !.click = Middle]
  /\ press' = [press EXCEPT !.acted = IF @ < 2 THEN @ + 1 ELSE @]
  /\ UNCHANGED <<program, hWnd, stale>>

ItemChosen(item) ==
  CASE item = "monitor" -> Open(desk, Monitor)
    [] item = "win32" -> Open(desk, Win32App)
    [] item = "terminal" -> Open(desk, Terminal)
    [] item = "close_all" ->
         [EmptyDesk EXCEPT !.next_id = desk.next_id,
                           !.windows = [s \in Slot |-> IF s \in Used(desk) THEN Closed(desk.windows[s])
                                                       ELSE desk.windows[s]],
                           !.active = IF desk.active \in Free(desk) THEN desk.active ELSE 0,
                           !.term = IF desk.term \in Free(desk) THEN desk.term ELSE 0]
    [] OTHER -> desk

\* A click on the open menu ends the update.
wm_click_menu ==
  /\ update = "copied" /\ g_menu_open /\ OnMenu(ClickAt)
  /\ mouse_consume_click
  /\ desk' = ItemChosen(Item(ClickAt))
  /\ heap' = HeapAfter(desk, desk')
  /\ g_menu_open' = FALSE
  /\ g_prev_mouse_left' = seen.left
  /\ update' = "idle"
  /\ seen' = [pos |-> Middle, left |-> FALSE]
  /\ UNCHANGED packets

wm_click_start ==
  /\ update = "copied" /\ OnStart(ClickAt) /\ (g_menu_open => ~OnMenu(ClickAt))
  /\ mouse_consume_click
  /\ g_menu_open' = ~g_menu_open
  /\ g_prev_mouse_left' = seen.left
  /\ update' = "idle"
  /\ seen' = [pos |-> Middle, left |-> FALSE]
  /\ UNCHANGED <<desk, heap, packets>>

wm_click_window ==
  /\ update = "copied" /\ ~OnStart(ClickAt) /\ (g_menu_open => ~OnMenu(ClickAt))
  /\ mouse_consume_click
  /\ desk' = Clicked(desk, ClickAt)
  /\ g_menu_open' = FALSE
  /\ g_prev_mouse_left' = seen.left
  /\ update' = "keys"
  /\ seen' = [pos |-> Middle, left |-> FALSE]
  /\ UNCHANGED <<heap, packets>>

\* No click: the active window follows the pointer, or is let go.
wm_drag ==
  /\ update = "copied" /\ ~clicked
  /\ desk' = IF desk.active = 0 \/ ~g_prev_mouse_left THEN desk
             ELSE IF ~seen.left
               THEN [desk EXCEPT !.windows[desk.active] =
                       [@ EXCEPT !.is_dragging = FALSE, !.grip = <<0, 0>>]]
             ELSE IF desk.windows[desk.active].is_dragging
               THEN [desk EXCEPT !.windows[desk.active] = Dragged(@, seen.pos)]
             ELSE desk
  /\ g_prev_mouse_left' = seen.left
  /\ update' = "keys"
  /\ seen' = [pos |-> Middle, left |-> FALSE]
  /\ UNCHANGED <<heap, g_menu_open, g_mouse_state, program, hWnd, press, stale, packets>>

\* No key, or a key of the terminal's line (module Shell), or Escape.
wm_key(escape) ==
  /\ update = "keys"
  /\ g_menu_open' = (g_menu_open /\ ~escape)
  /\ update' = "idle"
  /\ UNCHANGED <<desk, heap, g_prev_mouse_left, g_mouse_state, seen, program, hWnd, press, stale, packets>>

TerminalHasFocus == desk.term # 0 /\ desk.active = desk.term /\ desk.windows[desk.term].id # 0

\* Enter in the terminal, with a command that runs a Win32 program.
wm_key_run ==
  /\ update = "keys" /\ TerminalHasFocus /\ ~program
  /\ program' = TRUE
  /\ hWnd' = [slot |-> 0, id |-> 0]
  /\ update' = "idle"
  /\ UNCHANGED <<desk, heap, g_menu_open, g_prev_mouse_left, g_mouse_state, seen, press, stale, packets>>

\* Enter in the terminal, with gui: wm_init, wm_start and a run loop inside the
\* running one, which nothing ends, so a program below it does not go on.
cmd_gui ==
  /\ update = "keys" /\ TerminalHasFocus
  /\ desk' = Open(EmptyDesk, Terminal)
  /\ heap' = HeapAfter(EmptyDesk, desk')
  /\ g_menu_open' = FALSE
  /\ g_prev_mouse_left' = FALSE
  /\ g_mouse_state' = [pos |-> Middle, left |-> FALSE, left_clicked |-> FALSE, click |-> Middle]
  /\ press' = [acted |-> 0, raced |-> FALSE]
  /\ program' = FALSE
  /\ hWnd' = [slot |-> 0, id |-> 0]
  /\ update' = "idle"
  /\ stale' = FALSE
  /\ UNCHANGED <<seen, packets>>

----------------------------------------------------------------------------
(* A Win32 program: a window handle is the address of a slot.              *)

Calls == program /\ update = "idle"

u32_CreateWindowExA ==
  /\ Calls /\ hWnd.slot = 0 /\ desk.next_id <= LastWindow
  /\ desk' = wm_create_window(desk, Default, heap < Buffers)
  /\ heap' = HeapAfter(desk, desk')
  /\ hWnd' = IF desk' = desk THEN hWnd ELSE [slot |-> desk'.active, id |-> desk.next_id]
  /\ UNCHANGED <<g_menu_open, g_prev_mouse_left, g_mouse_state, seen, update, program, press, stale, packets>>

u32_ShowWindow ==
  /\ Calls /\ hWnd.slot # 0
  /\ desk' = wm_focus_window(desk, desk.windows[hWnd.slot].id)
  /\ stale' = (stale \/ desk.windows[hWnd.slot].id = 0)
  /\ UNCHANGED <<heap, g_menu_open, g_prev_mouse_left, g_mouse_state, seen, update, program, hWnd,
                 press, packets>>

u32_MessageBoxA ==
  /\ Calls /\ desk.next_id <= LastWindow
  /\ desk' = wm_create_window(desk, Popup, heap < Buffers)
  /\ heap' = HeapAfter(desk, desk')
  /\ UNCHANGED <<g_menu_open, g_prev_mouse_left, g_mouse_state, seen, update, program, hWnd, press,
                 stale, packets>>

\* ExitProcess, or the return from the program: its windows stay.
ProgramEnds ==
  /\ Calls
  /\ program' = FALSE
  /\ hWnd' = [slot |-> 0, id |-> 0]
  /\ UNCHANGED <<desk, heap, g_menu_open, g_prev_mouse_left, g_mouse_state, seen, update, press,
                 stale, packets>>

----------------------------------------------------------------------------
\* wm_start has opened the terminal.
DesktopInit ==
  /\ heap = 0
  /\ desk = Open(EmptyDesk, Terminal)
  /\ g_menu_open = FALSE /\ g_prev_mouse_left = FALSE
  /\ g_mouse_state = [pos |-> Middle, left |-> FALSE, left_clicked |-> FALSE, click |-> Middle]
  /\ seen = [pos |-> Middle, left |-> FALSE]
  /\ update = "idle" /\ program = FALSE /\ hWnd = [slot |-> 0, id |-> 0]
  /\ press = [acted |-> 0, raced |-> FALSE] /\ stale = FALSE /\ packets = 0

UpdateStep ==
  wm_click_menu \/ wm_click_start \/ wm_click_window \/ wm_drag \/ (\E e \in BOOLEAN : wm_key(e))

DesktopNext ==
  \/ \E p \in Point : mouse_press(p) \/ mouse_drag(p)
  \/ mouse_release
  \/ wm_run_loop \/ u32_GetMessageA
  \/ wm_click_menu \/ wm_click_start \/ wm_click_window \/ wm_drag
  \/ \E e \in BOOLEAN : wm_key(e)
  \/ wm_key_run \/ cmd_gui
  \/ u32_CreateWindowExA \/ u32_ShowWindow \/ u32_MessageBoxA \/ ProgramEnds

DesktopFairness == WF_desktopVars(wm_run_loop) /\ WF_desktopVars(UpdateStep)

DesktopSpec == DesktopInit /\ [][DesktopNext]_desktopVars /\ DesktopFairness

----------------------------------------------------------------------------
Titles == {p.title : p \in Place} \cup {Untitled}

Window == [id : Nat, title : Titles, x : (-ScreenWidth)..ScreenWidth,
           y : (-ScreenHeight)..ScreenHeight, width : 0..ScreenWidth, height : 0..ScreenHeight,
           movable : BOOLEAN, buffer : BOOLEAN, is_active : BOOLEAN, is_dragging : BOOLEAN,
           grip : (0..(ScreenWidth - 1)) \X (0..27)]

\* The window table counts what it holds (wm_create_window, wm_destroy_window):
\* ids are those of one window each, a grip is a point of the title bar, and a
\* program's handle is its own window until that window is closed.
WindowTable ==
  LET d == desk IN
  /\ \A s \in Slot : d.windows[s] \in Window
  /\ d.count = Cardinality(Used(d))
  /\ \A s, t \in Used(d) : d.windows[s].id = d.windows[t].id => s = t
  /\ \A s \in Used(d) : d.windows[s].id < d.next_id
  /\ hWnd.slot # 0 =>
       \A s \in Used(d) : d.windows[s].id = hWnd.id => s = hWnd.slot

\* Focus (wm_focus_window and its callers): at most one window is active, the
\* one that g_active_window names.  Unless a program has shown a window that
\* the user closed, keys have somewhere to go whenever a window is open, and
\* the terminal's line is drawn in the terminal's window.
FocusCoherent ==
  LET d == desk IN
  /\ \A s \in Used(d) : d.windows[s].is_active <=> d.active = s
  /\ ~stale =>
       /\ d.active \in Used(d) \cup {0} /\ (d.active = 0 <=> Used(d) = {})
       /\ d.term # 0 => d.term \in Used(d) /\ d.windows[d.term].title = "terminal"
       /\ \A s \in Used(d) :
            d.windows[s].title = "terminal" /\ d.windows[s].buffer => d.term = s

\* wm_update acts once on a press of the button, for every order of presses,
\* releases and updates, except on one that arrives between its copy of the
\* mouse state and its taking of the latched click: that one it acts on again.
PressActsOnce == press.acted > 1 => press.raced

\* However windows are dragged, some of each title bar stays on the screen,
\* below the task bar, where the pointer can take it again (wm.cpp, dragging).
TitlesReachable ==
  \A s \in Used(desk) :
    LET w == desk.windows[s] IN
    w.x + w.width > 0 /\ w.x < ScreenWidth /\ Within(w.y, 32, ScreenHeight - 1)

\* A latched click is taken: only a program that runs and asks for no messages
\* can leave it unanswered.
ClickTaken ==
  g_mouse_state.left_clicked ~> (~g_mouse_state.left_clicked \/ program)

\* Windows, focus and clicks of wm.cpp stay coherent while the user and a program
\* open, show, drag and close windows and interrupts fall between the steps.
WindowsCoherent == WindowTable /\ FocusCoherent /\ PressActsOnce /\ TitlesReachable

============================================================================
