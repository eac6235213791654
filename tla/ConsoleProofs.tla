---------------------------- MODULE ConsoleProofs ----------------------------
(***************************************************************************)
(* Proofs about the desktop, the shell and the input devices.  Windows,    *)
(* focus and clicks stay coherent for any number of windows, any points the *)
(* pointer visits, and any order of interrupts, updates and calls of       *)
(* programs; the lines, the history, the words and the screen agree with   *)
(* what was typed; the drivers report what was done with keys and mouse.   *)
(*                                                                         *)
(* The desktop's argument is about a window table d as a value: creating,  *)
(* focusing, changing and closing a window each keep it (Keeps), and every *)
(* action is a composition of those, or leaves the table alone.  The       *)
(* shell's is about a buffer and what is shown of it as values, and about  *)
(* what tokenize has found of a text after its first i characters.  The    *)
(* devices' is about the states the bytes in the port will lead the drivers *)
(* through: a handler takes the first of them away, a device adds to them. *)
(***************************************************************************)
EXTENDS Desktop, Shell, Input, FiniteSetTheorems, NaturalsInduction, SequenceTheorems,
        WellFoundedInduction, TLAPS

-----------------------------------------------------------------------------
(* Lowest and highest numbers of a set.                                    *)

\* The least of some numbers is one of them and below the others.
LEMMA MinOf ==
  ASSUME NEW S \in SUBSET Nat, S # {}
  PROVE  Min(S) \in S /\ \A y \in S : Min(S) <= y
<1>. DEFINE R == {ss \in Nat \X Nat : ss[1] < ss[2]}
<1>1. IsWellFoundedOn(R, Nat)
  BY NatLessThanWellFounded, Zenon DEF OpToRel
<1>2. PICK x \in S : \A y \in S : <<y, x>> \notin R
  <2>. HIDE DEF R
  <2>. QED
    BY <1>1, WFMin
<1>3. \A y \in S : x =< y
  <2>. TAKE y \in S
  <2>1. <<y, x>> \in Nat \X Nat /\ ~(y < x)
    BY <1>2
  <2>. QED
    BY <2>1
<1>. QED
  BY <1>3 DEF Min

\* The greatest of some bounded numbers is one of them and above the others.
LEMMA MaxOf ==
  ASSUME NEW n \in Nat, NEW S \in SUBSET (0..n), S # {}
  PROVE  Max(S) \in S /\ \A y \in S : Max(S) >= y
<1>. DEFINE T == {n - y : y \in S}
<1>0. \A y \in S : y \in Nat /\ n - y \in Nat /\ n - y \in T
  OBVIOUS
<1>1. T \in SUBSET Nat /\ T # {}
  BY <1>0
<1>2. Min(T) \in T /\ \A z \in T : Min(T) <= z
  <2>. HIDE DEF T
  <2>. QED
    BY <1>1, MinOf
<1>3. PICK x \in S : Min(T) = n - x
  BY <1>2
<1>4. \A y \in S : x >= y
  <2>. TAKE y \in S
  <2>1. x \in Nat /\ y \in Nat /\ n - x <= n - y
    BY <1>0, <1>2, <1>3
  <2>. QED
    BY <2>1
<1>. QED
  BY <1>4 DEF Max

\* There are as many slots as windows, numbered from 1.
LEMMA SlotsAre ==
  /\ MAX_WINDOWS \in Nat \ {0} /\ Slot \subseteq Nat /\ Slot \subseteq 0..MAX_WINDOWS /\ 0 \notin Slot
  /\ IsFiniteSet(Slot) /\ Cardinality(Slot) = MAX_WINDOWS
BY DesktopAssumption, FS_Interval DEF Slot

\* The lowest and the highest of some slots.
LEMMA SlotOf ==
  ASSUME NEW S \in SUBSET Slot, S # {}
  PROVE  Min(S) \in S /\ Max(S) \in S
<1>1. S \in SUBSET Nat /\ S \in SUBSET (0..MAX_WINDOWS) /\ MAX_WINDOWS \in Nat
  BY SlotsAre
<1>. QED
  BY <1>1, MinOf, MaxOf

-----------------------------------------------------------------------------
(* The window table as a value.                                            *)

Desk ==
  [windows : [Slot -> Window], count : Nat, next_id : Nat, active : Slot \cup {0},
   term : Slot \cup {0}]

\* Some of the title bar is on the screen, and a grip is within the window.
Placed(w) ==
  /\ w.width > 0 /\ w.x + w.width > 0 /\ w.x < ScreenWidth /\ w.y >= 32 /\ w.y < ScreenHeight
  /\ w.grip[1] < w.width

Table(d) ==
  /\ d \in Desk /\ d.next_id > 0
  /\ d.count = Cardinality(Used(d))
  /\ \A s, t \in Used(d) : d.windows[s].id = d.windows[t].id => s = t
  /\ \A s \in Used(d) : d.windows[s].id < d.next_id /\ Placed(d.windows[s])
  /\ \A s \in Free(d) : ~d.windows[s].is_dragging
  /\ \A s \in Used(d) : d.windows[s].is_active <=> d.active = s

\* Keys have somewhere to go, and there is one terminal.
HasFocus(d) ==
  /\ d.active \in Used(d) \cup {0} /\ (d.active = 0 <=> Used(d) = {})
  /\ d.term # 0 => d.term \in Used(d) /\ d.windows[d.term].title = "terminal"
  /\ \A s \in Used(d) : d.windows[s].title = "terminal" /\ d.windows[s].buffer => d.term = s
  /\ \A s, t \in Used(d) :
       d.windows[s].title = "terminal" /\ d.windows[t].title = "terminal" => s = t

\* From d to e no number is given twice.
Later(d, e) ==
  /\ d.next_id <= e.next_id
  /\ \A s \in Used(e) : \/ s \in Used(d) /\ e.windows[s].id = d.windows[s].id
                        \/ e.windows[s].id >= d.next_id

Keeps(d, e) == Table(e) /\ (HasFocus(d) => HasFocus(e)) /\ Later(d, e)

\* A window that differs from w in whether it is active only.
Like(w, v) ==
  /\ v \in Window
  /\ v.id = w.id /\ v.title = w.title /\ v.x = w.x /\ v.y = w.y /\ v.width = w.width
  /\ v.height = w.height /\ v.movable = w.movable /\ v.buffer = w.buffer
  /\ v.is_dragging = w.is_dragging /\ v.grip = w.grip

\* What a desk has in its fields.
LEMMA DeskFields ==
  ASSUME NEW d \in Desk
  PROVE  /\ \A s \in Slot : d.windows[s] \in Window /\ d.windows[s].id \in Nat
         /\ d.windows \in [Slot -> Window]
         /\ d.count \in Nat /\ d.next_id \in Nat /\ d.active \in Slot \cup {0}
         /\ d.term \in Slot \cup {0}
BY DEF Desk, Window

\* A slot is used or free.
LEMMA UsedFree ==
  ASSUME NEW d
  PROVE  /\ Used(d) \subseteq Slot /\ Free(d) \subseteq Slot
         /\ \A s \in Slot : (s \in Used(d) <=> d.windows[s].id # 0) /\ (s \in Free(d) <=> s \notin Used(d))
BY DEF Used, Free

\* A desk goes on from itself.
LEMMA LaterSame ==
  ASSUME NEW d, Table(d) PROVE Later(d, d) /\ Keeps(d, d)
<1>1. d.next_id <= d.next_id
  BY DeskFields DEF Table
<1>. QED
  BY <1>1 DEF Later, Keeps

\* What goes on from a desk goes on from those before it.
LEMMA LaterTwice ==
  ASSUME NEW d, NEW e, NEW f, Table(d), Table(e), Table(f), Later(d, e), Later(e, f)
  PROVE  Later(d, f)
<1>1. d.next_id \in Nat /\ e.next_id \in Nat /\ f.next_id \in Nat
  BY DeskFields DEF Table
<1>2. d.next_id <= f.next_id
  BY <1>1 DEF Later
<1>3. ASSUME NEW s \in Used(f)
      PROVE  (s \in Used(d) /\ f.windows[s].id = d.windows[s].id) \/ f.windows[s].id >= d.next_id
  <2>1. f.windows[s].id \in Nat
    BY UsedFree, DeskFields DEF Table
  <2>2. CASE s \in Used(e) /\ f.windows[s].id = e.windows[s].id
    BY <2>2 DEF Later
  <2>3. CASE f.windows[s].id >= e.next_id
    BY <1>1, <2>1, <2>3 DEF Later
  <2>. QED
    BY <2>2, <2>3 DEF Later
<1>. QED
  BY <1>2, <1>3 DEF Later

\* What two calls keep, both in turn keep.
LEMMA KeepsTwice ==
  ASSUME NEW d, NEW e, NEW f, Table(d), Keeps(d, e), Keeps(e, f)
  PROVE  Keeps(d, f)
BY LaterTwice DEF Keeps

\* Which windows are active may change.
LEMMA Relabel ==
  ASSUME NEW d, Table(d), NEW e \in Desk, e.count = d.count, e.next_id = d.next_id,
         \A s \in Slot : Like(d.windows[s], e.windows[s]),
         \A s \in Used(d) : e.windows[s].is_active <=> e.active = s
  PROVE  Table(e) /\ Used(e) = Used(d) /\ Free(e) = Free(d) /\ Later(d, e)
<1>1. Used(e) = Used(d) /\ Free(e) = Free(d)
  BY DEF Used, Free, Like
<1>2. \A s \in Slot : Placed(d.windows[s]) => Placed(e.windows[s])
  BY DEF Like, Placed
<1>3. d.next_id <= e.next_id
  BY DeskFields DEF Table
<1>4. \A s \in Slot : /\ e.windows[s].id = d.windows[s].id
                      /\ e.windows[s].is_dragging = d.windows[s].is_dragging
  BY DEF Like
<1>5. Used(d) \subseteq Slot /\ Free(d) \subseteq Slot
  BY UsedFree
<1>6. Table(e)
  BY <1>1, <1>2, <1>4, <1>5 DEF Table
<1>7. Later(d, e)
  BY <1>1, <1>3, <1>4, <1>5 DEF Later
<1>. QED
  BY <1>1, <1>6, <1>7



-----------------------------------------------------------------------------
(* wm_focus_window.                                                        *)

Lit(w, b) == [w EXCEPT !.is_active = b]

\* Giving a window the focus changes nothing else of it.
LEMMA LitLike ==
  ASSUME NEW w \in Window, NEW b \in BOOLEAN
  PROVE  Like(w, Lit(w, b)) /\ (Lit(w, b).is_active <=> b) /\ Like(w, w)
BY DEF Like, Lit, Window

\* The table wm_focus_window leaves, field by field.
FocusedAs(d, e, same, terms) ==
  /\ e.windows = [s \in Slot |-> IF s \in same THEN Lit(d.windows[s], TRUE)
                                 ELSE IF d.windows[s].id # 0 THEN Lit(d.windows[s], FALSE)
                                 ELSE d.windows[s]]
  /\ e.active = (IF same = {} THEN 0 ELSE Max(same))
  /\ e.term = (IF terms = {} THEN d.term ELSE Max(terms))
  /\ e.count = d.count /\ e.next_id = d.next_id
  /\ e = [windows |-> e.windows, count |-> e.count, next_id |-> e.next_id, active |-> e.active,
          term |-> e.term]

SlotsOf(d, id) == {s \in Slot : d.windows[s].id = id}

TerminalsIn(d, S) == {s \in S : d.windows[s].title = "terminal"}

\* What wm_focus_window changes.
LEMMA FocusFields ==
  ASSUME NEW d \in Desk, NEW id
  PROVE  FocusedAs(d, wm_focus_window(d, id), SlotsOf(d, id), TerminalsIn(d, SlotsOf(d, id)))
<1>. DEFINE e == wm_focus_window(d, id)
<1>. DEFINE same == SlotsOf(d, id)
<1>. DEFINE terms == TerminalsIn(d, same)
<1>. DEFINE W == [s \in Slot |-> IF s \in same THEN Lit(d.windows[s], TRUE)
                                 ELSE IF d.windows[s].id # 0 THEN Lit(d.windows[s], FALSE)
                                 ELSE d.windows[s]]
<1>1. e = [d EXCEPT !.windows = W, !.active = IF same = {} THEN 0 ELSE Max(same),
                    !.term = IF terms = {} THEN d.term ELSE Max(terms)]
  BY DEF wm_focus_window, SlotsOf, TerminalsIn, Lit
<1>. HIDE DEF W, same, terms, e
<1>2. /\ e.windows = W /\ e.active = (IF same = {} THEN 0 ELSE Max(same))
      /\ e.term = (IF terms = {} THEN d.term ELSE Max(terms))
      /\ e.count = d.count /\ e.next_id = d.next_id
      /\ e = [windows |-> e.windows, count |-> e.count, next_id |-> e.next_id,
              active |-> e.active, term |-> e.term]
  BY <1>1 DEF Desk
<1>3. FocusedAs(d, e, same, terms)
  BY <1>2 DEF FocusedAs, W
<1>. QED
  BY <1>3 DEF e, same, terms

\* wm_focus_window keeps the table, and some window has the focus after it.
LEMMA FocusKeeps ==
  ASSUME NEW d, Table(d), NEW id
  PROVE  LET e == wm_focus_window(d, id) IN
         /\ Table(e) /\ Used(e) = Used(d) /\ Later(d, e)
         /\ \A s \in Slot : Like(d.windows[s], e.windows[s])
         /\ \A s \in Used(d) : d.windows[s].id = id => e.active = s
         /\ (HasFocus(d) /\ \E s \in Used(d) : d.windows[s].id = id) => HasFocus(e)
<1>. DEFINE e == wm_focus_window(d, id)
<1>. DEFINE same == SlotsOf(d, id)
<1>. DEFINE terms == TerminalsIn(d, same)
<1>1. d \in Desk
  BY DEF Table
<1>2. FocusedAs(d, e, same, terms)
  BY <1>1, FocusFields
<1>3. same \in SUBSET Slot /\ terms \in SUBSET same
  BY DEF SlotsOf, TerminalsIn
<1>4. /\ \A s \in Slot : s \in same <=> d.windows[s].id = id
      /\ \A s \in same : s \in terms <=> d.windows[s].title = "terminal"
  BY DEF SlotsOf, TerminalsIn
<1>. HIDE DEF e, same, terms
<1>5. \A s \in Slot : Like(d.windows[s], e.windows[s])
  <2>. TAKE s \in Slot
  <2>1. d.windows[s] \in Window
    BY <1>1, DeskFields
  <2>2. e.windows[s] \in {d.windows[s], Lit(d.windows[s], TRUE), Lit(d.windows[s], FALSE)}
    BY <1>2 DEF FocusedAs
  <2>3. TRUE \in BOOLEAN /\ FALSE \in BOOLEAN
    OBVIOUS
  <2>. QED
    BY <2>1, <2>2, <2>3, LitLike
<1>6. e.active \in same \cup {0} /\ (e.active = 0 => same = {})
  BY <1>2, <1>3, SlotOf, SlotsAre DEF FocusedAs
<1>7. (e.term = d.term /\ terms = {}) \/ e.term \in terms
  BY <1>2, <1>3, SlotOf DEF FocusedAs
<1>8. e \in Desk
  <2>1. e.windows \in [Slot -> Window]
    <3>1. \A s \in Slot : e.windows[s] \in Window
      BY <1>5 DEF Like
    <3>2. e.windows = [s \in Slot |-> e.windows[s]]
      BY <1>2 DEF FocusedAs
    <3>. QED
      BY <3>1, <3>2
  <2>2. e.active \in Slot \cup {0} /\ e.term \in Slot \cup {0}
    BY <1>1, <1>3, <1>6, <1>7, DeskFields
  <2>. QED
    BY <1>1, <1>2, <2>1, <2>2, DeskFields DEF FocusedAs, Desk
<1>9. \A s \in Used(d) : s \in same => same = {s}
  <2>. TAKE s \in Used(d)
  <2>1. \A t \in Slot : t \in same /\ s \in same => t = s
    BY <1>4, UsedFree DEF Table
  <2>. QED
    BY <1>3, <2>1
<1>10. \A s \in Used(d) : (s \in same <=> e.active = s) /\ (e.windows[s].is_active <=> s \in same)
  <2>. TAKE s \in Used(d)
  <2>0. s \in Slot /\ d.windows[s].id # 0 /\ s # 0
    BY UsedFree, SlotsAre
  <2>1. s \in same <=> e.active = s
    BY <1>6, <1>9, <2>0
  <2>2. d.windows[s] \in Window
    BY <1>1, <2>0, DeskFields
  <2>3. e.windows[s] = IF s \in same THEN Lit(d.windows[s], TRUE) ELSE Lit(d.windows[s], FALSE)
    BY <1>2, <2>0 DEF FocusedAs
  <2>4. (Lit(d.windows[s], TRUE).is_active <=> TRUE) /\ (Lit(d.windows[s], FALSE).is_active <=> FALSE)
    BY <2>2, LitLike, Zenon
  <2>. QED
    BY <2>1, <2>3, <2>4
<1>11. e.count = d.count /\ e.next_id = d.next_id
  BY <1>2 DEF FocusedAs
<1>12. Table(e) /\ Used(e) = Used(d) /\ Free(e) = Free(d) /\ Later(d, e)
  BY <1>5, <1>8, <1>10, <1>11, Relabel
<1>13. \A s \in Used(d) : d.windows[s].id = id => e.active = s
  BY <1>4, <1>10, UsedFree
<1>14. ASSUME HasFocus(d), NEW s \in Used(d), d.windows[s].id = id PROVE HasFocus(e)
  <2>0. s \in same /\ same = {s} /\ e.active = s /\ s # 0
    BY <1>4, <1>9, <1>13, <1>14, UsedFree, SlotsAre
  <2>1. e.active \in Used(e) \cup {0} /\ (e.active = 0 <=> Used(e) = {})
    BY <1>12, <1>14, <2>0
  <2>2. \A t \in Used(d) : e.windows[t].title = d.windows[t].title /\ e.windows[t].buffer = d.windows[t].buffer
    BY <1>5, UsedFree DEF Like
  <2>3. e.term = d.term \/ (e.term = s /\ d.windows[s].title = "terminal")
    BY <1>4, <1>7, <2>0, <1>3
  <2>4. e.term # 0 => e.term \in Used(e) /\ e.windows[e.term].title = "terminal"
    BY <1>12, <1>14, <2>2, <2>3 DEF HasFocus
  <2>5. \A t, u \in Used(e) :
          e.windows[t].title = "terminal" /\ e.windows[u].title = "terminal" => t = u
    BY <1>12, <1>14, <2>2 DEF HasFocus
  <2>6. \A t \in Used(e) : e.windows[t].title = "terminal" /\ e.windows[t].buffer => e.term = t
    BY <1>12, <1>14, <2>2, <2>3, <2>5 DEF HasFocus
  <2>. QED
    BY <2>1, <2>4, <2>5, <2>6 DEF HasFocus
<1>. QED
  BY <1>5, <1>12, <1>13, <1>14 DEF e



-----------------------------------------------------------------------------
(* wm_create_window.                                                       *)

Fresh(d, p, buffer) ==
  [id |-> d.next_id, title |-> p.title, x |-> p.x, y |-> p.y, width |-> p.width,
   height |-> p.height, movable |-> p.movable, buffer |-> buffer,
   is_active |-> TRUE, is_dragging |-> FALSE, grip |-> <<0, 0>>]

PlaceFits(p) ==
  /\ p.title \in Titles /\ p.movable \in BOOLEAN
  /\ p.x \in Nat /\ p.y \in Nat /\ p.width \in Nat /\ p.height \in Nat
  /\ p.x < ScreenWidth /\ p.y < ScreenHeight /\ p.width <= ScreenWidth /\ p.height <= ScreenHeight
  /\ p.width > 0 /\ p.y >= 32

\* The places windows are opened at lie on the screen.
LEMMA PlacesFit ==
  ASSUME NEW p \in Place
  PROVE  PlaceFits(p)
<1>1. p.title \in Titles
  BY DEF Titles
<1>2. CASE p = Terminal
  BY <1>1, <1>2 DEF PlaceFits, Terminal, ScreenWidth, ScreenHeight
<1>3. CASE p = Monitor
  BY <1>1, <1>3 DEF PlaceFits, Monitor, ScreenWidth, ScreenHeight
<1>4. CASE p = Win32App
  BY <1>1, <1>4 DEF PlaceFits, Win32App, ScreenWidth, ScreenHeight
<1>5. CASE p = Default
  BY <1>1, <1>5 DEF PlaceFits, Default, ScreenWidth, ScreenHeight
<1>6. CASE p = Popup
  BY <1>1, <1>6 DEF PlaceFits, Popup, ScreenWidth, ScreenHeight
<1>. QED
  BY <1>2, <1>3, <1>4, <1>5, <1>6 DEF Place

\* The screen is large enough for every window.
LEMMA ScreenIs ==
  /\ ScreenWidth \in Nat /\ ScreenHeight \in Nat /\ ScreenWidth > 1000 /\ ScreenHeight > 1000
BY DEF ScreenWidth, ScreenHeight

\* A new window is one whose title bar is within reach.
LEMMA FreshFits ==
  ASSUME NEW d \in Desk, NEW p \in Place, NEW buffer \in BOOLEAN
  PROVE  Fresh(d, p, buffer) \in Window /\ Placed(Fresh(d, p, buffer))
<1>1. PlaceFits(p) /\ d.next_id \in Nat
  BY PlacesFit, DeskFields
<1>2. /\ p.x \in (-ScreenWidth)..ScreenWidth /\ p.y \in (-ScreenHeight)..ScreenHeight
      /\ p.width \in 0..ScreenWidth /\ p.height \in 0..ScreenHeight
      /\ 0 \in 0..(ScreenWidth - 1) /\ 0 \in 0..27 /\ p.x + p.width > 0
  BY <1>1, ScreenIs DEF PlaceFits
<1>3. <<0, 0>> \in (0..(ScreenWidth - 1)) \X (0..27)
  BY <1>2
<1>4. Fresh(d, p, buffer) \in Window
  BY <1>1, <1>2, <1>3 DEF Fresh, Window, PlaceFits
<1>5. Placed(Fresh(d, p, buffer))
  BY <1>1, <1>2 DEF Fresh, Placed, PlaceFits
<1>. QED
  BY <1>4, <1>5

\* The table a window was made in, field by field.
MadeAs(d, e, s, p, buffer) ==
  /\ s \in Free(d)
  /\ e.windows = [t \in Slot |-> IF t = s THEN Fresh(d, p, buffer)
                                 ELSE IF d.windows[t].id # 0 THEN Lit(d.windows[t], FALSE)
                                 ELSE d.windows[t]]
  /\ e.count = d.count + 1 /\ e.next_id = d.next_id + 1 /\ e.active = s /\ e.term = d.term
  /\ e = [windows |-> e.windows, count |-> e.count, next_id |-> e.next_id, active |-> e.active,
          term |-> e.term]

\* wm_create_window fills the first free slot, or none if all are used.
LEMMA MadeFields ==
  ASSUME NEW d, Table(d), NEW p, NEW buffer
  PROVE  \/ wm_create_window(d, p, buffer) = d
         \/ MadeAs(d, wm_create_window(d, p, buffer), FirstSlot(d), p, buffer)
<1>. DEFINE e == wm_create_window(d, p, buffer)
<1>. DEFINE s == FirstSlot(d)
<1>. SUFFICES ASSUME ~(d.count >= MAX_WINDOWS) PROVE MadeAs(d, e, s, p, buffer)
  BY DEF wm_create_window
<1>0. d \in Desk
  BY DEF Table
<1>1. Free(d) # {}
  <2>. SUFFICES ASSUME Free(d) = {} PROVE FALSE
    OBVIOUS
  <2>1. Used(d) = Slot
    BY DEF Used
  <2>. QED
    BY <2>1, SlotsAre DEF Table
<1>2. s \in Free(d)
  BY <1>1, SlotOf, UsedFree DEF FirstSlot
<1>. DEFINE W == [t \in Slot |-> IF t = s THEN Fresh(d, p, buffer)
                                 ELSE IF d.windows[t].id # 0 THEN Lit(d.windows[t], FALSE)
                                 ELSE d.windows[t]]
<1>3. e = [d EXCEPT !.windows = W, !.next_id = @ + 1, !.count = @ + 1, !.active = s]
  BY DEF wm_create_window, Fresh, Lit
<1>. HIDE DEF W, s, e
<1>4. /\ e.windows = W /\ e.active = s /\ e.term = d.term
      /\ e.count = d.count + 1 /\ e.next_id = d.next_id + 1
      /\ e = [windows |-> e.windows, count |-> e.count, next_id |-> e.next_id,
              active |-> e.active, term |-> e.term]
  BY <1>0, <1>3 DEF Desk
<1>. QED
  BY <1>2, <1>4 DEF MadeAs, W

\* What the windows are after it.
LEMMA MadeWindows ==
  ASSUME NEW d, Table(d), NEW p \in Place, NEW buffer \in BOOLEAN, NEW e, NEW s,
         MadeAs(d, e, s, p, buffer)
  PROVE  /\ s \in Slot /\ s \notin Used(d) /\ e.windows[s] = Fresh(d, p, buffer)
         /\ Used(e) = Used(d) \cup {s} /\ Free(e) = Free(d) \ {s}
         /\ \A t \in Slot \ {s} : Like(d.windows[t], e.windows[t])
         /\ \A t \in Used(d) : t # s /\ ~e.windows[t].is_active
<1>0. d \in Desk /\ s \in Free(d) /\ d.next_id > 0
  BY DEF Table, MadeAs
<1>1. s \in Slot /\ s \notin Used(d) /\ e.windows[s] = Fresh(d, p, buffer)
  BY <1>0, UsedFree DEF MadeAs
<1>2. ASSUME NEW t \in Slot \ {s} PROVE Like(d.windows[t], e.windows[t])
  <2>1. d.windows[t] \in Window /\ FALSE \in BOOLEAN
    BY <1>0, DeskFields
  <2>2. e.windows[t] \in {d.windows[t], Lit(d.windows[t], FALSE)}
    BY DEF MadeAs
  <2>. QED
    BY <2>1, <2>2, LitLike
<1>3. ASSUME NEW t \in Used(d) PROVE t # s /\ ~e.windows[t].is_active
  <2>1. t \in Slot /\ t # s /\ d.windows[t].id # 0
    BY <1>1, UsedFree
  <2>2. d.windows[t] \in Window /\ e.windows[t] = Lit(d.windows[t], FALSE)
    BY <1>0, <2>1, DeskFields DEF MadeAs
  <2>. QED
    BY <2>1, <2>2 DEF Lit, Window
<1>4. \A t \in Slot \ {s} : e.windows[t].id = d.windows[t].id
  BY <1>2 DEF Like
<1>5. e.windows[s].id # 0
  BY <1>0, <1>1, DeskFields DEF Fresh
<1>6. Used(e) = Used(d) \cup {s} /\ Free(e) = Free(d) \ {s}
  BY <1>1, <1>4, <1>5 DEF Used, Free
<1>. QED
  BY <1>1, <1>2, <1>3, <1>6

\* Its table is one, with the next number given.
LEMMA CreateKeeps ==
  ASSUME NEW d, Table(d), NEW p \in Place, NEW buffer \in BOOLEAN, NEW e, NEW s,
         MadeAs(d, e, s, p, buffer)
  PROVE  Table(e) /\ Later(d, e)
<1>0. d \in Desk /\ d.next_id \in Nat /\ d.count \in Nat /\ d.next_id > 0
  BY DeskFields DEF Table
<1>1. /\ s \in Slot /\ s \notin Used(d) /\ e.windows[s] = Fresh(d, p, buffer)
      /\ Used(e) = Used(d) \cup {s} /\ Free(e) = Free(d) \ {s}
      /\ \A t \in Slot \ {s} : Like(d.windows[t], e.windows[t])
      /\ \A t \in Used(d) : t # s /\ ~e.windows[t].is_active
  BY MadeWindows
<1>2. /\ e.count = d.count + 1 /\ e.next_id = d.next_id + 1 /\ e.active = s /\ e.term = d.term
      /\ e = [windows |-> e.windows, count |-> e.count, next_id |-> e.next_id,
              active |-> e.active, term |-> e.term]
  BY DEF MadeAs
<1>3. e.windows[s] \in Window /\ Placed(e.windows[s])
  BY <1>0, <1>1, FreshFits
<1>4. e.windows[s].id = d.next_id /\ e.windows[s].is_active
  BY <1>1 DEF Fresh
<1>5. \A t \in Slot \ {s} :
        /\ e.windows[t] \in Window /\ e.windows[t].id = d.windows[t].id
        /\ e.windows[t].is_dragging = d.windows[t].is_dragging
        /\ (Placed(d.windows[t]) => Placed(e.windows[t]))
  BY <1>1 DEF Like, Placed
<1>6. Used(d) \subseteq Slot /\ Free(d) \subseteq Slot
  BY UsedFree
<1>7. e \in Desk
  <2>1. e.windows \in [Slot -> Window]
    <3>1. \A t \in Slot : e.windows[t] \in Window
      BY <1>3, <1>5
    <3>2. e.windows = [t \in Slot |-> e.windows[t]]
      BY DEF MadeAs
    <3>. QED
      BY <3>1, <3>2
  <2>2. e.count \in Nat /\ e.next_id \in Nat /\ e.active \in Slot \cup {0} /\ e.term \in Slot \cup {0}
    BY <1>0, <1>1, <1>2, DeskFields
  <2>. QED
    BY <1>2, <2>1, <2>2 DEF Desk
<1>8. e.count = Cardinality(Used(e))
  <2>1. IsFiniteSet(Used(d))
    BY <1>6, SlotsAre, FS_Subset
  <2>2. Cardinality(Used(d) \cup {s}) = Cardinality(Used(d)) + 1
    BY <1>1, <2>1, FS_AddElement
  <2>. QED
    BY <1>1, <1>2, <2>2 DEF Table
<1>9. \A t \in Used(d) : e.windows[t].id = d.windows[t].id /\ e.windows[t].id < d.next_id
                         /\ e.windows[t].id \in Nat
  BY <1>0, <1>1, <1>5, <1>6, DeskFields DEF Table
<1>10. \A t, u \in Used(e) : e.windows[t].id = e.windows[u].id => t = u
  <2>. TAKE t, u \in Used(e)
  <2>1. CASE t \in Used(d) /\ u \in Used(d)
    BY <1>9, <2>1 DEF Table
  <2>2. CASE t = s \/ u = s
    BY <1>0, <1>1, <1>4, <1>9, <2>2
  <2>. QED
    BY <1>1, <2>1, <2>2
<1>11. \A t \in Used(e) : e.windows[t].id < e.next_id /\ Placed(e.windows[t])
  <2>. TAKE t \in Used(e)
  <2>1. CASE t \in Used(d)
    BY <1>0, <1>1, <1>2, <1>5, <1>6, <1>9, <2>1 DEF Table
  <2>2. CASE t = s
    BY <1>0, <1>2, <1>3, <1>4, <2>2
  <2>. QED
    BY <1>1, <2>1, <2>2
<1>12. \A t \in Free(e) : ~e.windows[t].is_dragging
  BY <1>1, <1>5, <1>6 DEF Table
<1>13. \A t \in Used(e) : e.windows[t].is_active <=> e.active = t
  BY <1>1, <1>2, <1>4
<1>14. Table(e)
  <2>1. e.next_id > 0
    BY <1>0, <1>2
  <2>. QED
    BY <1>7, <1>8, <1>10, <1>11, <1>12, <1>13, <2>1 DEF Table
<1>15. Later(d, e)
  <2>1. d.next_id <= e.next_id /\ e.windows[s].id >= d.next_id
    BY <1>0, <1>2, <1>4
  <2>. QED
    BY <1>1, <1>9, <2>1 DEF Later
<1>. QED
  BY <1>14, <1>15



\* The terminal is the one place with its title.
LEMMA TerminalIs ==
  /\ Terminal \in Place /\ Terminal.title = "terminal"
  /\ \A p \in Place : p.title = "terminal" <=> p = Terminal
BY DEF Place, Terminal, Monitor, Win32App, Default, Popup

\* A window that is made and becomes active has the focus.
LEMMA MadeFocused ==
  ASSUME NEW d, Table(d), HasFocus(d), NEW p \in Place, NEW buffer \in BOOLEAN, NEW e, NEW s,
         MadeAs(d, e, s, p, buffer),
         p.title = "terminal" => \A t \in Used(d) : d.windows[t].title # "terminal",
         NEW f, f.windows = e.windows, f.active = e.active,
         f.term = IF p.title = "terminal" /\ buffer THEN s ELSE e.term
  PROVE  HasFocus(f)
<1>1. /\ s \in Slot /\ s \notin Used(d) /\ e.windows[s] = Fresh(d, p, buffer)
      /\ Used(e) = Used(d) \cup {s}
      /\ \A t \in Slot \ {s} : Like(d.windows[t], e.windows[t])
  BY MadeWindows
<1>2. f.active = s /\ e.term = d.term /\ s # 0
  BY <1>1, SlotsAre DEF MadeAs
<1>3. Used(f) = Used(d) \cup {s}
  BY <1>1 DEF Used, Free
<1>4. \A t \in Used(d) : /\ t # s /\ f.windows[t].title = d.windows[t].title
                         /\ f.windows[t].buffer = d.windows[t].buffer
  BY <1>1, UsedFree DEF Like
<1>5. f.windows[s].title = p.title /\ f.windows[s].buffer = buffer
  BY <1>1 DEF Fresh
<1>6. f.active \in Used(f) \cup {0} /\ (f.active = 0 <=> Used(f) = {})
  BY <1>2, <1>3
<1>7. \A t, u \in Used(f) : f.windows[t].title = "terminal" /\ f.windows[u].title = "terminal" => t = u
  BY <1>3, <1>4, <1>5 DEF HasFocus
<1>8. d.term # 0 => p.title # "terminal"
  BY DEF HasFocus
<1>9. f.term # 0 => f.term \in Used(f) /\ f.windows[f.term].title = "terminal"
  <2>1. CASE p.title = "terminal" /\ buffer
    BY <1>3, <1>5, <2>1
  <2>2. CASE ~(p.title = "terminal" /\ buffer)
    BY <1>2, <1>3, <1>4, <2>2 DEF HasFocus
  <2>. QED
    BY <2>1, <2>2
<1>10. ASSUME NEW t \in Used(f), f.windows[t].title = "terminal", f.windows[t].buffer
       PROVE  f.term = t
  <2>1. CASE t = s
    BY <1>5, <1>10, <2>1
  <2>2. CASE t # s
    <3>1. t \in Used(d) /\ d.windows[t].title = "terminal" /\ d.windows[t].buffer
      BY <1>3, <1>4, <1>10, <2>2
    <3>. QED
      BY <1>2, <3>1 DEF HasFocus
  <2>. QED
    BY <2>1, <2>2
<1>. QED
  BY <1>6, <1>7, <1>9, <1>10 DEF HasFocus

\* The terminal's window is named again.
LEMMA Renamed ==
  ASSUME NEW e, Table(e), NEW t \in Slot, NEW f, f = [e EXCEPT !.term = t]
  PROVE  /\ Table(f) /\ Later(e, f) /\ Used(f) = Used(e)
         /\ f.windows = e.windows /\ f.active = e.active /\ f.next_id = e.next_id /\ f.term = t
<1>1. e \in Desk
  BY DEF Table
<1>2. /\ f.windows = e.windows /\ f.active = e.active /\ f.next_id = e.next_id /\ f.term = t
      /\ f.count = e.count /\ f \in Desk
  BY <1>1 DEF Desk
<1>3. Used(f) = Used(e) /\ Free(f) = Free(e)
  BY <1>2 DEF Used, Free
<1>4. Table(f)
  BY <1>2, <1>3 DEF Table
<1>5. f.next_id \in Nat
  BY <1>2 DEF Desk
<1>6. Later(e, f)
  BY <1>2, <1>3, <1>5 DEF Later
<1>. QED
  BY <1>2, <1>3, <1>4, <1>6

-----------------------------------------------------------------------------
(* Windows that change, and windows that close.                            *)

\* A window put back with the same number keeps the table and the focus.
LEMMA PutKeeps ==
  ASSUME NEW d, Table(d), NEW s \in Slot, NEW w \in Window,
         w.id = d.windows[s].id, w.title = d.windows[s].title, w.buffer = d.windows[s].buffer,
         w.is_active = d.windows[s].is_active,
         s \in Used(d) => Placed(w), s \in Free(d) => ~w.is_dragging,
         NEW e, e = [d EXCEPT !.windows[s] = w]
  PROVE  Keeps(d, e) /\ e.next_id = d.next_id /\ Used(e) = Used(d)
<1>0. d \in Desk /\ d.windows \in [Slot -> Window]
  BY DeskFields DEF Table
<1>1. /\ e.windows = [d.windows EXCEPT ![s] = w] /\ e.active = d.active /\ e.next_id = d.next_id
      /\ e.term = d.term /\ e.count = d.count
      /\ e = [windows |-> e.windows, count |-> e.count, next_id |-> e.next_id,
              active |-> e.active, term |-> e.term]
  BY <1>0 DEF Desk
<1>2. /\ e.windows[s] = w /\ \A t \in Slot : t # s => e.windows[t] = d.windows[t]
      /\ e.windows \in [Slot -> Window]
  BY <1>0, <1>1
<1>3. e \in Desk
  BY <1>0, <1>1, <1>2, DeskFields DEF Desk
<1>4. \A t \in Slot : /\ e.windows[t].id = d.windows[t].id
                      /\ e.windows[t].title = d.windows[t].title
                      /\ e.windows[t].buffer = d.windows[t].buffer
                      /\ e.windows[t].is_active = d.windows[t].is_active
  BY <1>2
<1>5. Used(e) = Used(d) /\ Free(e) = Free(d) /\ Used(d) \subseteq Slot /\ Free(d) \subseteq Slot
  BY <1>4 DEF Used, Free
<1>6. \A t \in Used(d) : Placed(e.windows[t])
  BY <1>2, <1>5 DEF Table
<1>7. \A t \in Free(d) : ~e.windows[t].is_dragging
  BY <1>2, <1>5 DEF Table
<1>8. Table(e)
  BY <1>1, <1>3, <1>4, <1>5, <1>6, <1>7 DEF Table
<1>9. HasFocus(d) => HasFocus(e)
  BY <1>1, <1>4, <1>5 DEF HasFocus
<1>10. d.next_id \in Nat /\ d.next_id <= e.next_id
  <2>1. d.next_id \in Nat
    BY <1>0 DEF Desk
  <2>. QED
    BY <1>1, <2>1
<1>11. Later(d, e)
  BY <1>4, <1>5, <1>10 DEF Later
<1>. QED
  BY <1>1, <1>5, <1>8, <1>9, <1>11 DEF Keeps

\* A slot that is cleared is a window of no number.
LEMMA BlankFits ==
  /\ Blank \in Window
  /\ \A w \in Window : Closed(w) \in Window /\ Closed(w).id = 0 /\ ~Closed(w).is_dragging
<1>1. Untitled \in Titles
  BY DEF Titles
<1>2. /\ 0 \in (-ScreenWidth)..ScreenWidth /\ 0 \in (-ScreenHeight)..ScreenHeight
      /\ 0 \in 0..ScreenWidth /\ 0 \in 0..ScreenHeight
      /\ 0 \in 0..(ScreenWidth - 1) /\ 0 \in 0..27 /\ 0 \in Nat
  BY ScreenIs
<1>3. <<0, 0>> \in (0..(ScreenWidth - 1)) \X (0..27)
  BY <1>2
<1>4. Blank \in Window /\ Blank.id = 0 /\ ~Blank.is_dragging
  BY <1>1, <1>2, <1>3 DEF Blank, Window
<1>5. \A w \in Window : w.title \in Titles
  BY DEF Window
<1>. QED
  BY <1>4, <1>5 DEF Closed, Window

\* The table wm_destroy_window leaves.
ClosedAs(d, e, s, next) ==
  /\ next \in (Used(d) \ {s}) \cup {0} /\ (next = 0 => Used(d) = {s})
  /\ e.windows[s] = Closed(d.windows[s])
  /\ \A t \in Slot \ {s} :
       e.windows[t] = IF d.active = s /\ t = next THEN Lit(d.windows[t], TRUE) ELSE d.windows[t]
  /\ e.windows = [t \in Slot |-> e.windows[t]]
  /\ e.count = d.count - 1 /\ e.next_id = d.next_id
  /\ e.active = (IF d.active = s THEN next ELSE d.active)
  /\ e.term = (IF d.term = s THEN 0 ELSE d.term)
  /\ e = [windows |-> e.windows, count |-> e.count, next_id |-> e.next_id, active |-> e.active,
          term |-> e.term]

\* What wm_destroy_window changes.
LEMMA DestroyFields ==
  ASSUME NEW d, Table(d), NEW s \in Used(d)
  PROVE  \E next : ClosedAs(d, wm_destroy_window(d, s), s, next)
<1>. DEFINE e == wm_destroy_window(d, s)
<1>. DEFINE rest == [d.windows EXCEPT ![s] = Closed(@)]
<1>. DEFINE left == {t \in Slot : rest[t].id # 0}
<1>. DEFINE next == IF left = {} THEN 0 ELSE Max(left)
<1>. DEFINE W == IF d.active = s /\ next # 0 THEN [rest EXCEPT ![next].is_active = TRUE] ELSE rest
<1>0. d \in Desk /\ d.windows \in [Slot -> Window] /\ s \in Slot
  BY DeskFields, UsedFree DEF Table
<1>1. e = [d EXCEPT !.windows = W, !.count = @ - 1,
                    !.active = IF d.active = s THEN next ELSE d.active,
                    !.term = IF d.term = s THEN 0 ELSE @]
  BY DEF wm_destroy_window
<1>2. /\ rest \in [Slot -> Window] /\ rest[s] = Closed(d.windows[s])
      /\ \A t \in Slot \ {s} : rest[t] = d.windows[t]
  BY <1>0, BlankFits
<1>3. left = Used(d) \ {s}
  BY <1>0, <1>2, BlankFits DEF Used, Free
<1>4. next \in left \cup {0} /\ (next = 0 => left = {})
  <2>1. left \in SUBSET Slot
    OBVIOUS
  <2>. HIDE DEF left
  <2>. QED
    BY <2>1, SlotOf, SlotsAre
<1>. HIDE DEF rest, left, next
<1>5. /\ W[s] = Closed(d.windows[s]) /\ W = [t \in Slot |-> W[t]]
      /\ \A t \in Slot \ {s} :
           W[t] = IF d.active = s /\ t = next THEN Lit(d.windows[t], TRUE) ELSE d.windows[t]
  <2>1. CASE d.active = s /\ next # 0
    <3>1. next \in Slot \ {s}
      BY <1>3, <1>4, <2>1, UsedFree
    <3>2. W = [rest EXCEPT ![next] = Lit(d.windows[next], TRUE)]
      BY <1>2, <2>1, <3>1 DEF Lit
    <3>. HIDE DEF W
    <3>3. W \in [Slot -> {W[t] : t \in Slot}]
      BY <1>2, <3>2
    <3>4. /\ W[next] = Lit(d.windows[next], TRUE)
          /\ \A t \in Slot \ {next} : W[t] = rest[t]
      BY <1>2, <3>1, <3>2
    <3>5. \A t \in Slot : d.active = s /\ t = next <=> t = next
      BY <2>1
    <3>. QED
      BY <1>0, <1>2, <3>1, <3>3, <3>4, <3>5
  <2>2. CASE ~(d.active = s /\ next # 0)
    <3>1. W = rest
      BY <2>2
    <3>2. \A t \in Slot : ~(d.active = s /\ t = next)
      BY <2>2, SlotsAre
    <3>. HIDE DEF W
    <3>3. rest = [t \in Slot |-> rest[t]]
      BY <1>2
    <3>. QED
      BY <1>2, <3>1, <3>2, <3>3
  <2>. HIDE DEF W
  <2>. QED
    BY <2>1, <2>2
<1>. HIDE DEF W, e
<1>6. /\ e.windows = W /\ e.count = d.count - 1 /\ e.next_id = d.next_id
      /\ e.active = (IF d.active = s THEN next ELSE d.active)
      /\ e.term = (IF d.term = s THEN 0 ELSE d.term)
      /\ e = [windows |-> e.windows, count |-> e.count, next_id |-> e.next_id,
              active |-> e.active, term |-> e.term]
  BY <1>0, <1>1 DEF Desk
<1>7. ClosedAs(d, e, s, next)
  BY <1>3, <1>4, <1>5, <1>6 DEF ClosedAs
<1>. QED
  BY <1>7 DEF e

\* A table with one window closed is a table, and another has the focus.
LEMMA ClosedKeeps ==
  ASSUME NEW d, Table(d), NEW s \in Used(d), NEW next, NEW e, ClosedAs(d, e, s, next)
  PROVE  Keeps(d, e) /\ e.next_id = d.next_id
<1>0. d \in Desk /\ d.windows \in [Slot -> Window] /\ s \in Slot /\ s # 0 /\ d.next_id \in Nat
  BY DeskFields, UsedFree, SlotsAre DEF Table
<1>1. /\ next \in (Used(d) \ {s}) \cup {0} /\ (next = 0 => Used(d) = {s})
      /\ e.windows[s] = Closed(d.windows[s])
      /\ \A t \in Slot \ {s} :
           e.windows[t] = IF d.active = s /\ t = next THEN Lit(d.windows[t], TRUE) ELSE d.windows[t]
      /\ e.windows = [t \in Slot |-> e.windows[t]]
      /\ e.count = d.count - 1 /\ e.next_id = d.next_id
      /\ e.active = (IF d.active = s THEN next ELSE d.active)
      /\ e.term = (IF d.term = s THEN 0 ELSE d.term)
      /\ e = [windows |-> e.windows, count |-> e.count, next_id |-> e.next_id,
              active |-> e.active, term |-> e.term]
  BY DEF ClosedAs
<1>2. \A t \in Slot \ {s} : Like(d.windows[t], e.windows[t])
  <2>. TAKE t \in Slot \ {s}
  <2>1. d.windows[t] \in Window /\ TRUE \in BOOLEAN
    BY <1>0
  <2>2. e.windows[t] \in {d.windows[t], Lit(d.windows[t], TRUE)}
    BY <1>1
  <2>. QED
    BY <2>1, <2>2, LitLike
<1>3. e.windows[s] \in Window /\ e.windows[s].id = 0 /\ ~e.windows[s].is_dragging
  BY <1>0, <1>1, BlankFits
<1>4. \A t \in Slot \ {s} :
        /\ e.windows[t] \in Window /\ e.windows[t].id = d.windows[t].id
        /\ e.windows[t].title = d.windows[t].title /\ e.windows[t].buffer = d.windows[t].buffer
        /\ e.windows[t].is_dragging = d.windows[t].is_dragging
        /\ (Placed(d.windows[t]) => Placed(e.windows[t]))
  BY <1>2 DEF Like, Placed
<1>5. Used(e) = Used(d) \ {s} /\ Free(e) = Free(d) \cup {s}
  BY <1>0, <1>3, <1>4 DEF Used, Free
<1>6. Used(d) \subseteq Slot /\ Free(d) \subseteq Slot
  BY UsedFree
<1>7. e.count \in Nat /\ e.count = Cardinality(Used(e))
  <2>1. IsFiniteSet(Used(d))
    BY <1>6, SlotsAre, FS_Subset
  <2>2. Cardinality(Used(d) \ {s}) = Cardinality(Used(d)) - 1 /\ IsFiniteSet(Used(d) \ {s})
    BY <2>1, FS_RemoveElement
  <2>3. Cardinality(Used(d) \ {s}) \in Nat
    BY <2>2, FS_CardinalityType
  <2>. QED
    BY <1>1, <1>5, <2>2, <2>3 DEF Table
<1>8. e \in Desk
  <2>1. \A t \in Slot : e.windows[t] \in Window
    BY <1>3, <1>4
  <2>2. e.windows \in [Slot -> Window]
    BY <1>1, <2>1
  <2>3. e.active \in Slot \cup {0} /\ e.term \in Slot \cup {0}
    BY <1>0, <1>1, <1>6, DeskFields
  <2>. QED
    BY <1>0, <1>1, <1>7, <2>2, <2>3 DEF Desk
<1>9. ASSUME NEW t \in Used(e) PROVE e.windows[t].is_active <=> e.active = t
  <2>1. t \in Used(d) /\ t # s /\ t # 0 /\ t \in Slot \ {s} /\ d.windows[t] \in Window
    BY <1>0, <1>5, <1>6, <1>9, SlotsAre
  <2>2. d.windows[t].is_active <=> d.active = t
    BY <2>1 DEF Table
  <2>3. CASE d.active = s /\ t = next
    <3>1. Lit(d.windows[t], TRUE).is_active <=> TRUE
      BY <2>1, LitLike, Zenon
    <3>. QED
      BY <1>1, <2>1, <2>3, <3>1
  <2>4. CASE ~(d.active = s /\ t = next)
    BY <1>1, <2>1, <2>2, <2>4
  <2>. QED
    BY <2>3, <2>4
<1>10. Table(e)
  <2>1. \A t, u \in Used(e) : e.windows[t].id = e.windows[u].id => t = u
    BY <1>4, <1>5, <1>6 DEF Table
  <2>2. \A t \in Used(e) : e.windows[t].id < e.next_id /\ Placed(e.windows[t])
    BY <1>1, <1>4, <1>5, <1>6 DEF Table
  <2>3. \A t \in Free(e) : ~e.windows[t].is_dragging
    BY <1>3, <1>4, <1>5, <1>6 DEF Table
  <2>4. e.next_id > 0
    BY <1>1 DEF Table
  <2>. QED
    BY <1>7, <1>8, <1>9, <2>1, <2>2, <2>3, <2>4 DEF Table
<1>11. ASSUME HasFocus(d) PROVE HasFocus(e)
  <2>1. e.active \in Used(e) \cup {0} /\ (e.active = 0 <=> Used(e) = {})
    BY <1>0, <1>1, <1>5, <1>11, <1>6, SlotsAre DEF HasFocus
  <2>2. \A t, u \in Used(e) :
          e.windows[t].title = "terminal" /\ e.windows[u].title = "terminal" => t = u
    BY <1>4, <1>5, <1>6, <1>11 DEF HasFocus
  <2>3. e.term # 0 => e.term \in Used(e) /\ e.windows[e.term].title = "terminal"
    BY <1>1, <1>4, <1>5, <1>6, <1>11 DEF HasFocus
  <2>4. \A t \in Used(e) : e.windows[t].title = "terminal" /\ e.windows[t].buffer => e.term = t
    BY <1>1, <1>4, <1>5, <1>6, <1>11 DEF HasFocus
  <2>. QED
    BY <2>1, <2>2, <2>3, <2>4 DEF HasFocus
<1>12. Later(d, e)
  BY <1>0, <1>1, <1>4, <1>5, <1>6 DEF Later
<1>. QED
  BY <1>1, <1>10, <1>11, <1>12 DEF Keeps

\* wm_destroy_window keeps the table and the focus.
LEMMA DestroyKeeps ==
  ASSUME NEW d, Table(d), NEW s \in Used(d)
  PROVE  Keeps(d, wm_destroy_window(d, s))
<1>1. PICK next : ClosedAs(d, wm_destroy_window(d, s), s, next)
  BY DestroyFields
<1>. QED
  BY <1>1, ClosedKeeps



-----------------------------------------------------------------------------
(* The calls that combine those.                                           *)

\* wm_create_window, for another window than the terminal, does too.
LEMMA CreateFocused ==
  ASSUME NEW d, Table(d), NEW p \in Place, p.title # "terminal", NEW buffer \in BOOLEAN
  PROVE  Keeps(d, wm_create_window(d, p, buffer))
<1>. DEFINE e == wm_create_window(d, p, buffer)
<1>. DEFINE s == FirstSlot(d)
<1>1. CASE e = d
  BY <1>1, LaterSame
<1>2. CASE MadeAs(d, e, s, p, buffer)
  <2>. HIDE DEF e, s
  <2>1. Table(e) /\ Later(d, e)
    BY <1>2, CreateKeeps
  <2>2. HasFocus(d) => HasFocus(e)
    BY <1>2, MadeFocused
  <2>. QED
    BY <2>1, <2>2 DEF Keeps, e
<1>3. e = d \/ MadeAs(d, e, s, p, buffer)
  BY MadeFields
<1>. HIDE DEF e, s
<1>. QED
  BY <1>1, <1>2, <1>3 DEF e

\* So does opening one of the desktop's own windows.
LEMMA OpenKeeps ==
  ASSUME NEW d, Table(d), NEW p \in Place
  PROVE  Keeps(d, Open(d, p))
<1>. DEFINE open == {s \in Used(d) : d.windows[s].title = p.title}
<1>. DEFINE buffer == heap < Buffers
<1>. DEFINE made == wm_create_window(d, p, buffer)
<1>. DEFINE front == wm_focus_window(d, d.windows[Min(open)].id)
<1>0. Used(d) \subseteq Slot
  BY UsedFree
<1>1. CASE open # {}
  <2>. DEFINE s == Min(open)
  <2>1. s \in Used(d) /\ d.windows[s].title = p.title
    BY <1>0, <1>1, SlotOf
  <2>. HIDE DEF s, open
  <2>. DEFINE e == wm_focus_window(d, d.windows[s].id)
  <2>2. /\ Table(e) /\ Used(e) = Used(d) /\ Later(d, e)
        /\ \A t \in Slot : Like(d.windows[t], e.windows[t])
        /\ HasFocus(d) => HasFocus(e)
    BY <2>1, FocusKeeps
  <2>3. Open(d, p) = IF p = Terminal THEN [e EXCEPT !.term = s] ELSE e
    BY <1>1 DEF Open, s, open
  <2>. HIDE DEF e
  <2>4. CASE p # Terminal
    BY <2>2, <2>3, <2>4 DEF Keeps
  <2>5. CASE p = Terminal
    <3>. DEFINE f == [e EXCEPT !.term = s]
    <3>1. s \in Slot /\ d.windows[s].title = "terminal"
      BY <1>0, <2>1, <2>5, TerminalIs
    <3>2. /\ Table(f) /\ Later(e, f) /\ Used(f) = Used(e)
          /\ f.windows = e.windows /\ f.active = e.active /\ f.term = s
      BY <2>2, <3>1, Renamed
    <3>. HIDE DEF f
    <3>3. Later(d, f)
      BY <2>2, <3>2, LaterTwice
    <3>4. e.windows[s].title = "terminal"
      BY <2>2, <3>1 DEF Like
    <3>5. HasFocus(e) => HasFocus(f)
      BY <2>1, <2>2, <3>2, <3>4 DEF HasFocus
    <3>6. Open(d, p) = f
      BY <2>3, <2>5 DEF f
    <3>. QED
      BY <2>2, <3>2, <3>3, <3>5, <3>6 DEF Keeps
  <2>. QED
    BY <2>4, <2>5
<1>2. CASE open = {}
  <2>1. Open(d, p) = IF p = Terminal /\ made # d /\ buffer
                       THEN [made EXCEPT !.term = made.active] ELSE made
    BY <1>2 DEF Open
  <2>2. \A t \in Used(d) : d.windows[t].title # p.title
    BY <1>2
  <2>3. buffer \in BOOLEAN
    OBVIOUS
  <2>4. made = d \/ MadeAs(d, made, FirstSlot(d), p, buffer)
    BY MadeFields
  <2>. DEFINE s == FirstSlot(d)
  <2>. HIDE DEF open, buffer, made, s
  <2>5. CASE made = d
    BY <2>1, <2>5, LaterSame
  <2>6. CASE made # d
    <3>1. MadeAs(d, made, s, p, buffer)
      BY <2>4, <2>6 DEF s
    <3>2. Table(made) /\ Later(d, made)
      BY <2>3, <3>1, CreateKeeps
    <3>3. made.active = s /\ s \in Slot
      BY <3>1, UsedFree DEF MadeAs
    <3>4. p.title = "terminal" <=> p = Terminal
      BY TerminalIs
    <3>5. CASE p = Terminal /\ buffer
      <4>. DEFINE f == [made EXCEPT !.term = s]
      <4>1. /\ Table(f) /\ Later(made, f)
            /\ f.windows = made.windows /\ f.active = made.active /\ f.term = s
        BY <3>2, <3>3, Renamed
      <4>2. Open(d, p) = f
        BY <2>1, <2>6, <3>3, <3>5
      <4>. HIDE DEF f
      <4>3. Later(d, f)
        BY <3>2, <4>1, LaterTwice
      <4>4. f.term = IF p.title = "terminal" /\ buffer THEN s ELSE made.term
        BY <3>4, <3>5, <4>1
      <4>5. HasFocus(d) => HasFocus(f)
        BY <2>2, <2>3, <3>1, <3>4, <3>5, <4>1, <4>4, MadeFocused
      <4>. QED
        BY <4>1, <4>2, <4>3, <4>5 DEF Keeps
    <3>6. CASE ~(p = Terminal /\ buffer)
      <4>1. Open(d, p) = made
        BY <2>1, <3>6
      <4>2. made.term = IF p.title = "terminal" /\ buffer THEN s ELSE made.term
        BY <3>4, <3>6
      <4>3. HasFocus(d) => HasFocus(made)
        BY <2>2, <2>3, <3>1, <3>4, <4>2, MadeFocused
      <4>. QED
        BY <3>2, <4>1, <4>3 DEF Keeps
    <3>. QED
      BY <3>5, <3>6
  <2>. QED
    BY <2>5, <2>6
<1>. QED
  BY <1>1, <1>2

\* An empty desktop is a table.
LEMMA EmptyKeeps ==
  Table(EmptyDesk) /\ HasFocus(EmptyDesk)
<1>. DEFINE d == EmptyDesk
<1>1. /\ d.windows = [s \in Slot |-> Blank] /\ d.count = 0 /\ d.next_id = 1 /\ d.active = 0
      /\ d.term = 0
  BY DEF EmptyDesk
<1>2. d \in Desk
  BY BlankFits DEF EmptyDesk, Desk
<1>. HIDE DEF d
<1>3. \A s \in Slot : d.windows[s].id = 0 /\ ~d.windows[s].is_dragging
  BY <1>1 DEF Blank
<1>4. Used(d) = {} /\ Free(d) = Slot
  BY <1>3 DEF Used, Free
<1>5. Table(d)
  BY <1>1, <1>2, <1>3, <1>4, FS_EmptySet DEF Table
<1>6. HasFocus(d)
  BY <1>1, <1>4 DEF HasFocus
<1>. QED
  BY <1>5, <1>6 DEF d

CloseAll(d) ==
  [EmptyDesk EXCEPT !.next_id = d.next_id,
                    !.windows = [s \in Slot |-> IF s \in Used(d) THEN Closed(d.windows[s])
                                                ELSE d.windows[s]],
                    !.active = IF d.active \in Free(d) THEN d.active ELSE 0,
                    !.term = IF d.term \in Free(d) THEN d.term ELSE 0]

\* Closing every window leaves a table.
LEMMA CloseAllKeeps ==
  ASSUME NEW d, Table(d)
  PROVE  Keeps(d, CloseAll(d))
<1>. DEFINE W == [s \in Slot |-> IF s \in Used(d) THEN Closed(d.windows[s]) ELSE d.windows[s]]
<1>. DEFINE e == CloseAll(d)
<1>0. d \in Desk /\ d.next_id \in Nat /\ d.next_id > 0 /\ d.active \in Slot \cup {0}
      /\ d.term \in Slot \cup {0}
  BY DeskFields DEF Table
<1>1. /\ e.windows = W /\ e.count = 0 /\ e.next_id = d.next_id
      /\ e.active = (IF d.active \in Free(d) THEN d.active ELSE 0)
      /\ e.term = (IF d.term \in Free(d) THEN d.term ELSE 0)
      /\ e = [windows |-> e.windows, count |-> e.count, next_id |-> e.next_id,
              active |-> e.active, term |-> e.term]
  <2>1. e = [EmptyDesk EXCEPT !.next_id = d.next_id, !.windows = W,
                              !.active = IF d.active \in Free(d) THEN d.active ELSE 0,
                              !.term = IF d.term \in Free(d) THEN d.term ELSE 0]
    BY DEF CloseAll
  <2>. HIDE DEF e, W
  <2>. QED
    BY <2>1 DEF EmptyDesk
<1>2. ASSUME NEW s \in Slot PROVE e.windows[s] \in Window /\ e.windows[s].id = 0 /\ ~e.windows[s].is_dragging
  <2>1. d.windows[s] \in Window
    BY <1>0, DeskFields
  <2>2. CASE s \in Used(d)
    <3>1. e.windows[s] = Closed(d.windows[s])
      BY <1>1, <2>2
    <3>. QED
      BY <2>1, <3>1, BlankFits
  <2>3. CASE s \notin Used(d)
    <3>1. e.windows[s] = d.windows[s] /\ d.windows[s].id = 0 /\ s \in Free(d)
      BY <1>1, <2>3, UsedFree
    <3>. QED
      BY <2>1, <3>1 DEF Table
  <2>. QED
    BY <2>2, <2>3
<1>3. e.windows = [s \in Slot |-> e.windows[s]]
  BY <1>1
<1>. HIDE DEF e, W
<1>4. e \in Desk
  <2>1. e.windows \in [Slot -> Window]
    BY <1>2, <1>3
  <2>. QED
    BY <1>0, <1>1, <2>1 DEF Desk
<1>5. Used(e) = {} /\ Free(e) = Slot
  BY <1>2 DEF Used, Free
<1>6. Table(e)
  BY <1>0, <1>1, <1>2, <1>4, <1>5, FS_EmptySet DEF Table
<1>7. ASSUME HasFocus(d) PROVE HasFocus(e)
  <2>1. e.active = 0 /\ e.term = 0
    BY <1>1, <1>7, UsedFree, SlotsAre DEF HasFocus
  <2>. QED
    BY <1>5, <2>1 DEF HasFocus
<1>8. Later(d, e)
  BY <1>0, <1>1, <1>5 DEF Later
<1>. QED
  BY <1>6, <1>7, <1>8 DEF Keeps, e

Screen == (0..(ScreenWidth - 1)) \X (0..(ScreenHeight - 1))

\* The pointer stays on the screen.
LEMMA PointerOnScreen ==
  Point \cup {Middle} \subseteq Screen
<1>1. Middle \in Screen
  BY DEF Middle, Screen, ScreenWidth, ScreenHeight
<1>. QED
  BY <1>1, DesktopAssumption DEF Screen

\* A window that is grabbed is the same one, within reach.
LEMMA GrabFits ==
  ASSUME NEW w \in Window, NEW c \in Screen, OnWindow(w, c), Placed(w)
  PROVE  /\ Grabbed(w, c) \in Window /\ Placed(Grabbed(w, c))
         /\ Grabbed(w, c).id = w.id /\ Grabbed(w, c).title = w.title
         /\ Grabbed(w, c).buffer = w.buffer /\ Grabbed(w, c).is_active = w.is_active
<1>. DEFINE g == <<c[1] - w.x, c[2] - w.y>>
<1>. SUFFICES ASSUME c[2] < w.y + 28 /\ w.movable
              PROVE  /\ Grabbed(w, c) \in Window /\ Placed(Grabbed(w, c))
                     /\ Grabbed(w, c).id = w.id /\ Grabbed(w, c).title = w.title
                     /\ Grabbed(w, c).buffer = w.buffer /\ Grabbed(w, c).is_active = w.is_active
  BY DEF Grabbed
<1>1. /\ w.x \in (-ScreenWidth)..ScreenWidth /\ w.y \in (-ScreenHeight)..ScreenHeight
      /\ w.width \in 0..ScreenWidth
  BY DEF Window
<1>2. c[1] \in 0..(ScreenWidth - 1) /\ c[2] \in 0..(ScreenHeight - 1)
  BY DEF Screen
<1>3. /\ w.x <= c[1] /\ c[1] <= w.x + w.width - 1 /\ w.y <= c[2]
  BY DEF OnWindow, Within
<1>4. c[1] - w.x \in 0..(ScreenWidth - 1) /\ c[2] - w.y \in 0..27 /\ c[1] - w.x < w.width
  BY <1>1, <1>2, <1>3, ScreenIs
<1>5. g \in (0..(ScreenWidth - 1)) \X (0..27) /\ g[1] < w.width
  BY <1>4
<1>6. Grabbed(w, c) = [w EXCEPT !.is_dragging = TRUE, !.grip = g]
  BY DEF Grabbed
<1>. HIDE DEF g
<1>. QED
  BY <1>5, <1>6 DEF Window, Placed

\* A window that is dragged is the same one, within reach.
LEMMA DragFits ==
  ASSUME NEW w \in Window, NEW c \in Screen, Placed(w)
  PROVE  /\ Dragged(w, c) \in Window /\ Placed(Dragged(w, c))
         /\ Dragged(w, c).id = w.id /\ Dragged(w, c).title = w.title
         /\ Dragged(w, c).buffer = w.buffer /\ Dragged(w, c).is_active = w.is_active
<1>. DEFINE x == c[1] - w.grip[1]
<1>. DEFINE y == IF c[2] - w.grip[2] < 32 THEN 32 ELSE c[2] - w.grip[2]
<1>1. /\ w.grip[1] \in 0..(ScreenWidth - 1) /\ w.grip[2] \in 0..27 /\ w.width \in 0..ScreenWidth
  BY DEF Window
<1>2. c[1] \in 0..(ScreenWidth - 1) /\ c[2] \in 0..(ScreenHeight - 1)
  BY DEF Screen
<1>3. w.grip[1] < w.width
  BY DEF Placed
<1>4. x \in (-ScreenWidth)..ScreenWidth /\ x + w.width > 0 /\ x < ScreenWidth
  BY <1>1, <1>2, <1>3, ScreenIs
<1>5. y \in (-ScreenHeight)..ScreenHeight /\ y >= 32 /\ y < ScreenHeight
  BY <1>1, <1>2, ScreenIs
<1>6. Dragged(w, c) = [w EXCEPT !.x = x, !.y = y]
  BY DEF Dragged
<1>. HIDE DEF x, y
<1>. QED
  BY <1>4, <1>5, <1>6 DEF Window, Placed



\* Grabbing a window keeps the table and the focus.
LEMMA GrabKeeps ==
  ASSUME NEW d, Table(d), NEW s \in Used(d), NEW c \in Screen, OnWindow(d.windows[s], c)
  PROVE  Keeps(d, [d EXCEPT !.windows[s] = Grabbed(@, c)])
<1>. DEFINE w == Grabbed(d.windows[s], c)
<1>1. s \in Slot /\ s \notin Free(d) /\ d \in Desk
  BY UsedFree DEF Table
<1>2. d.windows[s] \in Window /\ Placed(d.windows[s])
  BY <1>1, DeskFields DEF Table
<1>3. /\ w \in Window /\ Placed(w) /\ w.id = d.windows[s].id /\ w.title = d.windows[s].title
      /\ w.buffer = d.windows[s].buffer /\ w.is_active = d.windows[s].is_active
  BY <1>2, GrabFits
<1>4. [d EXCEPT !.windows[s] = Grabbed(@, c)] = [d EXCEPT !.windows[s] = w]
  BY <1>1 DEF Desk
<1>. HIDE DEF w
<1>. DEFINE e == [d EXCEPT !.windows[s] = w]
<1>5. e = [d EXCEPT !.windows[s] = w]
  OBVIOUS
<1>. HIDE DEF e
<1>6. Keeps(d, e)
  BY <1>1, <1>3, <1>5, PutKeeps
<1>. QED
  BY <1>4, <1>6 DEF e

\* So does whatever a click does.
LEMMA ClickKeeps ==
  ASSUME NEW d, Table(d), NEW c \in Screen
  PROVE  Keeps(d, Clicked(d, c))
<1>. DEFINE a == d.active
<1>. DEFINE front == a # 0 /\ d.windows[a].id # 0
<1>. DEFINE hits == {s \in Used(d) \ {a} : OnClose(d.windows[s], c) \/ OnWindow(d.windows[s], c)}
<1>. DEFINE h == Max(hits)
<1>. DEFINE focused == wm_focus_window(d, d.windows[h].id)
<1>0. d \in Desk /\ Used(d) \subseteq Slot /\ a \in Slot \cup {0}
  BY DeskFields, UsedFree DEF Table
<1>1. front => a \in Used(d)
  BY <1>0, UsedFree
<1>2. hits # {} => h \in hits
  BY <1>0, SlotOf
<1>3. Clicked(d, c) =
        IF front /\ OnClose(d.windows[a], c) THEN wm_destroy_window(d, a)
        ELSE IF front /\ OnWindow(d.windows[a], c)
          THEN [d EXCEPT !.windows[a] = Grabbed(@, c)]
        ELSE IF hits = {} THEN d
        ELSE IF OnClose(d.windows[h], c) THEN wm_destroy_window(d, h)
        ELSE [focused EXCEPT !.windows[h] = Grabbed(@, c)]
  BY DEF Clicked
<1>4. CASE front /\ OnClose(d.windows[a], c)
  BY <1>1, <1>3, <1>4, DestroyKeeps
<1>5. CASE front /\ ~OnClose(d.windows[a], c) /\ OnWindow(d.windows[a], c)
  BY <1>1, <1>3, <1>5, GrabKeeps
<1>6. CASE ~(front /\ OnClose(d.windows[a], c)) /\ ~(front /\ OnWindow(d.windows[a], c)) /\ hits = {}
  BY <1>3, <1>6, LaterSame
<1>7. CASE /\ ~(front /\ OnClose(d.windows[a], c)) /\ ~(front /\ OnWindow(d.windows[a], c))
           /\ hits # {} /\ OnClose(d.windows[h], c)
  <2>1. h \in Used(d) /\ Clicked(d, c) = wm_destroy_window(d, h)
    BY <1>2, <1>3, <1>7
  <2>. HIDE DEF h
  <2>. QED
    BY <2>1, DestroyKeeps
<1>8. CASE /\ ~(front /\ OnClose(d.windows[a], c)) /\ ~(front /\ OnWindow(d.windows[a], c))
           /\ hits # {} /\ ~OnClose(d.windows[h], c)
  <2>1. h \in Used(d) /\ OnWindow(d.windows[h], c)
    BY <1>2, <1>8
  <2>2. Clicked(d, c) = [focused EXCEPT !.windows[h] = Grabbed(@, c)]
    BY <1>3, <1>8
  <2>3. d.windows[h].id = d.windows[h].id
    OBVIOUS
  <2>. HIDE DEF h
  <2>4. /\ Table(focused) /\ Used(focused) = Used(d) /\ Later(d, focused)
        /\ \A s \in Slot : Like(d.windows[s], focused.windows[s])
        /\ HasFocus(d) => HasFocus(focused)
    BY <2>1, <2>3, FocusKeeps
  <2>. HIDE DEF focused
  <2>5. OnWindow(focused.windows[h], c)
    BY <1>0, <2>1, <2>4 DEF Like, OnWindow
  <2>6. Keeps(focused, Clicked(d, c))
    BY <2>1, <2>2, <2>4, <2>5, GrabKeeps
  <2>7. Keeps(d, focused)
    BY <2>4 DEF Keeps
  <2>. QED
    BY <2>6, <2>7, KeepsTwice
<1>. QED
  BY <1>4, <1>5, <1>6, <1>7, <1>8

\* What wm_drag leaves.
DraggedDesk(d, prev, left, c) ==
  IF d.active = 0 \/ ~prev THEN d
  ELSE IF ~left THEN [d EXCEPT !.windows[d.active] = [@ EXCEPT !.is_dragging = FALSE, !.grip = <<0, 0>>]]
  ELSE IF d.windows[d.active].is_dragging
    THEN [d EXCEPT !.windows[d.active] = Dragged(@, c)]
  ELSE d

\* So does whatever a motion does.
LEMMA DragKeeps ==
  ASSUME NEW d, Table(d), NEW prev, NEW left, NEW c \in Screen
  PROVE  Keeps(d, DraggedDesk(d, prev, left, c))
<1>. DEFINE a == d.active
<1>. DEFINE e == DraggedDesk(d, prev, left, c)
<1>1. CASE e = d
  BY <1>1, LaterSame
<1>2. CASE a # 0 /\ e = [d EXCEPT !.windows[a] = [@ EXCEPT !.is_dragging = FALSE, !.grip = <<0, 0>>]]
  <2>. DEFINE w == [d.windows[a] EXCEPT !.is_dragging = FALSE, !.grip = <<0, 0>>]
  <2>1. a \in Slot /\ d \in Desk
    BY <1>2, DeskFields DEF Table
  <2>2. d.windows[a] \in Window
    BY <2>1, DeskFields
  <2>3. <<0, 0>> \in (0..(ScreenWidth - 1)) \X (0..27)
    <3>1. 0 \in 0..(ScreenWidth - 1) /\ 0 \in 0..27
      BY ScreenIs
    <3>. QED
      BY <3>1
  <2>4. /\ w \in Window /\ w.id = d.windows[a].id /\ w.title = d.windows[a].title
        /\ w.buffer = d.windows[a].buffer /\ w.is_active = d.windows[a].is_active
        /\ ~w.is_dragging
    BY <2>2, <2>3 DEF Window
  <2>5. Placed(d.windows[a]) => Placed(w)
    BY <2>2 DEF Placed, Window
  <2>6. a \in Used(d) => Placed(w)
    BY <2>5 DEF Table
  <2>7. e = [d EXCEPT !.windows[a] = w]
    BY <1>2, <2>1 DEF Desk
  <2>. HIDE DEF w, e, a
  <2>8. Keeps(d, e)
    BY <2>1, <2>4, <2>6, <2>7, PutKeeps, UsedFree
  <2>. QED
    BY <2>8 DEF e
<1>3. CASE a # 0 /\ d.windows[a].is_dragging /\ e = [d EXCEPT !.windows[a] = Dragged(@, c)]
  <2>. DEFINE w == Dragged(d.windows[a], c)
  <2>1. a \in Slot /\ d \in Desk
    BY <1>3, DeskFields DEF Table
  <2>2. a \in Used(d) /\ a \notin Free(d)
    BY <1>3, <2>1, UsedFree DEF Table
  <2>3. d.windows[a] \in Window /\ Placed(d.windows[a])
    BY <2>1, <2>2, DeskFields DEF Table
  <2>4. /\ w \in Window /\ Placed(w) /\ w.id = d.windows[a].id /\ w.title = d.windows[a].title
        /\ w.buffer = d.windows[a].buffer /\ w.is_active = d.windows[a].is_active
    BY <2>3, DragFits
  <2>5. e = [d EXCEPT !.windows[a] = w]
    BY <1>3, <2>1 DEF Desk
  <2>. HIDE DEF w, e, a
  <2>6. Keeps(d, e)
    BY <2>1, <2>2, <2>4, <2>5, PutKeeps
  <2>. QED
    BY <2>6 DEF e
<1>. QED
  BY <1>1, <1>2, <1>3 DEF DraggedDesk

-----------------------------------------------------------------------------
(* The invariant of the desktop.                                           *)

\* A program's handle: no window made later has its number.
HandleOK(h, d) ==
  /\ h \in [slot : Slot \cup {0}, id : Nat]
  /\ h.slot # 0 => /\ h.id < d.next_id
                   /\ \A s \in Used(d) : d.windows[s].id = h.id => s = h.slot

\* The pointer, and the copy an update works with.
MouseInv ==
  /\ g_mouse_state \in [pos : Screen, left : BOOLEAN, left_clicked : BOOLEAN, click : Screen]
  /\ seen \in [pos : Screen, left : BOOLEAN]
  /\ g_prev_mouse_left \in BOOLEAN

\* A press that did not race the copy is either still latched, or was acted on
\* at most once and no later update takes it for a new one.
PressInv ==
  /\ press \in [acted : 0..2, raced : BOOLEAN]
  /\ ~press.raced =>
       /\ update = "copied" /\ g_mouse_state.left => seen.left
       /\ \/ g_mouse_state.left_clicked /\ press.acted = 0
          \/ /\ ~g_mouse_state.left_clicked /\ press.acted <= 1
             /\ g_mouse_state.left => g_prev_mouse_left
             /\ update = "copied" /\ seen.left => g_prev_mouse_left

DeskInv ==
  /\ Table(desk)
  /\ ~stale => HasFocus(desk)
  /\ HandleOK(hWnd, desk)

DesktopInv == DeskInv /\ MouseInv /\ PressInv

\* A handle names no other window later on.
LEMMA HandleStays ==
  ASSUME NEW d, NEW e, NEW h, Table(d), Table(e), Later(d, e), HandleOK(h, d)
  PROVE  HandleOK(h, e)
<1>1. d.next_id \in Nat /\ e.next_id \in Nat /\ h.id \in Nat
  BY DeskFields DEF Table, HandleOK
<1>2. \A s \in Used(e) : e.windows[s].id \in Nat
  BY UsedFree, DeskFields DEF Table
<1>. QED
  BY <1>1, <1>2 DEF HandleOK, Later

\* No handle names no window.
LEMMA NoHandle ==
  ASSUME NEW d
  PROVE  HandleOK([slot |-> 0, id |-> 0], d)
BY DEF HandleOK

\* A step that keeps the table keeps the invariant of the desk.
LEMMA KeptDesk ==
  ASSUME DeskInv, Keeps(desk, desk'), hWnd' = hWnd \/ hWnd' = [slot |-> 0, id |-> 0], stale' = stale
  PROVE  DeskInv'
<1>1. Table(desk') /\ (~stale' => HasFocus(desk'))
  BY DEF DeskInv, Keeps
<1>2. HandleOK(hWnd', desk')
  BY HandleStays, NoHandle DEF DeskInv, Keeps
<1>. QED
  BY <1>1, <1>2 DEF DeskInv

\* A step that leaves the desk alone does.
LEMMA SameDesk ==
  ASSUME DeskInv, desk' = desk, hWnd' = hWnd \/ hWnd' = [slot |-> 0, id |-> 0], stale' = stale
  PROVE  DeskInv'
<1>1. Keeps(desk, desk')
  BY LaterSame DEF DeskInv
<1>. QED
  BY <1>1, KeptDesk



\* The invariant of the desktop holds at boot.
LEMMA InitInv == DesktopInit => DesktopInv
<1>. SUFFICES ASSUME DesktopInit PROVE DesktopInv
  OBVIOUS
<1>1. Keeps(EmptyDesk, desk)
  BY EmptyKeeps, OpenKeeps, TerminalIs DEF DesktopInit
<1>2. DeskInv
  BY <1>1, EmptyKeeps, NoHandle DEF DesktopInit, DeskInv, Keeps
<1>3. MouseInv
  BY PointerOnScreen DEF DesktopInit, MouseInv
<1>4. PressInv
  BY DEF DesktopInit, PressInv
<1>. QED
  BY <1>2, <1>3, <1>4 DEF DesktopInv

\* A packet of the mouse keeps it.
LEMMA PacketStep ==
  ASSUME DesktopInv, mouse_release \/ \E p \in Point : mouse_press(p) \/ mouse_drag(p)
  PROVE  DesktopInv'
<1>. USE DEF DesktopInv
<1>1. DeskInv'
  BY SameDesk DEF mouse_press, mouse_drag, mouse_release
<1>2. MouseInv'
  <2>1. CASE mouse_release
    BY <2>1 DEF mouse_release, MouseInv
  <2>2. ASSUME NEW p \in Point, mouse_press(p) \/ mouse_drag(p) PROVE MouseInv'
    <3>1. p \in Screen
      BY PointerOnScreen
    <3>2. CASE mouse_press(p)
      BY <3>1, <3>2 DEF mouse_press, MouseInv
    <3>3. CASE mouse_drag(p)
      BY <3>1, <3>3 DEF mouse_drag, MouseInv
    <3>. QED
      BY <2>2, <3>2, <3>3
  <2>. QED
    BY <2>1, <2>2
<1>3. PressInv'
  <2>1. CASE mouse_release
    <3>1. /\ ~g_mouse_state'.left /\ g_mouse_state'.left_clicked = g_mouse_state.left_clicked
          /\ UNCHANGED <<g_prev_mouse_left, seen, update, press>>
      BY <2>1 DEF mouse_release, MouseInv
    <3>. QED
      BY <3>1 DEF PressInv
  <2>2. ASSUME NEW p \in Point, mouse_press(p) PROVE PressInv'
    <3>1. /\ g_mouse_state'.left_clicked /\ press'.acted = 0
          /\ (press'.raced <=> update = "copied") /\ update' = update
          /\ press' \in [acted : 0..2, raced : BOOLEAN]
      <4>. DEFINE raced == update = "copied"
      <4>1. raced \in BOOLEAN
        OBVIOUS
      <4>2. g_mouse_state'.left_clicked /\ press' = [acted |-> 0, raced |-> raced] /\ update' = update
        BY <2>2 DEF mouse_press
      <4>3. raced <=> update = "copied"
        OBVIOUS
      <4>. HIDE DEF raced
      <4>. QED
        BY <4>1, <4>2, <4>3
    <3>. QED
      BY <3>1 DEF PressInv
  <2>3. ASSUME NEW p \in Point, mouse_drag(p) PROVE PressInv'
    <3>1. /\ g_mouse_state'.left = g_mouse_state.left
          /\ g_mouse_state'.left_clicked = g_mouse_state.left_clicked
          /\ UNCHANGED <<g_prev_mouse_left, seen, update, press>>
      BY <2>3 DEF mouse_drag, MouseInv
    <3>. QED
      BY <3>1 DEF PressInv
  <2>. QED
    BY <2>1, <2>2, <2>3
<1>. QED
  BY <1>1, <1>2, <1>3

\* So does the copy an update begins with.
LEMMA CopyStep ==
  ASSUME DesktopInv, wm_copy
  PROVE  DesktopInv'
<1>. USE DEF DesktopInv, wm_copy
<1>1. DeskInv'
  BY SameDesk
<1>2. MouseInv'
  BY DEF MouseInv
<1>3. PressInv'
  BY DEF MouseInv, PressInv
<1>. QED
  BY <1>1, <1>2, <1>3

\* A click is on the screen.
LEMMA ClickAtScreen ==
  ASSUME MouseInv PROVE ClickAt \in Screen
BY DEF MouseInv, ClickAt

\* A click is taken: the mouse and the press, whatever it does to the windows.
LEMMA ConsumeStep ==
  ASSUME MouseInv, PressInv, update = "copied", mouse_consume_click, update' \in {"idle", "keys"},
         g_prev_mouse_left' = seen.left, seen' = [pos |-> Middle, left |-> FALSE]
  PROVE  MouseInv' /\ PressInv'
<1>1. MouseInv'
  BY PointerOnScreen DEF MouseInv, mouse_consume_click
<1>2. /\ g_mouse_state'.left = g_mouse_state.left /\ g_mouse_state'.left_clicked = FALSE
      /\ press'.raced = press.raced
      /\ press'.acted = (IF press.acted < 2 THEN press.acted + 1 ELSE press.acted)
      /\ press' \in [acted : 0..2, raced : BOOLEAN]
      /\ g_mouse_state.left_clicked \/ (seen.left /\ ~g_prev_mouse_left)
  BY DEF MouseInv, PressInv, mouse_consume_click, clicked
<1>3. ASSUME ~press'.raced
      PROVE  press'.acted <= 1 /\ (g_mouse_state'.left => g_prev_mouse_left')
  BY <1>2, <1>3 DEF PressInv
<1>4. update' # "copied"
  OBVIOUS
<1>5. PressInv'
  BY <1>2, <1>3, <1>4 DEF PressInv
<1>. QED
  BY <1>1, <1>5

\* An item of the menu keeps the table and the focus.
LEMMA ItemKeeps ==
  ASSUME Table(desk), NEW item
  PROVE  Keeps(desk, ItemChosen(item))
<1>1. Monitor \in Place /\ Win32App \in Place /\ Terminal \in Place
  BY DEF Place
<1>2. ItemChosen(item) \in {Open(desk, Monitor), Open(desk, Win32App), Open(desk, Terminal),
                            CloseAll(desk), desk}
  BY DEF ItemChosen, CloseAll
<1>. QED
  BY <1>1, <1>2, OpenKeeps, CloseAllKeeps, LaterSame

\* A click keeps the invariant of the desktop.
LEMMA ClickStep ==
  ASSUME DesktopInv, wm_click_menu \/ wm_click_start \/ wm_click_window
  PROVE  DesktopInv'
<1>. USE DEF DesktopInv
<1>1. MouseInv' /\ PressInv'
  BY ConsumeStep DEF wm_click_menu, wm_click_start, wm_click_window
<1>2. hWnd' = hWnd /\ stale' = stale
  BY DEF wm_click_menu, wm_click_start, wm_click_window, mouse_consume_click
<1>3. Keeps(desk, desk')
  <2>1. CASE wm_click_menu
    BY <2>1, ItemKeeps DEF wm_click_menu, DeskInv
  <2>2. CASE wm_click_start
    BY <2>2, LaterSame DEF wm_click_start, DeskInv
  <2>3. CASE wm_click_window
    BY <2>3, ClickKeeps, ClickAtScreen DEF wm_click_window, DeskInv
  <2>. QED
    BY <2>1, <2>2, <2>3
<1>4. DeskInv'
  BY <1>2, <1>3, KeptDesk
<1>. QED
  BY <1>1, <1>4

\* A motion of the pointer does.
LEMMA DragStep ==
  ASSUME DesktopInv, wm_drag
  PROVE  DesktopInv'
<1>. USE DEF DesktopInv
<1>1. seen.pos \in Screen
  BY DEF MouseInv
<1>2. desk' = DraggedDesk(desk, g_prev_mouse_left, seen.left, seen.pos)
  BY DEF wm_drag, DraggedDesk
<1>3. Keeps(desk, desk')
  BY <1>1, <1>2, DragKeeps DEF DeskInv
<1>4. DeskInv'
  BY <1>3, KeptDesk DEF wm_drag
<1>5. MouseInv'
  BY PointerOnScreen DEF wm_drag, MouseInv
<1>6. PressInv'
  BY DEF wm_drag, MouseInv, PressInv
<1>. QED
  BY <1>4, <1>5, <1>6

\* A key and the command gui do.
LEMMA KeyStep ==
  ASSUME DesktopInv, wm_key_run \/ cmd_gui \/ \E e \in BOOLEAN : wm_key(e)
  PROVE  DesktopInv'
<1>. USE DEF DesktopInv
<1>1. CASE wm_key_run \/ \E e \in BOOLEAN : wm_key(e)
  <2>1. DeskInv'
    BY <1>1, SameDesk DEF wm_key_run, wm_key
  <2>2. MouseInv'
    BY <1>1 DEF wm_key_run, wm_key, MouseInv
  <2>3. PressInv'
    BY <1>1 DEF wm_key_run, wm_key, MouseInv, PressInv
  <2>. QED
    BY <2>1, <2>2, <2>3
<1>2. CASE cmd_gui
  <2>1. Keeps(EmptyDesk, desk')
    BY <1>2, EmptyKeeps, OpenKeeps, TerminalIs DEF cmd_gui
  <2>2. DeskInv'
    BY <1>2, <2>1, EmptyKeeps, NoHandle DEF cmd_gui, DeskInv, Keeps
  <2>3. MouseInv'
    BY <1>2, PointerOnScreen DEF cmd_gui, MouseInv
  <2>4. PressInv'
    BY <1>2 DEF cmd_gui, PressInv
  <2>. QED
    BY <2>2, <2>3, <2>4
<1>. QED
  BY <1>1, <1>2

\* A program's window does.
LEMMA CreateWindowStep ==
  ASSUME DeskInv, u32_CreateWindowExA
  PROVE  DeskInv'
<1>. DEFINE buffer == heap < Buffers
<1>. DEFINE s == FirstSlot(desk)
<1>0. Default \in Place /\ Default.title # "terminal" /\ buffer \in BOOLEAN
  BY DEF Place, Default
<1>1. desk' = wm_create_window(desk, Default, buffer) /\ stale' = stale
  BY DEF u32_CreateWindowExA
<1>2. Keeps(desk, desk')
  BY <1>0, <1>1, CreateFocused DEF DeskInv
<1>3. CASE desk' = desk
  BY <1>3, SameDesk DEF u32_CreateWindowExA
<1>4. CASE MadeAs(desk, desk', s, Default, buffer) /\ desk' # desk
  <2>. HIDE DEF buffer, s
  <2>1. /\ s \in Slot /\ Used(desk') = Used(desk) \cup {s}
        /\ \A t \in Slot \ {s} : Like(desk.windows[t], desk'.windows[t])
        /\ \A t \in Used(desk) : t # s
    BY <1>0, <1>4, MadeWindows DEF DeskInv
  <2>2. desk'.active = s /\ desk'.next_id = desk.next_id + 1 /\ desk.next_id \in Nat
    BY <1>4, DeskFields DEF MadeAs, DeskInv, Table
  <2>3. hWnd' = [slot |-> s, id |-> desk.next_id]
    BY <1>4, <2>2 DEF u32_CreateWindowExA
  <2>4. \A t \in Used(desk) : desk'.windows[t].id < desk.next_id /\ desk'.windows[t].id \in Nat
    BY <2>1, UsedFree, DeskFields DEF DeskInv, Table, Like
  <2>5. HandleOK(hWnd', desk')
    BY <2>1, <2>2, <2>3, <2>4 DEF HandleOK
  <2>. QED
    BY <1>1, <1>2, <2>5 DEF DeskInv, Keeps
<1>5. desk' = desk \/ MadeAs(desk, desk', s, Default, buffer)
  BY <1>1, MadeFields DEF DeskInv
<1>. QED
  BY <1>3, <1>4, <1>5

\* So does every call of a program, and its end.
LEMMA ProgramStep ==
  ASSUME DesktopInv, u32_CreateWindowExA \/ u32_ShowWindow \/ u32_MessageBoxA \/ ProgramEnds
  PROVE  DesktopInv'
<1>. USE DEF DesktopInv
<1>1. MouseInv'
  BY DEF u32_CreateWindowExA, u32_ShowWindow, u32_MessageBoxA, ProgramEnds, MouseInv
<1>2. PressInv'
  BY DEF u32_CreateWindowExA, u32_ShowWindow, u32_MessageBoxA, ProgramEnds, MouseInv, PressInv
<1>3. CASE u32_CreateWindowExA
  BY <1>1, <1>2, <1>3, CreateWindowStep
<1>4. CASE u32_ShowWindow
  <2>. DEFINE s == hWnd.slot
  <2>. DEFINE id == desk.windows[s].id
  <2>1. s \in Slot
    BY <1>4 DEF u32_ShowWindow, DeskInv, HandleOK
  <2>2. desk' = wm_focus_window(desk, id) /\ hWnd' = hWnd /\ (~stale' => ~stale /\ id # 0)
    BY <1>4 DEF u32_ShowWindow
  <2>3. id # 0 => s \in Used(desk) /\ desk.windows[s].id = id
    BY <2>1, UsedFree
  <2>. HIDE DEF id, s
  <2>4. /\ Table(desk') /\ Later(desk, desk')
        /\ (HasFocus(desk) /\ \E t \in Used(desk) : desk.windows[t].id = id) => HasFocus(desk')
    BY <2>2, FocusKeeps DEF DeskInv
  <2>5. HandleOK(hWnd', desk')
    BY <2>2, <2>4, HandleStays DEF DeskInv
  <2>6. DeskInv'
    BY <2>2, <2>3, <2>4, <2>5 DEF DeskInv
  <2>. QED
    BY <1>1, <1>2, <2>6
<1>5. CASE u32_MessageBoxA
  <2>1. Popup \in Place /\ Popup.title # "terminal" /\ (heap < Buffers) \in BOOLEAN
    BY DEF Place, Popup
  <2>2. Keeps(desk, desk')
    BY <1>5, <2>1, CreateFocused DEF u32_MessageBoxA, DeskInv
  <2>3. DeskInv'
    BY <1>5, <2>2, KeptDesk DEF u32_MessageBoxA
  <2>. QED
    BY <1>1, <1>2, <2>3
<1>6. CASE ProgramEnds
  <2>1. DeskInv'
    BY <1>6, SameDesk DEF ProgramEnds
  <2>. QED
    BY <1>1, <1>2, <2>1
<1>. QED
  BY <1>3, <1>4, <1>5, <1>6

\* Every step keeps the invariant of the desktop.
LEMMA NextInv == DesktopInv /\ [DesktopNext]_desktopVars => DesktopInv'
<1>. SUFFICES ASSUME DesktopInv, [DesktopNext]_desktopVars PROVE DesktopInv'
  OBVIOUS
<1>1. CASE UNCHANGED desktopVars
  <2>1. DeskInv'
    BY <1>1, SameDesk DEF desktopVars, DesktopInv
  <2>2. MouseInv' /\ PressInv'
    BY <1>1 DEF desktopVars, DesktopInv, MouseInv, PressInv
  <2>. QED
    BY <2>1, <2>2 DEF DesktopInv
<1>2. CASE DesktopNext
  BY <1>2, PacketStep, CopyStep, ClickStep, DragStep, KeyStep, ProgramStep
  DEF DesktopNext, wm_run_loop, u32_GetMessageA
<1>. QED
  BY <1>1, <1>2

\* It has all of WindowsCoherent.
LEMMA InvCoherent == DesktopInv => WindowsCoherent
<1>. SUFFICES ASSUME DesktopInv PROVE WindowsCoherent
  OBVIOUS
<1>1. Table(desk) /\ desk \in Desk
  BY DEF DesktopInv, DeskInv, Table
<1>2. WindowTable
  BY <1>1, DeskFields DEF DesktopInv, DeskInv, Table, HandleOK, WindowTable
<1>3. FocusCoherent
  BY <1>1 DEF DesktopInv, DeskInv, Table, HasFocus, FocusCoherent
<1>4. PressActsOnce
  BY DEF DesktopInv, PressInv, PressActsOnce
<1>5. TitlesReachable
  <2>. SUFFICES ASSUME NEW s \in Used(desk)
                PROVE  LET w == desk.windows[s] IN
                       w.x + w.width > 0 /\ w.x < ScreenWidth /\ Within(w.y, 32, ScreenHeight - 1)
    BY DEF TitlesReachable
  <2>. DEFINE w == desk.windows[s]
  <2>1. w \in Window /\ Placed(w)
    BY <1>1, UsedFree, DeskFields DEF Table
  <2>. HIDE DEF w
  <2>2. w.y \in (-ScreenHeight)..ScreenHeight
    BY <2>1 DEF Window
  <2>3. w.x + w.width > 0 /\ w.x < ScreenWidth /\ Within(w.y, 32, ScreenHeight - 1)
    BY <2>1, <2>2, ScreenIs DEF Placed, Within
  <2>. QED
    BY <2>3 DEF w
<1>. QED
  BY <1>2, <1>3, <1>4, <1>5 DEF WindowsCoherent

\* The invariant the windows' coherence follows from (wm.cpp, mouse.cpp, win32.cpp):
\* every number given is smaller than the next one, a free slot is not dragged,
\* a grip lies inside its window, and a press that did not race an update's copy
\* of the mouse is latched and not acted on, or is known to the next updates as held.
THEOREM DesktopInvariant == DesktopSpec => []DesktopInv
<1>. QED
  BY InitInv, NextInv, PTL DEF DesktopSpec

\* Windows, focus and clicks of wm.cpp stay coherent for any number of window
\* slots, any points the pointer visits and any number of packets and windows.
THEOREM WindowsStayCoherent == DesktopSpec => []WindowsCoherent
<1>. QED
  BY DesktopInvariant, InvCoherent, PTL

-----------------------------------------------------------------------------
(* The shell.                                                              *)

\* Induction, over the set of the numbers a fact holds of.
LEMMA Upwards ==
  ASSUME NEW S \in SUBSET Nat, 0 \in S, \A n \in S : n + 1 \in S
  PROVE  S = Nat
<1>. SUFFICES ASSUME S # Nat PROVE FALSE
  OBVIOUS
<1>. DEFINE B == Nat \ S
<1>1. B \in SUBSET Nat /\ B # {}
  OBVIOUS
<1>2. Min(B) \in B /\ \A y \in B : Min(B) <= y
  <2>. HIDE DEF B
  <2>. QED
    BY <1>1, MinOf
<1>. DEFINE b == Min(B)
<1>3. b \in Nat /\ b # 0
  BY <1>2
<1>4. b - 1 \in Nat /\ ~(b <= b - 1) /\ (b - 1) + 1 = b
  <2>. HIDE DEF b
  <2>. QED
    BY <1>3
<1>5. b - 1 \in S
  BY <1>2, <1>4
<1>. QED
  BY <1>2, <1>4, <1>5

\* What tokenize has found of a text, character by character.
IsUpTo(u, text) ==
  u = [i \in 0..Len(text) |-> IF i = 0 THEN NoToken ELSE TokenStep(u[i - 1], text[i])]

IsUpToN(u, text, n) ==
  u = [i \in 0..n |-> IF i = 0 THEN NoToken ELSE TokenStep(u[i - 1], text[i])]

\* tokenize is followed one character after another.
LEMMA UpTo ==
  ASSUME NEW text, Len(text) \in Nat
  PROVE  \E u : IsUpTo(u, text) /\ tokenize(text) = u[Len(text)]
<1>. DEFINE S == {n \in Nat : \E u : IsUpToN(u, text, n)}
<1>1. 0 \in S
  <2>1. IsUpToN([i \in 0..0 |-> NoToken], text, 0)
    BY DEF IsUpToN
  <2>. QED
    BY <2>1
<1>2. ASSUME NEW n \in S PROVE n + 1 \in S
  <2>1. PICK u : IsUpToN(u, text, n)
    OBVIOUS
  <2>. DEFINE v == [i \in 0..(n + 1) |-> IF i = n + 1 THEN TokenStep(u[n], text[n + 1]) ELSE u[i]]
  <2>2. v = [i \in 0..(n + 1) |-> IF i = 0 THEN NoToken ELSE TokenStep(v[i - 1], text[i])]
    <3>1. ASSUME NEW i \in 0..(n + 1)
          PROVE  v[i] = IF i = 0 THEN NoToken ELSE TokenStep(v[i - 1], text[i])
      <4>1. CASE i = n + 1
        BY <4>1
      <4>2. CASE i # n + 1
        <5>1. i \in 0..n /\ (i # 0 => i - 1 \in 0..n)
          BY <4>2
        <5>2. u[i] = IF i = 0 THEN NoToken ELSE TokenStep(u[i - 1], text[i])
          BY <2>1, <5>1 DEF IsUpToN
        <5>. QED
          BY <4>2, <5>1, <5>2
      <4>. QED
        BY <4>1, <4>2
    <3>. QED
      BY <3>1
  <2>. HIDE DEF v
  <2>3. IsUpToN(v, text, n + 1)
    BY <2>2, Zenon DEF IsUpToN
  <2>. QED
    BY <2>3
<1>3. S = Nat
  <2>. HIDE DEF S
  <2>1. S \in SUBSET Nat
    BY DEF S
  <2>. QED
    BY <1>1, <1>2, <2>1, Upwards
<1>. HIDE DEF S
<1>4. \E u : IsUpTo(u, text)
  <2>1. \E u : IsUpToN(u, text, Len(text))
    BY <1>3 DEF S
  <2>. QED
    BY <2>1, Zenon DEF IsUpToN, IsUpTo
<1>. DEFINE u == CHOOSE u : IsUpTo(u, text)
<1>5. IsUpTo(u, text)
  BY <1>4
<1>6. tokenize(text) = u[Len(text)]
  BY Zenon DEF tokenize, IsUpTo
<1>. QED
  BY <1>5, <1>6


-----------------------------------------------------------------------------
(* The words of a text.                                                    *)

Sign == Printable \cup {"esc", NUL}

Words(text, i) == Cardinality(Before(text, i + 1))

\* The m-th word goes from s to e, as far as the first i characters show.
WordAt(text, t, i, m, s, e) ==
  /\ s \in Before(text, i + 1) /\ s \in Nat /\ e \in Nat /\ s <= e /\ e <= i
  /\ Cardinality(Before(text, s)) = m - 1
  /\ t.argv[m] = SubSeq(text, s, e) /\ Running(text, s, e)
  /\ IF t.mode = "word" /\ m = Len(t.argv) THEN e = i ELSE e < i /\ IsBlank(text, e + 1)

Most == MAX_ARGS - 1

\* The fields of a state of tokenize, and no more.
TokShape(t) == t = [argv |-> t.argv, buf |-> t.buf, mode |-> t.mode]

TokInv(text, t, i) ==
  /\ t.argv \in Seq(Seq(Sign)) /\ t.mode \in {"gap", "word"}
  /\ TokShape(t)
  /\ Len(t.argv) = IF Words(text, i) <= Most THEN Words(text, i) ELSE Most
  /\ (t.mode = "word" <=> i > 0 /\ text[i] # Space /\ Words(text, i) <= Most)
  /\ (t.mode = "word" => Len(t.argv) > 0)
  /\ \A m \in 1..Len(t.argv) : \E s, e \in Nat : WordAt(text, t, i, m, s, e)

NoQuotes(text) == \A j \in DOMAIN text : text[j] # "quote"

\* There is room for some arguments.
LEMMA MostIs == Most \in Nat /\ Most > 0
BY ShellAssumption DEF Most

\* Finitely many words begin in a line.
LEMMA HeadsFinite ==
  ASSUME NEW text \in Seq(Sign)
  PROVE  /\ Heads(text) \subseteq 1..Len(text) /\ IsFiniteSet(Heads(text))
         /\ \A i : IsFiniteSet(Before(text, i)) /\ Cardinality(Before(text, i)) \in Nat
<1>1. Heads(text) \subseteq 1..Len(text)
  BY DEF Heads
<1>2. IsFiniteSet(1..Len(text))
  BY FS_Interval
<1>3. IsFiniteSet(Heads(text))
  BY <1>1, <1>2, FS_Subset
<1>4. ASSUME NEW i PROVE IsFiniteSet(Before(text, i)) /\ Cardinality(Before(text, i)) \in Nat
  <2>1. Before(text, i) \subseteq Heads(text)
    BY DEF Before
  <2>. QED
    BY <1>3, <2>1, FS_Subset, FS_CardinalityType
<1>. QED
  BY <1>1, <1>3, <1>4

\* A word begins at a character that follows none of a word.
LEMMA HeadHere ==
  ASSUME NEW text \in Seq(Sign), NEW i \in 1..Len(text)
  PROVE  i \in Heads(text) <=> text[i] # Space /\ (i = 1 \/ text[i - 1] = Space)
<1>1. i # 0 /\ i # Len(text) + 1 /\ i - 1 # Len(text) + 1 /\ (i - 1 = 0 <=> i = 1)
      /\ DOMAIN text = 1..Len(text)
  OBVIOUS
<1>. QED
  BY <1>1 DEF Heads, IsBlank

\* One more character is one more word, or none.
LEMMA OneMore ==
  ASSUME NEW text \in Seq(Sign), NEW i \in 0..(Len(text) - 1)
  PROVE  /\ Words(text, i) \in Nat
         /\ Before(text, i + 1) \subseteq Before(text, (i + 1) + 1)
         /\ i + 1 \in Heads(text) =>
              Words(text, i + 1) = Words(text, i) + 1 /\ i + 1 \in Before(text, (i + 1) + 1)
         /\ i + 1 \notin Heads(text) => Words(text, i + 1) = Words(text, i)
<1>1. Before(text, (i + 1) + 1) = Before(text, i + 1) \cup ({i + 1} \cap Heads(text))
  <2>1. \A k \in Heads(text) : k \in Nat
    BY HeadsFinite
  <2>2. \A k \in Heads(text) : k < (i + 1) + 1 <=> k < i + 1 \/ k = i + 1
    BY <2>1
  <2>3. ~(i + 1 < i + 1)
    OBVIOUS
  <2>. QED
    BY <2>2 DEF Before
<1>2. IsFiniteSet(Before(text, i + 1)) /\ Cardinality(Before(text, i + 1)) \in Nat
  BY HeadsFinite
<1>3. i + 1 \notin Before(text, i + 1)
  BY DEF Before
<1>4. Cardinality(Before(text, i + 1) \cup {i + 1}) = Cardinality(Before(text, i + 1)) + 1
  BY <1>2, <1>3, FS_AddElement
<1>. QED
  BY <1>1, <1>2, <1>4 DEF Words

\* Longer: a word that has come to its end stays, whatever follows.
LEMMA WordStays ==
  ASSUME NEW text \in Seq(Sign), NEW i \in 0..(Len(text) - 1), NEW t, NEW u, NEW m \in Nat,
         NEW s, NEW e, WordAt(text, t, i, m, s, e),
         u.argv[m] = t.argv[m], ~(u.mode = "word" /\ m = Len(u.argv)),
         (t.mode = "word" /\ m = Len(t.argv)) => IsBlank(text, i + 1)
  PROVE  WordAt(text, u, i + 1, m, s, e)
<1>1. s \in Before(text, (i + 1) + 1)
  BY OneMore DEF WordAt
<1>2. e <= i + 1 /\ e < i + 1
  BY DEF WordAt
<1>3. IsBlank(text, e + 1)
  BY DEF WordAt
<1>. QED
  BY <1>1, <1>2, <1>3 DEF WordAt

\* The invariant of tokenize holds before the first character.
LEMMA TokStart == ASSUME NEW text \in Seq(Sign) PROVE TokInv(text, NoToken, 0)
<1>1. Words(text, 0) = 0
  <2>1. \A k \in Heads(text) : k \in Nat /\ k # 0
    BY HeadsFinite
  <2>2. \A k \in Heads(text) : ~(k < 0 + 1)
    BY <2>1
  <2>3. Before(text, 0 + 1) = {}
    BY <2>2 DEF Before
  <2>. QED
    BY <2>3, FS_EmptySet DEF Words
<1>2. 0 <= Most
  BY MostIs
<1>3. /\ NoToken.argv = <<>> /\ NoToken.mode = "gap"
      /\ TokShape(NoToken)
  BY DEF NoToken, TokShape
<1>. HIDE DEF NoToken
<1>4. <<>> \in Seq(Seq(Sign)) /\ Len(<<>>) = 0 /\ 1..0 = {}
  OBVIOUS
<1>. QED
  BY <1>1, <1>2, <1>3, <1>4 DEF TokInv


\* What TokenStep does where there are no quotes.
LEMMA StepIs ==
  ASSUME NEW t, TokShape(t),
         t.mode \in {"gap", "word"}, NEW c, c # "quote"
  PROVE  LET u == TokenStep(t, c) IN
         /\ TokShape(u)
         /\ c = Space \/ (t.mode = "gap" /\ Len(t.argv) = Most) => u.argv = t.argv /\ u.mode = "gap"
         /\ c # Space /\ t.mode = "gap" /\ Len(t.argv) # Most =>
              u.argv = Append(t.argv, <<c>>) /\ u.mode = "word"
         /\ c # Space /\ t.mode = "word" =>
              u.argv = [t.argv EXCEPT ![Len(t.argv)] = Append(@, c)] /\ u.mode = "word"
BY DEF TokenStep, Most, TokShape

\* A piece of one symbol is that symbol.
LEMMA OneLong ==
  ASSUME NEW S, NEW text \in Seq(S), NEW i \in 1..Len(text)
  PROVE  SubSeq(text, i, i) = <<text[i]>>
<1>. DEFINE a == SubSeq(text, i, i)
<1>1. a \in Seq(S) /\ Len(a) = 1 /\ a[1] = text[i]
  OBVIOUS
<1>2. <<text[i]>> \in Seq(S) /\ Len(<<text[i]>>) = 1 /\ <<text[i]>>[1] = text[i]
  OBVIOUS
<1>3. \A j \in 1..1 : j = 1
  OBVIOUS
<1>. HIDE DEF a
<1>4. a = [j \in 1..1 |-> a[j]] /\ <<text[i]>> = [j \in 1..1 |-> <<text[i]>>[j]]
  BY <1>1, <1>2
<1>. QED
  BY <1>1, <1>2, <1>3, <1>4 DEF a

\* One more character, in the cases TokenStep tells apart.
LEMMA TokNext ==
  ASSUME NEW text \in Seq(Sign), NoQuotes(text),
         NEW i \in 0..(Len(text) - 1), NEW t, TokInv(text, t, i)
  PROVE  TokInv(text, TokenStep(t, text[i + 1]), i + 1)
<1>. DEFINE c == text[i + 1]
<1>. DEFINE u == TokenStep(t, c)
<1>. DEFINE w == Words(text, i)
<1>. DEFINE w2 == Words(text, i + 1)
<1>. DEFINE L == Len(t.argv)
<1>0. /\ i \in Nat /\ i + 1 \in 1..Len(text) /\ i + 1 \in Nat /\ i + 1 > 0 /\ c \in Sign /\ c # "quote"
      /\ (i > 0 => i \in 1..Len(text)) /\ (i + 1 = 1 <=> i = 0) /\ (i = 0 <=> ~(i > 0))
  BY DEF NoQuotes
<1>1. /\ t.argv \in Seq(Seq(Sign)) /\ t.mode \in {"gap", "word"} /\ L \in Nat
      /\ TokShape(t)
      /\ L = (IF w <= Most THEN w ELSE Most)
      /\ (t.mode = "word" <=> i > 0 /\ text[i] # Space /\ w <= Most)
      /\ (t.mode = "word" => L > 0)
  BY DEF TokInv
<1>2. \A m \in 1..L : \E s, e \in Nat : WordAt(text, t, i, m, s, e)
  BY DEF TokInv
<1>3. /\ w \in Nat /\ w2 \in Nat
      /\ (i + 1 \in Heads(text) <=> c # Space /\ (i = 0 \/ text[i] = Space))
      /\ (i + 1 \in Heads(text) => w2 = w + 1 /\ i + 1 \in Before(text, (i + 1) + 1))
      /\ (i + 1 \notin Heads(text) => w2 = w)
      /\ Before(text, i + 1) \subseteq Before(text, (i + 1) + 1)
  <2>1. i + 1 \in Heads(text) <=> c # Space /\ (i = 0 \/ text[i] = Space)
    BY <1>0, HeadHere
  <2>. QED
    BY <2>1, OneMore
<1>4. IsBlank(text, i + 1) <=> c = Space
  BY <1>0 DEF IsBlank
<1>5. /\ TokShape(u)
      /\ (c = Space \/ (t.mode = "gap" /\ L = Most) => u.argv = t.argv /\ u.mode = "gap")
      /\ (c # Space /\ t.mode = "gap" /\ L # Most => u.argv = Append(t.argv, <<c>>) /\ u.mode = "word")
      /\ (c # Space /\ t.mode = "word" =>
              u.argv = [t.argv EXCEPT ![L] = Append(@, c)] /\ u.mode = "word")
  <2>. HIDE DEF c
  <2>. QED
    BY <1>0, <1>1, StepIs
<1>6. Most \in Nat /\ Most > 0
  BY MostIs
<1>7. ASSUME u.argv \in Seq(Seq(Sign)), u.mode \in {"gap", "word"},
             Len(u.argv) = IF w2 <= Most THEN w2 ELSE Most,
             u.mode = "word" <=> c # Space /\ w2 <= Most,
             u.mode = "word" => Len(u.argv) > 0,
             \A m \in 1..Len(u.argv) : \E s, e \in Nat : WordAt(text, u, i + 1, m, s, e)
      PROVE  TokInv(text, u, i + 1)
  <2>. HIDE DEF u
  <2>. QED
    BY <1>0, <1>5, <1>7 DEF TokInv
<1>. HIDE DEF w, w2, u, c, L
<1>8. CASE c = Space \/ (t.mode = "gap" /\ L = Most)
  <2>1. u.argv = t.argv /\ u.mode = "gap"
    BY <1>5, <1>8
  <2>2. c = Space => w2 = w
    BY <1>3
  <2>3. c # Space => w2 > Most /\ w >= Most
    BY <1>0, <1>1, <1>3, <1>6, <1>8
  <2>4. ASSUME NEW m \in 1..L PROVE \E s, e \in Nat : WordAt(text, u, i + 1, m, s, e)
    <3>1. PICK s \in Nat, e \in Nat : WordAt(text, t, i, m, s, e)
      BY <1>2
    <3>2. ~(u.mode = "word" /\ m = Len(u.argv)) /\ u.argv[m] = t.argv[m] /\ m \in Nat
      BY <2>1, <1>1
    <3>3. t.mode = "word" /\ m = Len(t.argv) => IsBlank(text, i + 1)
      BY <1>4, <1>8
    <3>4. WordAt(text, u, i + 1, m, s, e)
      BY <3>1, <3>2, <3>3, WordStays
    <3>. QED
      BY <3>4
  <2>5. u.mode = "word" <=> c # Space /\ w2 <= Most
    BY <1>3, <1>6, <2>1, <2>3
  <2>6. L = IF w2 <= Most THEN w2 ELSE Most
    BY <1>1, <1>3, <1>6, <2>2, <2>3
  <2>7. Len(u.argv) = L /\ u.argv \in Seq(Seq(Sign))
    BY <1>1, <2>1 DEF L
  <2>8. Len(u.argv) = IF w2 <= Most THEN w2 ELSE Most
    BY <2>6, <2>7
  <2>9. \A m \in 1..Len(u.argv) : \E s, e \in Nat : WordAt(text, u, i + 1, m, s, e)
    BY <2>4, <2>7
  <2>10. u.mode \in {"gap", "word"} /\ (u.mode = "word" => Len(u.argv) > 0)
    BY <2>1
  <2>11. TokInv(text, u, i + 1)
    BY <1>7, <2>5, <2>7, <2>8, <2>9, <2>10, Zenon
  <2>. QED
    BY <2>11 DEF u, c
<1>9. CASE c # Space /\ t.mode = "word"
  <2>1. i > 0 /\ text[i] # Space /\ w <= Most /\ L = w /\ L > 0 /\ w2 = w /\ L \in 1..L
    BY <1>0, <1>1, <1>3, <1>9
  <2>2. u.argv = [t.argv EXCEPT ![L] = Append(@, c)] /\ u.mode = "word"
    BY <1>5, <1>9
  <2>3. /\ u.argv \in Seq(Seq(Sign)) /\ Len(u.argv) = L
        /\ u.argv[L] = Append(t.argv[L], c)
        /\ \A m \in 1..L : m # L => u.argv[m] = t.argv[m]
    BY <1>0, <1>1, <2>1, <2>2 DEF L
  <2>4. ASSUME NEW m \in 1..L, m # L PROVE \E s, e \in Nat : WordAt(text, u, i + 1, m, s, e)
    <3>1. PICK s \in Nat, e \in Nat : WordAt(text, t, i, m, s, e)
      BY <1>2
    <3>2. ~(u.mode = "word" /\ m = Len(u.argv)) /\ u.argv[m] = t.argv[m] /\ m \in Nat
      BY <2>3, <2>4, <1>1
    <3>3. ~(t.mode = "word" /\ m = Len(t.argv))
      BY <2>4 DEF L
    <3>4. WordAt(text, u, i + 1, m, s, e)
      BY <3>1, <3>2, <3>3, WordStays
    <3>. QED
      BY <3>4
  <2>5. \E s, e \in Nat : WordAt(text, u, i + 1, L, s, e)
    <3>1. PICK s \in Nat, e \in Nat : WordAt(text, t, i, L, s, e)
      BY <1>2, <2>1
    <3>2. e = i /\ s <= i /\ Running(text, s, i) /\ t.argv[L] = SubSeq(text, s, i)
          /\ s \in Before(text, i + 1) /\ Cardinality(Before(text, s)) = L - 1 /\ s > 0
      <4>1. e = i
        BY <1>9, <3>1 DEF WordAt, L
      <4>2. s \in Heads(text)
        BY <3>1 DEF WordAt, Before
      <4>3. s > 0
        BY <4>2, HeadsFinite
      <4>. QED
        BY <3>1, <4>1, <4>3 DEF WordAt
    <3>3. u.argv[L] = SubSeq(text, s, i + 1)
      <4>1. Append(SubSeq(text, s, i), text[i + 1]) = SubSeq(text, s, i + 1)
        BY <1>0, <3>2
      <4>. QED
        BY <2>3, <3>2, <4>1 DEF c
    <3>4. Running(text, s, i + 1)
      <4>1. \A j \in s..(i + 1) : j \in s..i \/ j = i + 1
        BY <1>0
      <4>. QED
        BY <1>4, <1>9, <3>2, <4>1 DEF Running
    <3>5. s <= i + 1 /\ s \in Before(text, (i + 1) + 1) /\ i + 1 <= i + 1
      BY <1>0, <1>3, <3>2
    <3>6. WordAt(text, u, i + 1, L, s, i + 1)
      BY <1>0, <2>2, <2>3, <3>2, <3>3, <3>4, <3>5 DEF WordAt
    <3>. QED
      BY <1>0, <3>6
  <2>6. \A m \in 1..Len(u.argv) : \E s, e \in Nat : WordAt(text, u, i + 1, m, s, e)
    BY <2>3, <2>4, <2>5
  <2>7. Len(u.argv) = IF w2 <= Most THEN w2 ELSE Most
    BY <2>1, <2>3
  <2>8. u.mode \in {"gap", "word"} /\ (u.mode = "word" => Len(u.argv) > 0)
        /\ (u.mode = "word" <=> c # Space /\ w2 <= Most)
    BY <1>9, <2>1, <2>2, <2>3
  <2>9. TokInv(text, u, i + 1)
    BY <1>7, <2>3, <2>6, <2>7, <2>8, Zenon
  <2>. QED
    BY <2>9 DEF u, c
<1>10. CASE c # Space /\ t.mode = "gap" /\ L # Most
  <2>1. w < Most /\ L = w
    BY <1>1, <1>3, <1>6, <1>10
  <2>2. (i = 0 \/ text[i] = Space) /\ i + 1 \in Heads(text) /\ w2 = w + 1 /\ w2 <= Most
    BY <1>0, <1>1, <1>3, <1>6, <1>10, <2>1
  <2>3. u.argv = Append(t.argv, <<c>>) /\ u.mode = "word"
    BY <1>5, <1>10
  <2>4. /\ u.argv \in Seq(Seq(Sign)) /\ Len(u.argv) = L + 1
        /\ u.argv[L + 1] = <<c>>
        /\ \A m \in 1..L : u.argv[m] = t.argv[m]
    BY <1>0, <1>1, <2>3 DEF L
  <2>5. ASSUME NEW m \in 1..L PROVE \E s, e \in Nat : WordAt(text, u, i + 1, m, s, e)
    <3>1. PICK s \in Nat, e \in Nat : WordAt(text, t, i, m, s, e)
      BY <1>2
    <3>2. ~(u.mode = "word" /\ m = Len(u.argv)) /\ u.argv[m] = t.argv[m] /\ m \in Nat
      BY <2>4, <1>1
    <3>3. ~(t.mode = "word" /\ m = Len(t.argv))
      BY <1>10
    <3>4. WordAt(text, u, i + 1, m, s, e)
      BY <3>1, <3>2, <3>3, WordStays
    <3>. QED
      BY <3>4
  <2>6. WordAt(text, u, i + 1, L + 1, i + 1, i + 1)
    <3>1. Cardinality(Before(text, i + 1)) = (L + 1) - 1
      BY <1>1, <2>1 DEF w, Words
    <3>2. SubSeq(text, i + 1, i + 1) = <<c>>
      BY <1>0, OneLong DEF c
    <3>3. Running(text, i + 1, i + 1)
      BY <1>0, <1>4, <1>10 DEF Running
    <3>4. i + 1 \in Before(text, (i + 1) + 1) /\ i + 1 <= i + 1
      BY <1>0, <1>3, <2>2
    <3>5. u.argv[L + 1] = SubSeq(text, i + 1, i + 1) /\ L + 1 = Len(u.argv)
      BY <2>4, <3>2, Zenon
    <3>. QED
      BY <1>0, <2>3, <3>1, <3>3, <3>4, <3>5, Zenon DEF WordAt
  <2>7. \A m \in 1..Len(u.argv) : \E s, e \in Nat : WordAt(text, u, i + 1, m, s, e)
    <3>1. \A m \in 1..(L + 1) : m \in 1..L \/ m = L + 1
      BY <1>1
    <3>. QED
      BY <1>0, <2>4, <2>5, <2>6, <3>1
  <2>8. Len(u.argv) = IF w2 <= Most THEN w2 ELSE Most
    BY <1>3, <2>1, <2>2, <2>4
  <2>9. u.mode \in {"gap", "word"} /\ (u.mode = "word" => Len(u.argv) > 0)
        /\ (u.mode = "word" <=> c # Space /\ w2 <= Most)
    BY <1>1, <1>10, <2>2, <2>3, <2>4
  <2>10. TokInv(text, u, i + 1)
    BY <1>7, <2>4, <2>7, <2>8, <2>9, Zenon
  <2>. QED
    BY <2>10 DEF u, c
<1>. QED
  BY <1>1, <1>8, <1>9, <1>10 DEF u, c


BufInv(t, i) == TokShape(t) /\ t.buf \in Seq(Sign) /\ Len(t.buf) = i

\* A character more keeps what is known of the buffer.
LEMMA BufNext ==
  ASSUME NEW t, NEW i \in Nat, BufInv(t, i), NEW c \in Sign
  PROVE  BufInv(TokenStep(t, c), i + 1)
<1>. DEFINE u == TokenStep(t, c)
<1>1. NUL \in Sign
  BY DEF Sign
<1>2. t.buf \in Seq(Sign) /\ Len(t.buf) = i
  BY DEF BufInv
<1>3. /\ Append(t.buf, c) \in Seq(Sign) /\ Len(Append(t.buf, c)) = i + 1
      /\ Append(t.buf, NUL) \in Seq(Sign) /\ Len(Append(t.buf, NUL)) = i + 1
  BY <1>1, <1>2
<1>4. TokShape(t)
  BY DEF BufInv
<1>5. u.buf \in {Append(t.buf, c), Append(t.buf, NUL)} /\ TokShape(u)
  BY <1>4 DEF TokenStep, TokShape
<1>. HIDE DEF u
<1>6. BufInv(u, i + 1)
  BY <1>3, <1>5 DEF BufInv
<1>. QED
  BY <1>6 DEF u

\* tokenize changes no length, and what it finds is what TokInv says.
LEMMA TokAll ==
  ASSUME NEW text \in Seq(Sign)
  PROVE  /\ BufInv(tokenize(text), Len(text))
         /\ NoQuotes(text) => TokInv(text, tokenize(text), Len(text))
<1>1. PICK u : IsUpTo(u, text) /\ tokenize(text) = u[Len(text)]
  BY UpTo
<1>2. u[0] = NoToken
  BY <1>1 DEF IsUpTo
<1>3. \A i \in 0..(Len(text) - 1) : u[i + 1] = TokenStep(u[i], text[i + 1])
  <2>. TAKE i \in 0..(Len(text) - 1)
  <2>1. i + 1 \in 0..Len(text) /\ i + 1 # 0 /\ (i + 1) - 1 = i
    OBVIOUS
  <2>2. u[i + 1] = IF i + 1 = 0 THEN NoToken ELSE TokenStep(u[(i + 1) - 1], text[i + 1])
    BY <1>1, <2>1, Zenon DEF IsUpTo
  <2>. QED
    BY <2>1, <2>2, Zenon
<1>4. BufInv(NoToken, 0)
  BY DEF BufInv, NoToken, TokShape
<1>. DEFINE S == {i \in Nat : i <= Len(text) =>
                     BufInv(u[i], i) /\ (NoQuotes(text) => TokInv(text, u[i], i))}
<1>5. 0 \in S
  BY <1>2, <1>4, TokStart
<1>6. ASSUME NEW i \in S PROVE i + 1 \in S
  <2>1. CASE i + 1 <= Len(text)
    <3>1. i \in 0..(Len(text) - 1) /\ text[i + 1] \in Sign /\ i <= Len(text)
      BY <2>1
    <3>2. BufInv(u[i], i) /\ (NoQuotes(text) => TokInv(text, u[i], i))
      BY <3>1
    <3>3. u[i + 1] = TokenStep(u[i], text[i + 1])
      BY <1>3, <3>1
    <3>4. BufInv(u[i + 1], i + 1)
      BY <3>1, <3>2, <3>3, BufNext
    <3>5. NoQuotes(text) => TokInv(text, u[i + 1], i + 1)
      BY <3>1, <3>2, <3>3, TokNext, Zenon DEF NoQuotes
    <3>. QED
      BY <3>4, <3>5
  <2>2. CASE ~(i + 1 <= Len(text))
    BY <2>2
  <2>. QED
    BY <2>1, <2>2
<1>7. S = Nat
  <2>. HIDE DEF S
  <2>1. S \in SUBSET Nat
    BY DEF S
  <2>. QED
    BY <1>5, <1>6, <2>1, Upwards
<1>8. Len(text) \in S /\ Len(text) \in Nat /\ Len(text) <= Len(text)
  BY <1>7
<1>. QED
  BY <1>1, <1>8

\* No two words have the same number of words before them.
LEMMA RankUnique ==
  ASSUME NEW text \in Seq(Sign), NEW a \in Heads(text), NEW b \in Heads(text),
         Cardinality(Before(text, a)) = Cardinality(Before(text, b))
  PROVE  a = b
<1>1. ASSUME NEW x \in Heads(text), NEW y \in Heads(text), x < y
      PROVE  Cardinality(Before(text, x)) # Cardinality(Before(text, y))
  <2>1. x \in Nat /\ y \in Nat /\ \A k \in Heads(text) : k \in Nat
    BY HeadsFinite
  <2>2. Before(text, x) \subseteq Before(text, y)
    <3>1. \A k \in Heads(text) : k < x => k < y
      BY <1>1, <2>1
    <3>. QED
      BY <3>1 DEF Before
  <2>3. x \in Before(text, y) /\ x \notin Before(text, x)
    BY <1>1, <2>1 DEF Before
  <2>4. IsFiniteSet(Before(text, y)) /\ Cardinality(Before(text, x)) \in Nat
    BY HeadsFinite
  <2>5. Cardinality(Before(text, x)) < Cardinality(Before(text, y))
    <3>1. Cardinality(Before(text, y)) \in Nat /\ Before(text, x) # Before(text, y)
      BY <2>3, HeadsFinite
    <3>2. /\ Cardinality(Before(text, x)) <= Cardinality(Before(text, y))
          /\ Cardinality(Before(text, x)) = Cardinality(Before(text, y)) =>
               Before(text, x) = Before(text, y)
      BY <2>2, <2>4, FS_Subset
    <3>. QED
      BY <2>4, <3>1, <3>2
  <2>. QED
    BY <2>4, <2>5
<1>2. a \in Nat /\ b \in Nat
  BY HeadsFinite
<1>. QED
  BY <1>1, <1>2

\* A word ends where the first blank follows.
LEMMA EndUnique ==
  ASSUME NEW text \in Seq(Sign), NEW s \in Nat, NEW e \in Nat, s <= e, e <= Len(text),
         IsBlank(text, e + 1), Running(text, s, e)
  PROVE  WordEnd(text, s) = e
<1>1. e \in s..Len(text)
  OBVIOUS
<1>2. ASSUME NEW j \in s..Len(text), IsBlank(text, j + 1), Running(text, s, j), j # e
      PROVE  FALSE
  <2>1. CASE j < e
    <3>1. j + 1 \in s..e
      BY <2>1
    <3>. QED
      BY <1>2, <3>1 DEF Running
  <2>2. CASE e < j
    <3>1. e + 1 \in s..j
      BY <2>2
    <3>. QED
      BY <1>2, <3>1 DEF Running
  <2>. QED
    BY <1>2, <2>1, <2>2
<1>. QED
  BY <1>1, <1>2, Zenon DEF WordEnd


WordOf(text, m) == SubSeq(text, Nth(text, m), WordEnd(text, Nth(text, m)))

\* The argument is the word when its end has been found.
LEMMA WordFound ==
  ASSUME NEW text \in Seq(Sign), NEW t, NEW m \in Nat, NEW s \in Nat, NEW e \in Nat,
         WordAt(text, t, Len(text), m, s, e)
  PROVE  t.argv[m] = WordOf(text, m)
<1>1. s \in Heads(text) /\ Cardinality(Before(text, s)) = m - 1
  BY DEF WordAt, Before
<1>2. Nth(text, m) = s
  <2>1. \A i \in Heads(text) : Cardinality(Before(text, i)) = m - 1 => i = s
    BY <1>1, RankUnique
  <2>. QED
    BY <1>1, <2>1, Zenon DEF Nth
<1>3. s <= e /\ e <= Len(text) /\ Running(text, s, e) /\ t.argv[m] = SubSeq(text, s, e)
  BY DEF WordAt
<1>4. IsBlank(text, e + 1)
  <2>1. CASE e < Len(text)
    BY <2>1 DEF WordAt
  <2>2. CASE e = Len(text)
    BY <2>2 DEF IsBlank
  <2>. QED
    BY <1>3, <2>1, <2>2
<1>5. WordEnd(text, s) = e
  BY <1>3, <1>4, EndUnique
<1>. QED
  BY <1>2, <1>3, <1>5, Zenon DEF WordOf

\* A line without quotes is split into its first words.
LEMMA WordsAre ==
  ASSUME NEW text \in Seq(Sign), NoQuotes(text)
  PROVE  tokenize(text).argv = [m \in 1..Min({Cardinality(Heads(text)), Most}) |-> WordOf(text, m)]
<1>. DEFINE t == tokenize(text)
<1>. DEFINE k == Cardinality(Heads(text))
<1>1. TokInv(text, t, Len(text))
  BY TokAll
<1>. HIDE DEF t
<1>2. Words(text, Len(text)) = k /\ k \in Nat
  <2>1. Heads(text) \subseteq 1..Len(text)
    BY HeadsFinite
  <2>2. \A i \in Heads(text) : i < Len(text) + 1
    BY <2>1
  <2>3. Before(text, Len(text) + 1) = Heads(text)
    BY <2>2 DEF Before
  <2>4. k \in Nat
    BY HeadsFinite, FS_CardinalityType
  <2>. QED
    BY <2>3, <2>4 DEF Words
<1>3. Min({k, Most}) = IF k <= Most THEN k ELSE Most
  <2>. HIDE DEF k
  <2>1. {k, Most} \in SUBSET Nat /\ {k, Most} # {}
    BY <1>2, MostIs
  <2>2. Min({k, Most}) \in {k, Most} /\ \A y \in {k, Most} : Min({k, Most}) <= y
    BY <2>1, MinOf
  <2>. QED
    BY <1>2, <2>2, MostIs
<1>4. Len(t.argv) = Min({k, Most}) /\ t.argv \in Seq(Seq(Sign))
  BY <1>1, <1>2, <1>3 DEF TokInv
<1>5. ASSUME NEW m \in 1..Len(t.argv) PROVE t.argv[m] = WordOf(text, m)
  <2>1. PICK s, e \in Nat : WordAt(text, t, Len(text), m, s, e)
    BY <1>1 DEF TokInv
  <2>2. m \in Nat
    BY <1>4
  <2>. QED
    BY <2>1, <2>2, WordFound
<1>6. t.argv = [m \in 1..Len(t.argv) |-> t.argv[m]]
  <2>1. t.argv \in [1..Len(t.argv) -> Seq(Sign)]
    BY <1>4, LenProperties
  <2>. QED
    BY <2>1
<1>7. t.argv = [m \in 1..Min({k, Most}) |-> WordOf(text, m)]
  <2>. HIDE DEF k
  <2>1. [m \in 1..Len(t.argv) |-> t.argv[m]] = [m \in 1..Len(t.argv) |-> WordOf(text, m)]
    BY <1>5, Zenon
  <2>. QED
    BY <1>4, <1>6, <2>1, Zenon
<1>. QED
  BY <1>7 DEF t

\* What is read of a buffer ends before its first NUL.
LEMMA CStringIs ==
  ASSUME NEW buf \in Seq(Sign)
  PROVE  /\ CString(buf) \in Seq(Sign) /\ Len(CString(buf)) <= Len(buf)
         /\ \A i \in DOMAIN CString(buf) : CString(buf)[i] # NUL /\ CString(buf)[i] = buf[i]
         /\ (\A i \in DOMAIN buf : buf[i] # NUL) => CString(buf) = buf
         /\ (\E i \in DOMAIN buf : buf[i] = NUL) =>
              Len(CString(buf)) < Len(buf) /\ buf[Len(CString(buf)) + 1] = NUL
<1>1. CASE \E i \in DOMAIN buf : buf[i] = NUL
  <2>. DEFINE S == {i \in DOMAIN buf : buf[i] = NUL}
  <2>1. S \in SUBSET Nat /\ S # {}
    BY <1>1
  <2>2. Min(S) \in S /\ \A y \in S : Min(S) <= y
    <3>. HIDE DEF S
    <3>. QED
      BY <2>1, MinOf
  <2>3. \E i \in DOMAIN buf : buf[i] = NUL /\ \A j \in 1..(i - 1) : buf[j] # NUL
    <3>. DEFINE i == Min(S)
    <3>1. i \in DOMAIN buf /\ buf[i] = NUL /\ \A y \in S : i <= y
      BY <2>2
    <3>. HIDE DEF i
    <3>2. ASSUME NEW j \in 1..(i - 1) PROVE buf[j] # NUL
      <4>1. j \in DOMAIN buf /\ ~(i <= j)
        BY <3>1
      <4>. QED
        BY <3>1, <4>1
    <3>. QED
      BY <3>1, <3>2
  <2>4. PICK i \in DOMAIN buf : /\ buf[i] = NUL /\ \A j \in 1..(i - 1) : buf[j] # NUL
                                /\ CString(buf) = SubSeq(buf, 1, i - 1)
    BY <1>1, <2>3, Zenon DEF CString
  <2>. HIDE DEF S
  <2>. QED
    BY <2>4
<1>2. CASE ~(\E i \in DOMAIN buf : buf[i] = NUL)
  <2>1. CString(buf) = buf
    BY <1>2, Zenon DEF CString
  <2>. QED
    BY <1>2, <2>1
<1>. QED
  BY <1>1, <1>2


-----------------------------------------------------------------------------
(* A line as it is edited: b in the buffer, s on the console.              *)

Clean(b) == b \in Seq(Sign) /\ \A i \in DOMAIN b : b[i] # NUL

EditOk(b, s, left) ==
  /\ b \in Seq(Sign) /\ s \in Seq(Sign) /\ Len(s) <= Len(b) /\ Len(b) <= MAX_LINE_LEN
  /\ "serial" \notin left => Len(b) < MAX_LINE_LEN /\ Clean(b) /\ s = b
  /\ Len(b) = MAX_LINE_LEN => b[MAX_LINE_LEN] = Space /\ \E i \in DOMAIN b : b[i] = NUL

\* A line that may be recalled.
Recalled(text) == Clean(text) /\ Len(text) < MAX_LINE_LEN

\* The terminal's lines are no longer than the console's.
LEMMA RoomIs == MAX_LINE_LEN \in Nat /\ MAX_LINE_LEN > 0 /\ TERM_CMD_MAX \in 1..MAX_LINE_LEN
BY ShellAssumption

\* The console's line agrees with what is shown also if its line is still being executed.
LEMMA EditMono ==
  ASSUME NEW b, NEW s, NEW left, NEW later, EditOk(b, s, left),
         "serial" \in left => "serial" \in later
  PROVE  EditOk(b, s, later)
BY DEF EditOk

\* An empty line agrees with nothing shown.
LEMMA EditEmpty == ASSUME NEW left PROVE EditOk(<<>>, <<>>, left)
BY RoomIs DEF EditOk, Clean

\* A character erased from both keeps them in agreement.
LEMMA EditErase ==
  ASSUME NEW b, NEW s, NEW left, EditOk(b, s, left), b # <<>>
  PROVE  EditOk(Front(b), IF s = <<>> THEN s ELSE Front(s), left)
<1>1. b \in Seq(Sign) /\ s \in Seq(Sign) /\ Len(s) <= Len(b) /\ Len(b) <= MAX_LINE_LEN
  BY DEF EditOk
<1>0. Len(b) \in Nat /\ Len(b) > 0
  BY <1>1, EmptySeq
<1>2. Front(b) \in Seq(Sign) /\ Len(Front(b)) = Len(b) - 1
      /\ \A i \in 1..(Len(b) - 1) : Front(b)[i] = b[i]
  <2>. DEFINE n == Len(b) - 1
  <2>1. n \in Nat /\ n <= Len(b)
    BY <1>0
  <2>. HIDE DEF n
  <2>2. SubSeq(b, 1, n) \in Seq(Sign) /\ Len(SubSeq(b, 1, n)) = n
        /\ \A i \in 1..n : SubSeq(b, 1, n)[i] = b[i]
    BY <1>1, <2>1
  <2>. QED
    BY <2>2 DEF Front, n
<1>. DEFINE r == IF s = <<>> THEN s ELSE Front(s)
<1>3. r \in Seq(Sign) /\ Len(r) <= Len(b) - 1 /\ (s = b => r = Front(b))
  BY <1>1 DEF Front
<1>4. Clean(b) => Clean(Front(b))
  BY <1>1, <1>2 DEF Clean
<1>5. "serial" \notin left => Clean(b) /\ s = b
  BY DEF EditOk
<1>. HIDE DEF r
<1>6. EditOk(Front(b), r, left)
  BY <1>0, <1>1, <1>2, <1>3, <1>4, <1>5, RoomIs DEF EditOk
<1>. QED
  BY <1>6 DEF r

\* Two texts without NUL make one.
LEMMA CleanLonger ==
  ASSUME NEW b, NEW c, Clean(b), Clean(c)
  PROVE  Clean(b \o c)
<1>1. b \in Seq(Sign) /\ c \in Seq(Sign)
  BY DEF Clean
<1>2. b \o c \in Seq(Sign)
  BY <1>1
<1>3. ASSUME NEW i \in DOMAIN (b \o c) PROVE (b \o c)[i] # NUL
  <2>1. CASE i <= Len(b)
    BY <1>1, <2>1 DEF Clean
  <2>2. CASE ~(i <= Len(b))
    <3>1. i - Len(b) \in DOMAIN c /\ (b \o c)[i] = c[i - Len(b)]
      BY <1>1, <2>2
    <3>. QED
      BY <3>1 DEF Clean
  <2>. QED
    BY <2>1, <2>2
<1>. QED
  BY <1>2, <1>3 DEF Clean

\* So does a character that is not NUL.
LEMMA CleanOne == ASSUME NEW c \in Sign, c # NUL PROVE Clean(<<c>>)
BY DEF Clean

\* So does a piece of one.
LEMMA CleanCut ==
  ASSUME NEW b, Clean(b), NEW m \in Nat, NEW n \in Int, m > 0, n <= Len(b)
  PROVE  Clean(SubSeq(b, m, n)) /\ (n < m => SubSeq(b, m, n) = <<>>)
         /\ Len(SubSeq(b, m, n)) = IF m <= n THEN n - m + 1 ELSE 0
<1>1. b \in Seq(Sign)
  BY DEF Clean
<1>. DEFINE a == SubSeq(b, m, n)
<1>2. a \in Seq(Sign) /\ Len(a) = IF m <= n THEN n - m + 1 ELSE 0
  BY <1>1
<1>3. \A i \in DOMAIN a : a[i] = b[m + i - 1] /\ m + i - 1 \in DOMAIN b
  BY <1>1, <1>2
<1>4. \A i \in DOMAIN a : a[i] # NUL
  BY <1>3 DEF Clean
<1>. HIDE DEF a
<1>5. Clean(a) /\ (n < m => a = <<>>)
  BY <1>2, <1>4 DEF Clean
<1>. QED
  BY <1>2, <1>5 DEF a

\* More at the end of both.
LEMMA EditLonger ==
  ASSUME NEW b, NEW s, NEW left, EditOk(b, s, left), NEW more, Clean(more),
         Len(b) + Len(more) < MAX_LINE_LEN
  PROVE  EditOk(b \o more, s \o more, left)
<1>1. b \in Seq(Sign) /\ s \in Seq(Sign) /\ Len(s) <= Len(b)
      /\ ("serial" \notin left => Clean(b) /\ s = b)
  BY DEF EditOk
<1>2. more \in Seq(Sign)
  BY DEF Clean
<1>3. Clean(b) => Clean(b \o more)
  BY CleanLonger
<1>4. /\ b \o more \in Seq(Sign) /\ Len(b \o more) = Len(b) + Len(more)
      /\ s \o more \in Seq(Sign) /\ Len(s \o more) = Len(s) + Len(more)
  BY <1>1, <1>2
<1>. QED
  BY <1>1, <1>3, <1>4, <1>2, RoomIs DEF EditOk

\* What is shown again is what the buffer holds.
LEMMA EditRedraw ==
  ASSUME NEW b, NEW s, NEW left, EditOk(b, s, left)
  PROVE  EditOk(b, CString(b), left)
<1>1. b \in Seq(Sign) /\ ("serial" \notin left => Clean(b) /\ s = b)
  BY DEF EditOk
<1>2. CString(b) \in Seq(Sign) /\ Len(CString(b)) <= Len(b) /\ (Clean(b) => CString(b) = b)
  BY <1>1, CStringIs DEF Clean
<1>. QED
  BY <1>1, <1>2 DEF EditOk

\* A line of the history replaces both.
LEMMA EditRecall ==
  ASSUME NEW b, NEW s, NEW left, EditOk(b, s, left), NEW text, Recalled(text)
  PROVE  EditOk(text, SubSeq(s, 1, Len(s) - Len(b)) \o text, left \ {"serial"})
<1>1. b \in Seq(Sign) /\ s \in Seq(Sign) /\ Len(s) <= Len(b)
  BY DEF EditOk
<1>2. text \in Seq(Sign) /\ Len(text) < MAX_LINE_LEN
  BY DEF Recalled, Clean
<1>3. SubSeq(s, 1, Len(s) - Len(b)) = <<>>
  BY <1>1
<1>4. <<>> \o text = text
  BY <1>2
<1>5. EditOk(text, text, left \ {"serial"})
  BY <1>2, RoomIs DEF EditOk, Recalled
<1>. QED
  BY <1>3, <1>4, <1>5

\* tokenize leaves the length, the end, and whether there is a NUL.
LEMMA EditTorn ==
  ASSUME NEW b, NEW s, NEW left, EditOk(b, s, left), NEW later, "serial" \in later
  PROVE  EditOk(Torn(b), <<>>, later)
<1>1. b \in Seq(Sign) /\ Len(b) <= MAX_LINE_LEN
      /\ (Len(b) = MAX_LINE_LEN => b[MAX_LINE_LEN] = Space /\ \E i \in DOMAIN b : b[i] = NUL)
  BY DEF EditOk
<1>. DEFINE text == CString(b)
<1>2. /\ text \in Seq(Sign) /\ Len(text) <= Len(b)
      /\ ((\E i \in DOMAIN b : b[i] = NUL) => Len(text) < Len(b) /\ b[Len(text) + 1] = NUL)
  BY <1>1, CStringIs
<1>. HIDE DEF text
<1>3. CASE HasContent(text)
  <2>. DEFINE a == tokenize(text).buf
  <2>. DEFINE z == SubSeq(b, Len(text) + 1, Len(b))
  <2>1. a \in Seq(Sign) /\ Len(a) = Len(text)
    BY <1>2, TokAll DEF BufInv
  <2>. HIDE DEF a
  <2>2. z \in Seq(Sign) /\ Len(z) = Len(b) - Len(text)
        /\ \A i \in 1..(Len(b) - Len(text)) : z[i] = b[Len(text) + i]
    BY <1>1, <1>2
  <2>3. Torn(b) = a \o z
    BY <1>3, Zenon DEF Torn, text, a, z
  <2>. HIDE DEF z
  <2>4. a \o z \in Seq(Sign) /\ Len(a \o z) = Len(b)
        /\ \A i \in (Len(text) + 1)..Len(b) : (a \o z)[i] = b[i]
    <3>1. a \o z \in Seq(Sign) /\ Len(a \o z) = Len(b)
      <4>1. Len(text) \in Nat /\ Len(b) \in Nat /\ Len(text) + (Len(b) - Len(text)) = Len(b)
        BY <1>1, <1>2
      <4>2. a \o z \in Seq(Sign) /\ Len(a \o z) = Len(a) + Len(z)
        BY <2>1, <2>2
      <4>. QED
        BY <2>1, <2>2, <4>1, <4>2
    <3>2. ASSUME NEW i \in (Len(text) + 1)..Len(b) PROVE (a \o z)[i] = b[i]
      <4>1. i - Len(text) \in 1..(Len(b) - Len(text)) /\ Len(text) + (i - Len(text)) = i
        BY <1>1, <1>2
      <4>2. (a \o z)[i] = z[i - Len(text)]
        BY <1>1, <1>2, <2>1, <2>2
      <4>3. z[i - Len(text)] = b[Len(text) + (i - Len(text))]
        BY <2>2, <4>1
      <4>. QED
        BY <4>1, <4>2, <4>3
    <3>. QED
      BY <3>1, <3>2
  <2>5. ASSUME Len(b) = MAX_LINE_LEN
        PROVE  (a \o z)[MAX_LINE_LEN] = Space /\ \E i \in DOMAIN (a \o z) : (a \o z)[i] = NUL
    <3>1. /\ Len(text) + 1 \in (Len(text) + 1)..Len(b) /\ MAX_LINE_LEN \in (Len(text) + 1)..Len(b)
          /\ Len(text) + 1 \in 1..Len(b) /\ b[Len(text) + 1] = NUL /\ b[MAX_LINE_LEN] = Space
      BY <1>1, <1>2, <2>5
    <3>. QED
      BY <2>4, <3>1
  <2>. QED
    BY <1>1, <2>3, <2>4, <2>5, RoomIs DEF EditOk
<1>4. CASE ~HasContent(text)
  <2>1. Torn(b) = b
    BY <1>4, Zenon DEF Torn, text
  <2>. QED
    BY <1>1, <2>1 DEF EditOk
<1>. QED
  BY <1>3, <1>4


-----------------------------------------------------------------------------
(* Completion.                                                             *)

\* The greater of 0 and a number.
LEMMA MaxPair ==
  ASSUME NEW x \in Int
  PROVE  Max({0, x}) = IF x > 0 THEN x ELSE 0
<1>1. \E y \in {0, x} : \A z \in {0, x} : y >= z
  OBVIOUS
<1>2. Max({0, x}) \in {0, x} /\ \A z \in {0, x} : Max({0, x}) >= z
  BY <1>1 DEF Max
<1>. QED
  BY <1>2

\* The last blank of a line is one, and none follows.
LEMMA LastSpaceIs ==
  ASSUME line_buf \in Seq(Sign)
  PROVE  /\ LastSpace \in 0..Len(line_buf)
         /\ \A i \in DOMAIN line_buf : line_buf[i] = Space => i <= LastSpace
<1>. DEFINE S == {0} \cup {i \in DOMAIN line_buf : line_buf[i] = Space}
<1>1. Len(line_buf) \in Nat /\ S \in SUBSET (0..Len(line_buf)) /\ S # {}
  OBVIOUS
<1>2. Max(S) \in S /\ \A y \in S : Max(S) >= y
  <2>. HIDE DEF S
  <2>. QED
    BY <1>1, MaxOf
<1>3. LastSpace = Max(S)
  BY Zenon DEF LastSpace
<1>. DEFINE m == Max(S)
<1>4. m \in S /\ m \in Nat /\ \A y \in S : y \in Nat /\ y <= m
  <2>. HIDE DEF S, m
  <2>1. \A y \in S : y \in Nat
    BY <1>1
  <2>. QED
    BY <1>2, <2>1 DEF m
<1>5. LastSpace = m
  BY <1>3
<1>. HIDE DEF m
<1>. QED
  BY <1>1, <1>4, <1>5

\* Names of commands and files have no NUL and are short.
LEMMA NamesClean ==
  /\ \A n \in Command : Clean(n) /\ Len(n) < MAX_LINE_LEN - 1
  /\ \A n \in RootName : Clean(n)
<1>1. NUL \notin Printable /\ Letter \subseteq Printable /\ Printable \subseteq Sign
  BY ShellAssumption DEF NUL, Printable, Char, Sign, Space
<1>2. ASSUME NEW n \in Seq(Printable) PROVE Clean(n)
  <2>1. n \in Seq(Sign)
    BY <1>1
  <2>. QED
    BY <1>1, <2>1 DEF Clean
<1>3. \A n \in Seq(Letter) : n \in Seq(Printable)
  BY <1>1
<1>. QED
  BY <1>2, <1>3, ShellAssumption

\* What is added to complete a name fits into the room.
LEMMA CompletedIs ==
  ASSUME line_buf \in Seq(Sign), NEW n, Clean(n)
  PROVE  /\ Clean(Completed(n))
         /\ Len(Completed(n)) <= IF MAX_LINE_LEN - 2 - Len(line_buf) > 0
                                 THEN MAX_LINE_LEN - 2 - Len(line_buf) ELSE 0
<1>. DEFINE rest == SubSeq(n, Len(Prefix) + 1, Len(n))
<1>. DEFINE x == MAX_LINE_LEN - 2 - Len(line_buf)
<1>. DEFINE room == Max({0, x})
<1>1. Len(line_buf) \in Nat /\ x \in Int
  BY RoomIs
<1>2. room = (IF x > 0 THEN x ELSE 0) /\ room \in Nat
  <2>. HIDE DEF x
  <2>. QED
    BY <1>1, MaxPair
<1>3. Prefix \in Seq(Sign) /\ Len(Prefix) \in Nat
  BY LastSpaceIs DEF Prefix
<1>4. n \in Seq(Sign) /\ Len(n) \in Nat
  BY DEF Clean
<1>5. Clean(rest) /\ Len(rest) \in Nat
  <2>1. Len(Prefix) + 1 \in Nat /\ Len(Prefix) + 1 > 0 /\ Len(n) <= Len(n)
    BY <1>3, <1>4
  <2>2. Clean(rest)
    BY <1>4, <2>1, CleanCut
  <2>. QED
    BY <2>2 DEF Clean
<1>. HIDE DEF rest, room, x
<1>. DEFINE k == Min({Len(rest), room})
<1>6. k \in Nat /\ k <= Len(rest) /\ k <= room
  <2>1. {Len(rest), room} \in SUBSET Nat /\ {Len(rest), room} # {}
    BY <1>2, <1>5
  <2>2. k \in {Len(rest), room} /\ \A y \in {Len(rest), room} : k <= y
    BY <2>1, MinOf
  <2>. QED
    BY <2>1, <2>2
<1>7. Completed(n) = SubSeq(rest, 1, k)
  BY Zenon DEF Completed, rest, room, x
<1>. HIDE DEF k
<1>8. Clean(SubSeq(rest, 1, k)) /\ Len(SubSeq(rest, 1, k)) <= k
  <2>1. 1 \in Nat /\ 1 > 0 /\ k \in Int
    BY <1>6
  <2>2. Clean(SubSeq(rest, 1, k)) /\ Len(SubSeq(rest, 1, k)) = IF 1 <= k THEN k - 1 + 1 ELSE 0
    BY <1>5, <1>6, <2>1, CleanCut
  <2>. QED
    BY <1>6, <2>2
<1>. QED
  BY <1>2, <1>6, <1>7, <1>8 DEF x, Clean

\* A name and a blank: there is room, unless tokenize has been at the line.
LEMMA CompleteKeeps ==
  ASSUME EditOk(line_buf, shown, leftover), Prefix # <<>>,
         NEW first, first = (LastSpace = 0), NEW n, n \in IF first THEN Command ELSE RootName,
         Begins(n), NEW more,
         more = IF first THEN Append(Completed(n), Space) ELSE Completed(n)
  PROVE  EditOk(line_buf \o more, shown \o more, leftover)
<1>1. /\ line_buf \in Seq(Sign) /\ Len(line_buf) <= MAX_LINE_LEN /\ Len(line_buf) \in Nat
      /\ Len(line_buf) = MAX_LINE_LEN => line_buf[MAX_LINE_LEN] = Space
  BY DEF EditOk
<1>2. LastSpace \in 0..Len(line_buf) /\ \A i \in DOMAIN line_buf : line_buf[i] = Space => i <= LastSpace
  BY <1>1, LastSpaceIs
<1>3. Len(line_buf) < MAX_LINE_LEN
  <2>. SUFFICES ASSUME Len(line_buf) = MAX_LINE_LEN PROVE FALSE
    BY <1>1, RoomIs
  <2>1. MAX_LINE_LEN \in DOMAIN line_buf /\ LastSpace = Len(line_buf)
    BY <1>1, <1>2, RoomIs
  <2>2. Prefix = <<>>
    BY <1>1, <2>1 DEF Prefix
  <2>. QED
    BY <2>2
<1>. DEFINE c == Completed(n)
<1>. DEFINE x == MAX_LINE_LEN - 2 - Len(line_buf)
<1>4. Clean(n)
  BY NamesClean
<1>5. Clean(c) /\ Len(c) <= (IF x > 0 THEN x ELSE 0) /\ x \in Int
  BY <1>1, <1>4, CompletedIs, RoomIs
<1>6. c \in Seq(Sign) /\ Len(c) \in Nat
  BY <1>5 DEF Clean
<1>. HIDE DEF c
<1>7. CASE ~first
  <2>1. more = c /\ Len(line_buf) + Len(c) < MAX_LINE_LEN
    BY <1>1, <1>3, <1>5, <1>6, <1>7, RoomIs DEF c
  <2>. QED
    BY <1>5, <2>1, EditLonger
<1>8. CASE first
  <2>1. more = Append(c, Space)
    BY <1>8 DEF c
  <2>2. Clean(<<Space>>) /\ Append(c, Space) = c \o <<Space>>
    <3>1. Space \in Sign /\ Space # NUL
      BY Zenon DEF Sign, Printable, Char, Space, NUL
    <3>. QED
      BY <1>6, <3>1, CleanOne, AppendIsConcat
  <2>3. Clean(more) /\ Len(more) = Len(c) + 1 /\ more \in Seq(Sign)
    <3>1. Clean(c \o <<Space>>)
      BY <1>5, <2>2, CleanLonger
    <3>2. Clean(more)
      BY <2>1, <2>2, <3>1
    <3>3. Len(Append(c, Space)) = Len(c) + 1
      BY <1>6
    <3>. QED
      BY <2>1, <3>2, <3>3 DEF Clean
  <2>4. CASE x >= 0
    <3>1. Len(line_buf) + Len(more) < MAX_LINE_LEN
      BY <1>1, <1>3, <1>5, <1>6, <2>3, <2>4, RoomIs
    <3>. QED
      BY <2>3, <3>1, EditLonger
  <2>5. CASE ~(x >= 0)
    <3>1. Len(line_buf) = MAX_LINE_LEN - 1 /\ Len(c) = 0 /\ Len(more) = 1
      <4>1. ~(x > 0)
        BY <1>5, <2>5
      <4>2. Len(c) <= 0
        BY <1>5, <4>1
      <4>3. Len(line_buf) = MAX_LINE_LEN - 1
        BY <1>1, <1>3, <2>5, RoomIs
      <4>4. Len(c) = 0 /\ Len(more) = 1
        <5>. DEFINE m == Len(c)
        <5>1. m \in Nat /\ m <= 0 /\ Len(more) = m + 1
          BY <1>6, <2>3, <4>2
        <5>. HIDE DEF m
        <5>2. m = 0 /\ m + 1 = 1
          BY <5>1
        <5>. QED
          BY <5>1, <5>2 DEF m
      <4>. QED
        BY <4>3, <4>4
    <3>2. Prefix = line_buf
      <4>0. LastSpace = 0
        BY <1>8, Zenon
      <4>1. LastSpace + 1 = 1
        BY <4>0
      <4>2. SubSeq(line_buf, 1, Len(line_buf)) = line_buf
        BY <1>1
      <4>. QED
        BY <4>1, <4>2 DEF Prefix
    <3>3. Len(n) < MAX_LINE_LEN - 1 /\ Len(n) \in Nat
      BY <1>4, <1>8, NamesClean DEF Clean
    <3>4. CString(line_buf) # line_buf
      <4>. SUFFICES ASSUME CString(Prefix) = Prefix PROVE FALSE
        BY <3>2
      <4>1. Len(Prefix) <= Len(n)
        BY DEF Begins, IsPrefix
      <4>. QED
        BY <3>1, <3>2, <3>3, <4>1, RoomIs
    <3>5. PICK i \in DOMAIN line_buf : line_buf[i] = NUL
      BY <1>1, <3>4, CStringIs
    <3>6. shown \in Seq(Sign) /\ Len(shown) <= Len(line_buf) /\ "serial" \in leftover
      BY <3>5 DEF EditOk, Clean
    <3>7. /\ line_buf \o more \in Seq(Sign) /\ Len(line_buf \o more) = MAX_LINE_LEN
          /\ shown \o more \in Seq(Sign) /\ Len(shown \o more) = Len(shown) + 1
      <4>1. MAX_LINE_LEN - 1 + 1 = MAX_LINE_LEN
        BY RoomIs
      <4>2. line_buf \o more \in Seq(Sign) /\ Len(line_buf \o more) = Len(line_buf) + Len(more)
        BY <1>1, <2>3
      <4>3. shown \o more \in Seq(Sign) /\ Len(shown \o more) = Len(shown) + Len(more)
        BY <2>3, <3>6
      <4>. QED
        BY <3>1, <4>1, <4>2, <4>3
    <3>8. more[1] = Space
      <4>1. Len(c) + 1 = 1
        BY <3>1
      <4>2. Append(c, Space)[Len(c) + 1] = Space
        BY <1>6
      <4>. QED
        BY <2>1, <4>1, <4>2
    <3>9. (line_buf \o more)[MAX_LINE_LEN] = Space
      <4>1. (line_buf \o more)[Len(line_buf) + 1] = more[1]
        BY <1>1, <2>3, <3>1 DEF Clean
      <4>2. Len(line_buf) + 1 = MAX_LINE_LEN
        BY <3>1, RoomIs
      <4>. QED
        BY <3>8, <4>1, <4>2
    <3>10. i \in DOMAIN (line_buf \o more) /\ (line_buf \o more)[i] = NUL
      BY <1>1, <2>3, <3>5 DEF Clean
    <3>11. Len(shown \o more) <= Len(line_buf \o more)
      BY <3>1, <3>6, <3>7, RoomIs
    <3>. QED
      BY <3>6, <3>7, <3>9, <3>10, <3>11, RoomIs DEF EditOk
  <2>. QED
    BY <1>5, <2>4, <2>5
<1>. QED
  BY <1>7, <1>8


-----------------------------------------------------------------------------
(* The history and the commands that have not returned.                    *)

Texts == Seq(Seq(Sign))

HistOk(h, view, p) ==
  /\ h \in Texts /\ p \in Texts /\ \A i \in 1..Len(h) : Recalled(h[i])
  /\ Len(h) = IF Len(p) <= HISTORY_MAX THEN Len(p) ELSE HISTORY_MAX
  /\ \A i \in 1..Len(h) : h[i] = p[Len(p) - Len(h) + i]
  /\ view \in -1..(Len(h) - 1)

TermOk(g, ty, left) ==
  /\ g \in Seq(Sign) /\ Len(g) < TERM_CMD_MAX
  /\ "terminal" \notin left => ty = g

CommandFrame == [editor : {"serial", "terminal"}, what : {"gui", "program"}]

HookOk(hk, fr) ==
  /\ fr \in Seq(CommandFrame)
  /\ hk => \E i \in 1..Len(fr) : fr[i].editor = "terminal"

ShellInv ==
  /\ EditOk(line_buf, shown, leftover)
  /\ TermOk(g_term_cmd, typed, leftover)
  /\ HistOk(history_entries, history_view_idx, past)
  /\ HookOk(hook, frames)

\* A line put into the history is its latest.
LEMMA HistPut ==
  ASSUME NEW text, Recalled(text), HistOk(history_entries, history_view_idx, past)
  PROVE  HistOk(Remembered(text), -1, Append(past, text))
<1>. DEFINE h == history_entries
<1>. DEFINE g == Remembered(text)
<1>. DEFINE q == Append(past, text)
<1>1. /\ h \in Texts /\ past \in Texts /\ \A i \in 1..Len(h) : Recalled(h[i])
      /\ Len(h) = IF Len(past) <= HISTORY_MAX THEN Len(past) ELSE HISTORY_MAX
      /\ \A i \in 1..Len(h) : h[i] = past[Len(past) - Len(h) + i]
  BY DEF HistOk
<1>2. text \in Seq(Sign) /\ HISTORY_MAX \in Nat /\ HISTORY_MAX > 0
  BY ShellAssumption DEF Recalled, Clean
<1>3. Len(h) \in Nat /\ Len(past) \in Nat
  BY <1>1 DEF Texts
<1>4. /\ q \in Texts /\ Len(q) = Len(past) + 1 /\ q[Len(past) + 1] = text
      /\ \A i \in 1..Len(past) : q[i] = past[i]
  BY <1>1, <1>2 DEF Texts
<1>. HIDE DEF q
<1>5. CASE Len(h) < HISTORY_MAX
  <2>1. g = Append(h, text)
    BY <1>5 DEF Remembered
  <2>2. /\ g \in Texts /\ Len(g) = Len(h) + 1 /\ g[Len(h) + 1] = text
        /\ \A i \in 1..Len(h) : g[i] = h[i]
    BY <1>1, <1>2, <2>1 DEF Texts
  <2>. HIDE DEF g, h
  <2>3. Len(h) = Len(past) /\ Len(q) <= HISTORY_MAX /\ Len(g) = Len(q)
    BY <1>1, <1>2, <1>3, <1>4, <1>5, <2>2
  <2>4. ASSUME NEW i \in 1..Len(g) PROVE Recalled(g[i]) /\ g[i] = q[Len(q) - Len(g) + i]
    <3>1. Len(q) - Len(g) + i = i
      BY <1>3, <1>4, <2>3
    <3>2. CASE i <= Len(h)
      <4>1. i \in 1..Len(h) /\ Len(past) - Len(h) + i = i /\ i \in 1..Len(past)
        BY <1>3, <2>2, <2>3, <3>2
      <4>2. h[i] = past[Len(past) - Len(h) + i] /\ Recalled(h[i])
        BY <1>1, <4>1
      <4>. QED
        BY <1>4, <2>2, <3>1, <4>1, <4>2
    <3>3. CASE ~(i <= Len(h))
      <4>1. i = Len(h) + 1
        BY <1>3, <2>2, <3>3
      <4>. QED
        BY <1>4, <2>2, <2>3, <3>1, <4>1
    <3>. QED
      BY <3>2, <3>3
  <2>5. -1 \in -1..(Len(g) - 1)
    BY <1>3, <2>2
  <2>. QED
    BY <1>4, <2>2, <2>3, <2>4, <2>5 DEF HistOk, g, q
<1>6. CASE ~(Len(h) < HISTORY_MAX)
  <2>1. g = Append(Tail(h), text)
    BY <1>6 DEF Remembered
  <2>2. Len(h) = HISTORY_MAX /\ Len(past) >= HISTORY_MAX /\ Len(h) > 0
    BY <1>1, <1>2, <1>3, <1>6
  <2>3. Tail(h) \in Texts /\ Len(Tail(h)) = Len(h) - 1 /\ \A i \in 1..(Len(h) - 1) : Tail(h)[i] = h[i + 1]
    BY <1>1, <1>3, <2>2 DEF Texts
  <2>. DEFINE k == Len(h) - 1
  <2>. DEFINE z == Tail(h)
  <2>4. k \in Nat /\ z \in Texts /\ Len(z) = k /\ (\A i \in 1..k : z[i] = h[i + 1]) /\ Len(h) = k + 1
    BY <1>3, <2>2, <2>3
  <2>. HIDE DEF k, z
  <2>5. /\ g \in Texts /\ Len(g) = k + 1 /\ g[k + 1] = text
        /\ \A i \in 1..k : g[i] = z[i]
    BY <1>2, <2>1, <2>4 DEF Texts, z
  <2>. HIDE DEF g, h
  <2>. DEFINE n == Len(past)
  <2>50. n \in Nat /\ n >= k + 1 /\ Len(h) = k + 1 /\ Len(q) = n + 1 /\ Len(g) = k + 1
    BY <1>3, <1>4, <2>2, <2>4, <2>5
  <2>. HIDE DEF n
  <2>6. ASSUME NEW i \in 1..Len(g) PROVE Recalled(g[i]) /\ g[i] = q[Len(q) - Len(g) + i]
    <3>1. CASE i <= k
      <4>1. /\ i \in 1..k /\ i + 1 \in 1..Len(h) /\ Len(past) - Len(h) + (i + 1) = Len(q) - Len(g) + i
            /\ Len(q) - Len(g) + i \in 1..Len(past)
        <5>1. i \in 1..k /\ i + 1 \in 1..(k + 1) /\ n - (k + 1) + (i + 1) = (n + 1) - (k + 1) + i
              /\ (n + 1) - (k + 1) + i \in 1..n
          BY <2>4, <2>50, <3>1
        <5>. QED
          BY <2>50, <5>1 DEF n
      <4>2. h[i + 1] = past[Len(past) - Len(h) + (i + 1)] /\ Recalled(h[i + 1])
        BY <1>1, <4>1
      <4>. QED
        BY <1>4, <2>4, <2>5, <4>1, <4>2
    <3>2. CASE ~(i <= k)
      <4>1. i = k + 1 /\ Len(q) - Len(g) + i = Len(past) + 1
        <5>1. i = k + 1 /\ (n + 1) - (k + 1) + i = n + 1
          BY <2>4, <2>50, <3>2
        <5>. QED
          BY <2>50, <5>1 DEF n
      <4>. QED
        BY <1>4, <2>5, <4>1
    <3>. QED
      BY <3>1, <3>2
  <2>7. -1 \in -1..(Len(g) - 1) /\ Len(g) = HISTORY_MAX /\ ~(Len(q) <= HISTORY_MAX)
    BY <1>2, <1>3, <1>4, <2>2, <2>4, <2>5
  <2>. QED
    BY <1>4, <2>5, <2>6, <2>7 DEF HistOk, g, q
<1>. QED
  BY <1>5, <1>6

\* So the history stays the latest lines.
LEMMA RememberKeeps ==
  ASSUME NEW text, Recalled(text), HistOk(history_entries, history_view_idx, past), Remember(text)
  PROVE  HistOk(history_entries', history_view_idx', past')
<1>1. CASE HasContent(text)
  <2>1. history_entries' = Remembered(text) /\ history_view_idx' = -1 /\ past' = Append(past, text)
    BY <1>1 DEF Remember
  <2>2. HistOk(Remembered(text), -1, Append(past, text))
    BY HistPut
  <2>. QED
    BY <2>1, <2>2
<1>2. CASE ~HasContent(text)
  BY <1>2 DEF Remember, historyVars
<1>. QED
  BY <1>1, <1>2

\* What an editor dispatches may be recalled.
LEMMA LineRecalled ==
  ASSUME NEW b, NEW s, NEW left, EditOk(b, s, left)
  PROVE  Recalled(CString(b))
<1>1. /\ b \in Seq(Sign) /\ Len(b) <= MAX_LINE_LEN /\ Len(b) \in Nat
      /\ Len(b) = MAX_LINE_LEN => \E i \in DOMAIN b : b[i] = NUL
  BY DEF EditOk
<1>2. /\ CString(b) \in Seq(Sign) /\ Len(CString(b)) <= Len(b) /\ Len(CString(b)) \in Nat
      /\ (\E i \in DOMAIN b : b[i] = NUL) => Len(CString(b)) < Len(b)
      /\ \A i \in DOMAIN CString(b) : CString(b)[i] # NUL
  BY <1>1, CStringIs
<1>3. Len(CString(b)) < MAX_LINE_LEN
  BY <1>1, <1>2, RoomIs
<1>. QED
  BY <1>2, <1>3 DEF Recalled, Clean

\* What the terminal has typed can be recalled.
LEMMA TermRecalled ==
  ASSUME NEW g, NEW ty, NEW left, TermOk(g, ty, left)
  PROVE  Recalled(CString(g))
<1>1. g \in Seq(Sign) /\ Len(g) < TERM_CMD_MAX /\ Len(g) \in Nat
  BY DEF TermOk
<1>2. /\ CString(g) \in Seq(Sign) /\ Len(CString(g)) <= Len(g) /\ Len(CString(g)) \in Nat
      /\ \A i \in DOMAIN CString(g) : CString(g)[i] # NUL
  BY <1>1, CStringIs
<1>3. Len(CString(g)) < MAX_LINE_LEN
  BY <1>1, <1>2, RoomIs
<1>. QED
  BY <1>2, <1>3 DEF Recalled, Clean

\* A line that tokenize has cut has its length.
LEMMA TornLength ==
  ASSUME NEW g \in Seq(Sign)
  PROVE  Torn(g) \in Seq(Sign) /\ Len(Torn(g)) = Len(g)
<1>. DEFINE text == CString(g)
<1>1. text \in Seq(Sign) /\ Len(text) <= Len(g) /\ Len(text) \in Nat /\ Len(g) \in Nat
  BY CStringIs
<1>. HIDE DEF text
<1>. DEFINE a == tokenize(text).buf
<1>. DEFINE z == SubSeq(g, Len(text) + 1, Len(g))
<1>2. a \in Seq(Sign) /\ Len(a) = Len(text)
  BY <1>1, TokAll DEF BufInv
<1>3. z \in Seq(Sign) /\ Len(z) = Len(g) - Len(text)
  BY <1>1
<1>4. Torn(g) = a \o z \/ Torn(g) = g
  BY Zenon DEF Torn, text, a, z
<1>. HIDE DEF a, z
<1>5. a \o z \in Seq(Sign) /\ Len(a \o z) = Len(a) + Len(z)
  BY <1>2, <1>3
<1>6. Len(text) + (Len(g) - Len(text)) = Len(g)
  BY <1>1
<1>. QED
  BY <1>2, <1>3, <1>4, <1>5, <1>6

\* A line starts a program, the desktop or nothing.
LEMMA StartsIs == ASSUME NEW text PROVE Starts(text) \in {"nothing", "gui", "program"}
BY DEF Starts

\* A command joins those that have not returned.
LEMMA HookMore ==
  ASSUME NEW hk, NEW fr, HookOk(hk, fr), NEW e \in {"serial", "terminal"}, NEW what \in {"gui", "program"}
  PROVE  /\ HookOk(hk, Append(fr, [editor |-> e, what |-> what]))
         /\ e = "terminal" => \A k : HookOk(k, Append(fr, [editor |-> e, what |-> what]))
<1>. DEFINE f == [editor |-> e, what |-> what]
<1>1. f \in CommandFrame /\ f.editor = e
  BY DEF CommandFrame
<1>2. fr \in Seq(CommandFrame) /\ (hk => \E i \in 1..Len(fr) : fr[i].editor = "terminal")
  BY DEF HookOk
<1>. HIDE DEF f
<1>3. /\ Append(fr, f) \in Seq(CommandFrame) /\ Len(Append(fr, f)) = Len(fr) + 1 /\ Len(fr) \in Nat
      /\ Append(fr, f)[Len(fr) + 1] = f /\ \A i \in 1..Len(fr) : Append(fr, f)[i] = fr[i]
  BY <1>1, <1>2
<1>4. HookOk(hk, Append(fr, f))
  <2>1. ASSUME hk PROVE \E i \in 1..Len(Append(fr, f)) : Append(fr, f)[i].editor = "terminal"
    <3>1. PICK i \in 1..Len(fr) : fr[i].editor = "terminal"
      BY <1>2, <2>1
    <3>2. i \in 1..Len(Append(fr, f)) /\ Append(fr, f)[i] = fr[i]
      BY <1>3
    <3>. QED
      BY <3>1, <3>2
  <2>. QED
    BY <1>3, <2>1 DEF HookOk
<1>5. ASSUME e = "terminal", NEW k PROVE HookOk(k, Append(fr, f))
  <2>1. Len(fr) + 1 \in 1..Len(Append(fr, f)) /\ Append(fr, f)[Len(fr) + 1].editor = "terminal"
    BY <1>1, <1>3, <1>5
  <2>. QED
    BY <1>3, <2>1 DEF HookOk
<1>. QED
  BY <1>4, <1>5 DEF f


-----------------------------------------------------------------------------
(* The steps of the shell.                                                 *)

\* The terminal's line agrees with what was typed also if its line is still being executed.
LEMMA TermMono ==
  ASSUME NEW g, NEW ty, NEW left, NEW later, TermOk(g, ty, left),
         "terminal" \in left => "terminal" \in later
  PROVE  TermOk(g, ty, later)
BY DEF TermOk

\* An empty line of the terminal agrees with nothing typed.
LEMMA TermEmpty == ASSUME NEW left PROVE TermOk(<<>>, <<>>, left)
BY RoomIs DEF TermOk

\* Steps at the prompt: the terminal's line and the commands stay as they are.
LEMMA AtPrompt ==
  ASSUME ShellInv, EditOk(line_buf', shown', leftover'),
         HistOk(history_entries', history_view_idx', past'),
         UNCHANGED <<terminalVars, frames>>, leftover' \in {leftover, leftover \ {"serial"}}
  PROVE  ShellInv'
<1>1. g_term_cmd' = g_term_cmd /\ typed' = typed /\ hook' = hook /\ frames' = frames
  BY DEF terminalVars
<1>2. "terminal" \in leftover => "terminal" \in leftover'
  OBVIOUS
<1>3. TermOk(g_term_cmd', typed', leftover')
  BY <1>1, <1>2, TermMono DEF ShellInv
<1>4. HookOk(hook', frames')
  BY <1>1 DEF ShellInv
<1>. QED
  BY <1>3, <1>4 DEF ShellInv

\* The end of an escape sequence keeps the invariant.
LEMMA EscapeStep == ASSUME ShellInv, NEW c, feed_escape(c) PROVE ShellInv'
BY DEF ShellInv, feed_escape, editorVars, historyVars, terminalVars

\* A character typed keeps it.
LEMMA CharStep ==
  ASSUME ShellInv, NEW c \in Printable \cup {"esc"}, feed_char(c) PROVE ShellInv'
<1>1. c \in Sign /\ c # NUL
  BY ShellAssumption DEF Sign, Printable, Char, NUL, Space
<1>2. EditOk(line_buf, shown, leftover) /\ HistOk(history_entries, history_view_idx, past)
  BY DEF ShellInv
<1>3. UNCHANGED <<historyVars, terminalVars, frames, leftover>>
  BY DEF feed_char
<1>4. EditOk(line_buf', shown', leftover')
  <2>1. CASE Len(line_buf) < MAX_LINE_LEN - 1
    <3>1. line_buf' = Append(line_buf, c) /\ shown' = Append(shown, c)
      BY <2>1 DEF feed_char
    <3>2. line_buf \in Seq(Sign) /\ shown \in Seq(Sign)
      BY <1>2 DEF EditOk
    <3>3. Append(line_buf, c) = line_buf \o <<c>> /\ Append(shown, c) = shown \o <<c>>
      BY <1>1, <3>2, AppendIsConcat
    <3>4. Clean(<<c>>) /\ Len(<<c>>) = 1
      BY <1>1, CleanOne
    <3>5. Len(line_buf) + Len(<<c>>) < MAX_LINE_LEN
      BY <2>1, <3>2, <3>4, RoomIs
    <3>6. EditOk(line_buf \o <<c>>, shown \o <<c>>, leftover)
      BY <1>2, <3>4, <3>5, EditLonger
    <3>. QED
      BY <1>3, <3>1, <3>3, <3>6
  <2>2. CASE ~(Len(line_buf) < MAX_LINE_LEN - 1)
    BY <1>2, <1>3, <2>2 DEF feed_char, editorVars
  <2>. QED
    BY <2>1, <2>2
<1>. QED
  BY <1>2, <1>3, <1>4, AtPrompt DEF historyVars

\* A line replaced by one of the history agrees with what is shown.
LEMMA ReplacedKeeps ==
  ASSUME EditOk(line_buf, shown, leftover), NEW text, Recalled(text), Replaced(text)
  PROVE  EditOk(line_buf', shown', leftover') /\ leftover' = leftover \ {"serial"}
<1>1. EditOk(text, SubSeq(shown, 1, Len(shown) - Len(line_buf)) \o text, leftover \ {"serial"})
  BY EditRecall
<1>. QED
  BY <1>1 DEF Replaced

\* The key up keeps the invariant.
LEMMA UpStep == ASSUME ShellInv, handle_history_up PROVE ShellInv'
<1>. DEFINE h == history_entries
<1>1. /\ EditOk(line_buf, shown, leftover) /\ HistOk(h, history_view_idx, past)
      /\ UNCHANGED <<history_entries, past, terminalVars, frames>>
  BY DEF ShellInv, handle_history_up
<1>2. /\ h \in Texts /\ history_view_idx \in -1..(Len(h) - 1) /\ Len(h) \in Nat
      /\ \A i \in 1..Len(h) : Recalled(h[i])
  <2>1. /\ h \in Texts /\ history_view_idx \in -1..(Len(h) - 1)
        /\ \A i \in 1..Len(h) : Recalled(h[i])
    BY <1>1, Zenon DEF HistOk
  <2>2. Len(h) \in Nat
    BY <2>1 DEF Texts
  <2>. QED
    BY <2>1, <2>2, Zenon
<1>3. CASE h = <<>>
  <2>1. UNCHANGED <<line_buf, shown, history_view_idx, leftover>>
    BY <1>3 DEF handle_history_up, editorVars
  <2>. QED
    BY <1>1, <2>1, AtPrompt
<1>4. CASE h # <<>>
  <2>1. Len(h) > 0
    BY <1>2, <1>4, EmptySeq DEF Texts
  <2>2. history_view_idx' = (IF history_view_idx = -1 THEN Len(h) - 1
                             ELSE IF history_view_idx > 0 THEN history_view_idx - 1 ELSE 0)
        /\ Replaced(h[history_view_idx' + 1])
    BY <1>4 DEF handle_history_up
  <2>3. history_view_idx' \in 0..(Len(h) - 1)
    BY <1>2, <2>1, <2>2
  <2>4. Recalled(h[history_view_idx' + 1]) /\ history_view_idx' \in -1..(Len(h) - 1)
    BY <1>2, <2>3
  <2>5. EditOk(line_buf', shown', leftover') /\ leftover' = leftover \ {"serial"}
    BY <1>1, <2>2, <2>4, ReplacedKeeps
  <2>6. HistOk(history_entries', history_view_idx', past')
    BY <1>1, <2>4 DEF HistOk
  <2>. QED
    BY <1>1, <2>5, <2>6, AtPrompt
<1>. QED
  BY <1>3, <1>4

\* The key down does.
LEMMA DownStep == ASSUME ShellInv, handle_history_down PROVE ShellInv'
<1>. DEFINE h == history_entries
<1>1. /\ EditOk(line_buf, shown, leftover) /\ HistOk(h, history_view_idx, past)
      /\ UNCHANGED <<history_entries, past, terminalVars, frames>>
  BY DEF ShellInv, handle_history_down
<1>2. /\ h \in Texts /\ history_view_idx \in -1..(Len(h) - 1) /\ Len(h) \in Nat
      /\ \A i \in 1..Len(h) : Recalled(h[i])
  <2>1. /\ h \in Texts /\ history_view_idx \in -1..(Len(h) - 1)
        /\ \A i \in 1..Len(h) : Recalled(h[i])
    BY <1>1, Zenon DEF HistOk
  <2>2. Len(h) \in Nat
    BY <2>1 DEF Texts
  <2>. QED
    BY <2>1, <2>2, Zenon
<1>3. CASE history_view_idx = -1
  <2>1. UNCHANGED <<line_buf, shown, history_view_idx, leftover>>
    BY <1>3 DEF handle_history_down, editorVars
  <2>. QED
    BY <1>1, <2>1, AtPrompt
<1>4. CASE history_view_idx # -1
  <2>1. CASE history_view_idx < Len(h) - 1
    <3>1. history_view_idx' = history_view_idx + 1 /\ Replaced(h[history_view_idx' + 1])
      BY <1>4, <2>1 DEF handle_history_down
    <3>2. history_view_idx' + 1 \in 1..Len(h) /\ history_view_idx' \in -1..(Len(h) - 1)
      BY <1>2, <1>4, <2>1, <3>1
    <3>3. Recalled(h[history_view_idx' + 1])
      BY <1>2, <3>2
    <3>4. EditOk(line_buf', shown', leftover') /\ leftover' = leftover \ {"serial"}
      BY <1>1, <3>1, <3>3, ReplacedKeeps
    <3>5. HistOk(history_entries', history_view_idx', past')
      BY <1>1, <3>2 DEF HistOk
    <3>. QED
      BY <1>1, <3>4, <3>5, AtPrompt
  <2>2. CASE ~(history_view_idx < Len(h) - 1)
    <3>1. history_view_idx' = -1 /\ Replaced(<<>>)
      BY <1>4, <2>2 DEF handle_history_down
    <3>2. Recalled(<<>>)
      BY RoomIs DEF Recalled, Clean
    <3>3. EditOk(line_buf', shown', leftover') /\ leftover' = leftover \ {"serial"}
      BY <1>1, <3>1, <3>2, ReplacedKeeps
    <3>4. -1 \in -1..(Len(h) - 1)
      BY <1>2
    <3>5. HistOk(history_entries', history_view_idx', past')
      BY <1>1, <3>1, <3>4 DEF HistOk
    <3>. QED
      BY <1>1, <3>3, <3>5, AtPrompt
  <2>. QED
    BY <2>1, <2>2
<1>. QED
  BY <1>3, <1>4

\* Completion does.
LEMMA CompleteStep == ASSUME ShellInv, handle_autocomplete PROVE ShellInv'
<1>. DEFINE first == LastSpace = 0
<1>. DEFINE names == {n \in IF first THEN Command ELSE RootName : Begins(n)}
<1>. DEFINE name == CHOOSE n \in names : TRUE
<1>. DEFINE more == IF first THEN Append(Completed(name), Space) ELSE Completed(name)
<1>1. EditOk(line_buf, shown, leftover) /\ HistOk(history_entries, history_view_idx, past)
  BY DEF ShellInv
<1>2. UNCHANGED <<historyVars, terminalVars, frames, leftover>>
  BY DEF handle_autocomplete
<1>3. \/ UNCHANGED editorVars
      \/ Prefix # <<>> /\ names # {} /\ line_buf' = line_buf \o more /\ shown' = shown \o more
      \/ shown' = (IF first THEN CString(line_buf) ELSE shown) /\ UNCHANGED line_buf
  BY Zenon DEF handle_autocomplete
<1>4. EditOk(line_buf', shown', leftover')
  <2>1. CASE UNCHANGED editorVars
    BY <1>1, <1>2, <2>1 DEF editorVars
  <2>2. CASE Prefix # <<>> /\ names # {} /\ line_buf' = line_buf \o more /\ shown' = shown \o more
    <3>1. name \in names
      BY <2>2, Zenon
    <3>2. name \in (IF first THEN Command ELSE RootName) /\ Begins(name)
      BY <3>1, Zenon
    <3>. HIDE DEF name
    <3>3. EditOk(line_buf \o more, shown \o more, leftover)
      BY <1>1, <2>2, <3>2, CompleteKeeps
    <3>. QED
      BY <1>2, <2>2, <3>3
  <2>3. CASE shown' = (IF first THEN CString(line_buf) ELSE shown) /\ UNCHANGED line_buf
    <3>1. EditOk(line_buf, CString(line_buf), leftover)
      BY <1>1, EditRedraw
    <3>2. shown' = CString(line_buf) \/ shown' = shown
      BY <2>3, Zenon
    <3>. QED
      BY <1>1, <1>2, <2>3, <3>1, <3>2
  <2>. QED
    BY <1>3, <2>1, <2>2, <2>3
<1>. QED
  BY <1>1, <1>2, <1>4, AtPrompt DEF historyVars

\* Ctrl-C does.
LEMMA InterruptStep == ASSUME ShellInv, feed_interrupt PROVE ShellInv'
<1>1. /\ line_buf' = <<>> /\ shown' = <<>> /\ leftover' = leftover \ {"serial"} /\ history_view_idx' = -1
      /\ UNCHANGED <<history_entries, past, terminalVars, frames>>
  BY DEF feed_interrupt
<1>2. EditOk(line_buf', shown', leftover')
  BY <1>1, EditEmpty
<1>3. HistOk(history_entries', history_view_idx', past')
  <2>1. HistOk(history_entries, history_view_idx, past) /\ Len(history_entries) \in Nat
    BY DEF ShellInv, HistOk, Texts
  <2>2. -1 \in -1..(Len(history_entries) - 1)
    BY <2>1
  <2>. QED
    BY <1>1, <2>1, <2>2 DEF HistOk
<1>. QED
  BY <1>1, <1>2, <1>3, AtPrompt

\* Ctrl-L does.
LEMMA RedrawStep == ASSUME ShellInv, feed_redraw PROVE ShellInv'
<1>1. /\ EditOk(line_buf, shown, leftover) /\ HistOk(history_entries, history_view_idx, past)
      /\ shown' = CString(line_buf) /\ UNCHANGED <<line_buf, historyVars, terminalVars, frames, leftover>>
  BY DEF ShellInv, feed_redraw
<1>2. EditOk(line_buf', shown', leftover')
  BY <1>1, EditRedraw
<1>. QED
  BY <1>1, <1>2, AtPrompt DEF historyVars

\* Erasing a character does.
LEMMA EraseStep == ASSUME ShellInv, feed_erase PROVE ShellInv'
<1>1. /\ EditOk(line_buf, shown, leftover) /\ HistOk(history_entries, history_view_idx, past)
      /\ UNCHANGED <<historyVars, terminalVars, frames, leftover>>
  BY DEF ShellInv, feed_erase
<1>2. EditOk(line_buf', shown', leftover')
  <2>1. CASE line_buf = <<>>
    BY <1>1, <2>1 DEF feed_erase, editorVars
  <2>2. CASE line_buf # <<>>
    <3>1. line_buf' = Front(line_buf) /\ shown' = (IF shown = <<>> THEN shown ELSE Front(shown))
      BY <2>2 DEF feed_erase
    <3>2. EditOk(Front(line_buf), IF shown = <<>> THEN shown ELSE Front(shown), leftover)
      BY <1>1, <2>2, EditErase
    <3>. QED
      BY <1>1, <3>1, <3>2
  <2>. QED
    BY <2>1, <2>2
<1>. QED
  BY <1>1, <1>2, AtPrompt DEF historyVars


\* Executing a line does.
LEMMA EnterStep == ASSUME ShellInv, feed_enter PROVE ShellInv'
<1>. DEFINE text == CString(line_buf)
<1>. DEFINE what == IF HasContent(text) THEN Starts(text) ELSE "nothing"
<1>1. /\ EditOk(line_buf, shown, leftover) /\ TermOk(g_term_cmd, typed, leftover)
      /\ HistOk(history_entries, history_view_idx, past) /\ HookOk(hook, frames)
  BY DEF ShellInv
<1>2. /\ Remember(text) /\ shown' = <<>>
      /\ line_buf' = IF what = "nothing" THEN <<>> ELSE Torn(line_buf)
      /\ frames' = IF what = "nothing" THEN frames
                   ELSE Append(frames, [editor |-> "serial", what |-> what])
      /\ leftover' = (leftover \ {IF what = "gui" THEN "terminal" ELSE "serial"})
                      \cup IF what = "nothing" THEN {} ELSE {"serial"}
      /\ IF what = "gui" THEN g_term_cmd' = <<>> /\ typed' = <<>> /\ UNCHANGED hook
         ELSE UNCHANGED terminalVars
  BY Zenon DEF feed_enter
<1>3. what \in {"nothing", "gui", "program"}
  BY StartsIs, Zenon
<1>4. HistOk(history_entries', history_view_idx', past')
  <2>1. Recalled(text)
    BY <1>1, LineRecalled
  <2>. QED
    BY <1>1, <1>2, <2>1, RememberKeeps
<1>. HIDE DEF what, text
<1>5. EditOk(line_buf', shown', leftover')
  <2>1. CASE what = "nothing"
    BY <1>2, <2>1, EditEmpty
  <2>2. CASE what # "nothing"
    <3>1. line_buf' = Torn(line_buf) /\ shown' = <<>> /\ "serial" \in leftover'
      BY <1>2, <2>2
    <3>. QED
      BY <1>1, <3>1, EditTorn
  <2>. QED
    BY <2>1, <2>2
<1>6. TermOk(g_term_cmd', typed', leftover')
  <2>1. CASE what = "gui"
    BY <1>2, <2>1, TermEmpty
  <2>2. CASE what # "gui"
    <3>1. g_term_cmd' = g_term_cmd /\ typed' = typed
      BY <1>2, <2>2 DEF terminalVars
    <3>2. "terminal" \in leftover => "terminal" \in leftover'
      BY <1>2, <2>2
    <3>. QED
      BY <1>1, <3>1, <3>2, TermMono
  <2>. QED
    BY <2>1, <2>2
<1>7. HookOk(hook', frames')
  <2>1. hook' = hook
    BY <1>2 DEF terminalVars
  <2>2. CASE what = "nothing"
    BY <1>1, <1>2, <2>1, <2>2
  <2>3. CASE what # "nothing"
    <3>1. what \in {"gui", "program"} /\ frames' = Append(frames, [editor |-> "serial", what |-> what])
      BY <1>2, <1>3, <2>3
    <3>. QED
      BY <1>1, <2>1, <3>1, HookMore
  <2>. QED
    BY <2>2, <2>3
<1>. QED
  BY <1>4, <1>5, <1>6, <1>7 DEF ShellInv

\* The terminal's keys leave the other editor, the history and the commands alone.
LEMMA AtTerminal ==
  ASSUME ShellInv, TermOk(g_term_cmd', typed', leftover'),
         UNCHANGED <<editorVars, historyVars, hook, frames>>,
         leftover' \in {leftover, leftover \ {"terminal"}}
  PROVE  ShellInv'
<1>1. EditOk(line_buf', shown', leftover')
  <2>1. line_buf' = line_buf /\ shown' = shown /\ ("serial" \in leftover => "serial" \in leftover')
    BY DEF editorVars
  <2>. QED
    BY <2>1, EditMono DEF ShellInv
<1>2. HistOk(history_entries', history_view_idx', past') /\ HookOk(hook', frames')
  BY DEF ShellInv, historyVars
<1>. QED
  BY <1>1, <1>2 DEF ShellInv

\* A character typed into the terminal does.
LEMMA TermCharStep == ASSUME ShellInv, NEW c \in Char, term_char(c) PROVE ShellInv'
<1>1. c \in Sign
  BY DEF Sign, Printable
<1>2. TermOk(g_term_cmd, typed, leftover) /\ UNCHANGED <<editorVars, historyVars, hook, frames, leftover>>
  BY DEF ShellInv, term_char
<1>3. TermOk(g_term_cmd', typed', leftover')
  <2>1. CASE Len(g_term_cmd) + 1 < TERM_CMD_MAX
    <3>1. g_term_cmd' = Append(g_term_cmd, c) /\ typed' = Append(typed, c)
      BY <2>1 DEF term_char
    <3>2. Append(g_term_cmd, c) \in Seq(Sign) /\ Len(Append(g_term_cmd, c)) = Len(g_term_cmd) + 1
      BY <1>1, <1>2 DEF TermOk
    <3>. QED
      BY <1>2, <2>1, <3>1, <3>2 DEF TermOk
  <2>2. CASE ~(Len(g_term_cmd) + 1 < TERM_CMD_MAX)
    BY <1>2, <2>2 DEF term_char
  <2>. QED
    BY <2>1, <2>2
<1>. QED
  BY <1>2, <1>3, AtTerminal

\* Erasing one there does.
LEMMA TermEraseStep == ASSUME ShellInv, term_erase PROVE ShellInv'
<1>1. /\ TermOk(g_term_cmd, typed, leftover) /\ UNCHANGED <<editorVars, historyVars, hook, frames, leftover>>
      /\ g_term_cmd' = IF g_term_cmd = <<>> THEN g_term_cmd ELSE Front(g_term_cmd)
      /\ typed' = IF typed = <<>> THEN typed ELSE Front(typed)
  BY DEF ShellInv, term_erase
<1>2. g_term_cmd \in Seq(Sign) /\ Len(g_term_cmd) < TERM_CMD_MAX
  BY <1>1 DEF TermOk
<1>3. g_term_cmd' \in Seq(Sign) /\ Len(g_term_cmd') < TERM_CMD_MAX
  <2>1. CASE g_term_cmd = <<>>
    BY <1>1, <1>2, <2>1
  <2>2. CASE g_term_cmd # <<>>
    <3>1. Len(g_term_cmd) \in Nat /\ Len(g_term_cmd) > 0
      BY <1>2, <2>2, EmptySeq
    <3>. DEFINE n == Len(g_term_cmd) - 1
    <3>2. n \in Nat /\ n <= Len(g_term_cmd) /\ n < TERM_CMD_MAX
      BY <1>2, <3>1, RoomIs
    <3>. HIDE DEF n
    <3>3. SubSeq(g_term_cmd, 1, n) \in Seq(Sign) /\ Len(SubSeq(g_term_cmd, 1, n)) = n
      BY <1>2, <3>2
    <3>4. g_term_cmd' = SubSeq(g_term_cmd, 1, n)
      BY <1>1, <2>2 DEF Front, n
    <3>. QED
      BY <3>2, <3>3, <3>4
  <2>. QED
    BY <2>1, <2>2
<1>4. TermOk(g_term_cmd', typed', leftover')
  <2>1. "terminal" \notin leftover' => typed = g_term_cmd
    BY <1>1 DEF TermOk
  <2>2. typed = g_term_cmd => typed' = g_term_cmd'
    BY <1>1, Zenon
  <2>. QED
    BY <1>3, <2>1, <2>2 DEF TermOk
<1>. QED
  BY <1>1, <1>4, AtTerminal

\* An escape there does.
LEMMA TermEscapeStep == ASSUME ShellInv, term_escape PROVE ShellInv'
<1>1. /\ g_term_cmd' = <<>> /\ typed' = <<>> /\ leftover' = leftover \ {"terminal"}
      /\ UNCHANGED <<editorVars, historyVars, hook, frames>>
  BY DEF term_escape
<1>2. TermOk(g_term_cmd', typed', leftover')
  BY <1>1, TermEmpty
<1>. QED
  BY <1>1, <1>2, AtTerminal

\* Executing a line there does.
LEMMA TermEnterStep == ASSUME ShellInv, term_enter PROVE ShellInv'
<1>. DEFINE text == CString(g_term_cmd)
<1>. DEFINE dispatched == g_term_cmd # <<>> /\ text # Clear
<1>. DEFINE what == IF dispatched /\ HasContent(text) THEN Starts(text) ELSE "nothing"
<1>1. /\ EditOk(line_buf, shown, leftover) /\ TermOk(g_term_cmd, typed, leftover)
      /\ HistOk(history_entries, history_view_idx, past) /\ HookOk(hook, frames)
  BY DEF ShellInv
<1>2. /\ IF dispatched THEN Remember(text) /\ hook' = HookAfter(what)
         ELSE UNCHANGED <<historyVars, hook>>
      /\ typed' = <<>>
      /\ g_term_cmd' = IF what = "program" THEN Torn(g_term_cmd) ELSE <<>>
      /\ leftover' = (leftover \ {"terminal"}) \cup IF what = "program" THEN {"terminal"} ELSE {}
      /\ frames' = IF what = "nothing" THEN frames
                   ELSE Append(frames, [editor |-> "terminal", what |-> what])
      /\ UNCHANGED editorVars
  BY Zenon DEF term_enter
<1>3. what \in {"nothing", "gui", "program"} /\ (~dispatched => what = "nothing")
  BY StartsIs, Zenon
<1>4. HistOk(history_entries', history_view_idx', past')
  <2>1. CASE dispatched
    <3>1. Recalled(text)
      BY <1>1, TermRecalled
    <3>2. Remember(text)
      BY <1>2, <2>1, Zenon
    <3>. QED
      BY <1>1, <3>1, <3>2, RememberKeeps
  <2>2. CASE ~dispatched
    <3>1. UNCHANGED historyVars
      BY <1>2, <2>2, Zenon
    <3>. QED
      BY <1>1, <3>1 DEF historyVars
  <2>. QED
    BY <2>1, <2>2
<1>5. \/ UNCHANGED hook /\ what = "nothing"
      \/ hook' = HookAfter(what)
  BY <1>2, <1>3, Zenon
<1>. HIDE DEF what, text, dispatched
<1>6. EditOk(line_buf', shown', leftover')
  <2>1. line_buf' = line_buf /\ shown' = shown
    BY <1>2 DEF editorVars
  <2>2. "serial" \in leftover => "serial" \in leftover'
    BY <1>2
  <2>. QED
    BY <1>1, <2>1, <2>2, EditMono
<1>7. TermOk(g_term_cmd', typed', leftover')
  <2>1. CASE what = "program"
    <3>1. g_term_cmd' = Torn(g_term_cmd) /\ "terminal" \in leftover'
      BY <1>2, <2>1
    <3>2. g_term_cmd \in Seq(Sign) /\ Len(g_term_cmd) < TERM_CMD_MAX
      BY <1>1 DEF TermOk
    <3>3. Torn(g_term_cmd) \in Seq(Sign) /\ Len(Torn(g_term_cmd)) = Len(g_term_cmd)
      BY <3>2, TornLength
    <3>. QED
      BY <3>1, <3>2, <3>3 DEF TermOk
  <2>2. CASE what # "program"
    BY <1>2, <2>2, TermEmpty
  <2>. QED
    BY <2>1, <2>2
<1>8. HookOk(hook', frames')
  <2>1. CASE what = "nothing"
    <3>1. frames' = frames
      BY <1>2, <2>1
    <3>2. hook' => hook
      BY <1>5, <2>1, Zenon DEF HookAfter
    <3>. QED
      BY <1>1, <3>1, <3>2 DEF HookOk
  <2>2. CASE what # "nothing"
    <3>1. what \in {"gui", "program"} /\ frames' = Append(frames, [editor |-> "terminal", what |-> what])
      BY <1>2, <1>3, <2>2
    <3>. QED
      BY <1>1, <3>1, HookMore
  <2>. QED
    BY <2>1, <2>2
<1>. QED
  BY <1>4, <1>6, <1>7, <1>8 DEF ShellInv

\* The return of a command does.
LEMMA ReturnStep == ASSUME ShellInv, command_returns PROVE ShellInv'
<1>. DEFINE f == Last(frames)
<1>1. /\ EditOk(line_buf, shown, leftover) /\ TermOk(g_term_cmd, typed, leftover)
      /\ HistOk(history_entries, history_view_idx, past) /\ HookOk(hook, frames)
  BY DEF ShellInv
<1>2. /\ frames # <<>> /\ frames' = Front(frames) /\ leftover' = leftover \ {f.editor}
      /\ IF f.editor = "serial"
           THEN line_buf' = <<>> /\ shown' = <<>> /\ UNCHANGED terminalVars
           ELSE g_term_cmd' = <<>> /\ typed' = <<>> /\ hook' = FALSE /\ UNCHANGED editorVars
      /\ UNCHANGED historyVars
  BY Zenon DEF command_returns
<1>3. frames \in Seq(CommandFrame) /\ Len(frames) \in Nat /\ Len(frames) > 0
  BY <1>1, <1>2, EmptySeq DEF HookOk
<1>. DEFINE n == Len(frames) - 1
<1>4. n \in Nat /\ n <= Len(frames) /\ Len(frames) = n + 1
  BY <1>3
<1>. HIDE DEF n
<1>5. /\ frames' \in Seq(CommandFrame) /\ Len(frames') = n
      /\ (\A i \in 1..n : frames'[i] = frames[i]) /\ f = frames[n + 1]
  <2>1. frames' = SubSeq(frames, 1, n)
    BY <1>2 DEF Front, n
  <2>2. SubSeq(frames, 1, n) \in Seq(CommandFrame) /\ Len(SubSeq(frames, 1, n)) = n
        /\ \A i \in 1..n : SubSeq(frames, 1, n)[i] = frames[i]
    BY <1>3, <1>4
  <2>3. f = frames[n + 1]
    BY <1>4 DEF Last
  <2>. QED
    BY <2>1, <2>2, <2>3
<1>6. f \in CommandFrame
  <2>1. n + 1 \in 1..Len(frames)
    BY <1>4
  <2>. QED
    BY <1>3, <1>5, <2>1
<1>7. f.editor \in {"serial", "terminal"}
  BY <1>6 DEF CommandFrame
<1>. HIDE DEF f
<1>8. HistOk(history_entries', history_view_idx', past')
  BY <1>1, <1>2 DEF historyVars
<1>9. CASE f.editor = "serial"
  <2>1. EditOk(line_buf', shown', leftover')
    BY <1>2, <1>9, EditEmpty
  <2>2. g_term_cmd' = g_term_cmd /\ typed' = typed /\ hook' = hook
    BY <1>2, <1>9 DEF terminalVars
  <2>3. TermOk(g_term_cmd', typed', leftover')
    <3>1. "terminal" \in leftover => "terminal" \in leftover'
      BY <1>2, <1>9
    <3>. QED
      BY <1>1, <2>2, <3>1, TermMono
  <2>4. HookOk(hook', frames')
    <3>1. ASSUME hook PROVE \E i \in 1..Len(frames') : frames'[i].editor = "terminal"
      <4>1. PICK i \in 1..Len(frames) : frames[i].editor = "terminal"
        BY <1>1, <3>1 DEF HookOk
      <4>2. i # n + 1
        BY <1>5, <1>9, <4>1
      <4>3. i \in 1..n
        BY <1>4, <4>2
      <4>. QED
        BY <1>5, <4>1, <4>3
    <3>. QED
      BY <1>5, <2>2, <3>1 DEF HookOk
  <2>. QED
    BY <1>8, <2>1, <2>3, <2>4 DEF ShellInv
<1>10. CASE f.editor = "terminal"
  <2>1. g_term_cmd' = <<>> /\ typed' = <<>> /\ hook' = FALSE /\ line_buf' = line_buf /\ shown' = shown
    BY <1>2, <1>10 DEF editorVars
  <2>2. TermOk(g_term_cmd', typed', leftover')
    BY <2>1, TermEmpty
  <2>3. EditOk(line_buf', shown', leftover')
    <3>1. "serial" \in leftover => "serial" \in leftover'
      BY <1>2, <1>10
    <3>. QED
      BY <1>1, <2>1, <3>1, EditMono
  <2>4. HookOk(hook', frames')
    BY <1>5, <2>1 DEF HookOk
  <2>. QED
    BY <1>8, <2>2, <2>3, <2>4 DEF ShellInv
<1>. QED
  BY <1>7, <1>9, <1>10

\* The invariant of the editors holds at first.
LEMMA ShellStart == ShellInit => ShellInv
<1>. SUFFICES ASSUME ShellInit PROVE ShellInv
  OBVIOUS
<1>1. EditOk(line_buf, shown, leftover) /\ TermOk(g_term_cmd, typed, leftover)
  BY EditEmpty, TermEmpty DEF ShellInit
<1>2. HistOk(<<>>, -1, <<>>)
  BY ShellAssumption DEF HistOk, Texts
<1>3. HookOk(FALSE, <<>>)
  BY DEF HookOk
<1>. QED
  BY <1>1, <1>2, <1>3 DEF ShellInit, ShellInv

\* Every step keeps it.
LEMMA ShellStep == ShellInv /\ [ShellNext]_shellVars => ShellInv'
<1>. SUFFICES ASSUME ShellInv, [ShellNext]_shellVars PROVE ShellInv'
  OBVIOUS
<1>1. CASE UNCHANGED shellVars
  BY <1>1 DEF shellVars, editorVars, historyVars, terminalVars, ShellInv
<1>2. CASE ShellNext
  BY <1>2, EscapeStep, CharStep, UpStep, DownStep, CompleteStep, InterruptStep, RedrawStep,
     EraseStep, EnterStep, TermCharStep, TermEraseStep, TermEscapeStep, TermEnterStep, ReturnStep,
     Zenon DEF ShellNext
<1>. QED
  BY <1>1, <1>2


\* It has the parts of EditorsAgree about lines.
LEMMA ShellAgrees ==
  ASSUME ShellInv
  PROVE  LineFits /\ EchoMatches /\ HistoryKept /\ HookReset /\ TokensAreWords
<1>1. /\ EditOk(line_buf, shown, leftover) /\ TermOk(g_term_cmd, typed, leftover)
      /\ HistOk(history_entries, history_view_idx, past) /\ HookOk(hook, frames)
  BY DEF ShellInv
<1>2. line_buf \in Seq(Sign)
  BY <1>1 DEF EditOk
<1>3. LineFits
  BY <1>1 DEF LineFits, EditOk, TermOk
<1>4. EchoMatches
  <2>1. "serial" \notin leftover => shown = line_buf /\ \A i \in DOMAIN line_buf : line_buf[i] # NUL
    BY <1>1 DEF EditOk, Clean
  <2>2. "serial" \notin leftover => CString(line_buf) = line_buf
    BY <1>2, <2>1, CStringIs
  <2>. QED
    BY <1>1, <2>1, <2>2 DEF EchoMatches, TermOk
<1>5. HistoryKept
  <2>. DEFINE h == history_entries
  <2>. DEFINE n == Len(h)
  <2>. DEFINE q == Len(past)
  <2>1. /\ h \in Texts /\ past \in Texts /\ n \in Nat /\ q \in Nat
        /\ n = IF q <= HISTORY_MAX THEN q ELSE HISTORY_MAX
        /\ \A i \in 1..n : h[i] = past[q - n + i]
        /\ history_view_idx \in -1..(n - 1)
    BY <1>1 DEF HistOk, Texts
  <2>2. HISTORY_MAX \in Nat
    BY ShellAssumption
  <2>. DEFINE z == SubSeq(past, q - n + 1, q)
  <2>3. n <= q
    <3>. HIDE DEF n, q
    <3>. QED
      BY <2>1, <2>2
  <2>4. q - n + 1 \in Nat /\ q - n + 1 > 0 /\ q - (q - n + 1) + 1 = n
    <3>. HIDE DEF n, q
    <3>. QED
      BY <2>1, <2>3
  <2>5. z \in Texts /\ Len(z) = n /\ \A i \in 1..n : z[i] = past[q - n + i]
    <3>. DEFINE a == q - n + 1
    <3>1. a \in Nat /\ a > 0 /\ q - a + 1 = n /\ a <= q + 1 /\ \A i \in 1..n : a + i - 1 = q - n + i
      <4>. HIDE DEF n, q
      <4>. QED
        BY <2>1, <2>3, <2>4
    <3>. HIDE DEF a, n
    <3>2. SubSeq(past, a, q) \in Texts /\ Len(SubSeq(past, a, q)) = q - a + 1
          /\ \A i \in 1..(q - a + 1) : SubSeq(past, a, q)[i] = past[a + i - 1]
      BY <2>1, <3>1 DEF Texts
    <3>. QED
      BY <3>1, <3>2 DEF a
  <2>. HIDE DEF z
  <2>6. h = z
    <3>1. h \in Seq(Seq(Sign)) /\ z \in Seq(Seq(Sign)) /\ Len(h) = Len(z)
          /\ \A i \in 1..Len(h) : h[i] = z[i]
      BY <2>1, <2>5 DEF Texts
    <3>. HIDE DEF h
    <3>. QED
      BY <3>1, SeqEqual
  <2>7. n = Min({q, HISTORY_MAX})
    <3>. HIDE DEF n, q
    <3>1. {q, HISTORY_MAX} \in SUBSET Nat /\ {q, HISTORY_MAX} # {}
      BY <2>1, <2>2
    <3>2. Min({q, HISTORY_MAX}) \in {q, HISTORY_MAX} /\ \A y \in {q, HISTORY_MAX} : Min({q, HISTORY_MAX}) <= y
      BY <3>1, MinOf
    <3>. QED
      BY <2>1, <2>2, <3>2
  <2>. QED
    BY <2>1, <2>6, <2>7, Zenon DEF HistoryKept, z
<1>6. HookReset
  <2>1. frames \in Seq(CommandFrame) /\ (hook => \E i \in 1..Len(frames) : frames[i].editor = "terminal")
    BY <1>1 DEF HookOk
  <2>. QED
    BY <2>1 DEF HookReset
<1>7. TokensAreWords
  <2>. DEFINE text == CString(line_buf)
  <2>1. text \in Seq(Sign)
    BY <1>2, CStringIs
  <2>2. NoQuotes(text) =>
          tokenize(text).argv = [m \in 1..Min({Cardinality(Heads(text)), Most}) |-> WordOf(text, m)]
    BY <2>1, WordsAre
  <2>. QED
    BY <2>2, Zenon DEF TokensAreWords, NoQuotes, Most, WordOf
<1>. QED
  BY <1>3, <1>4, <1>5, <1>6, <1>7

-----------------------------------------------------------------------------
(* The terminal's screen and the paper.                                    *)

Rows == [1..TERM_MAX_ROWS -> Seq(Letter)]

ScreenOk(lines, row, col, p) ==
  /\ lines \in Rows /\ p \in Seq(Seq(Letter))
  /\ row \in Nat /\ row < TERM_MAX_ROWS /\ row < Len(p)
  /\ col \in Nat /\ col <= Len(lines[row + 1])
  /\ \A r \in 1..TERM_MAX_ROWS : Len(lines[r]) < TERM_MAX_COLS /\ (r > row + 1 => lines[r] = <<>>)
  /\ \A r \in 1..(row + 1) : lines[r] = p[Len(p) - (row + 1) + r]

\* The screen has a row and two columns at least.
LEMMA ScreenSize ==
  /\ TERM_MAX_ROWS \in Nat /\ TERM_MAX_ROWS > 0 /\ TERM_MAX_COLS \in Nat /\ TERM_MAX_COLS > 1
BY ShellAssumption

\* Which line of the paper a row shows, before and after a line more.
LEMMA Places ==
  ASSUME NEW n \in Nat, NEW row \in Nat, row < n, NEW r \in Nat, r > 0, r <= row + 1
  PROVE  /\ n - (row + 1) + r \in 1..n /\ (r # row + 1 => n - (row + 1) + r # n)
         /\ (n + 1) - ((row + 1) + 1) + r = n - (row + 1) + r
         /\ r <= row => /\ (n + 1) - (row + 1) + r = n - (row + 1) + (r + 1)
                        /\ n - (row + 1) + (r + 1) \in 1..n
OBVIOUS

\* The cursor's row is rewritten, on the screen and on the paper.
LEMMA WriteOk ==
  ASSUME NEW lines, NEW row, NEW col, NEW p, ScreenOk(lines, row, col, p),
         NEW w \in Seq(Letter), Len(w) < TERM_MAX_COLS, NEW k \in Nat, k <= Len(w)
  PROVE  ScreenOk([lines EXCEPT ![row + 1] = w], row, k, [p EXCEPT ![Len(p)] = w])
<1>. DEFINE m == [lines EXCEPT ![row + 1] = w]
<1>. DEFINE q == [p EXCEPT ![Len(p)] = w]
<1>1. /\ lines \in Rows /\ p \in Seq(Seq(Letter)) /\ row \in Nat /\ row < TERM_MAX_ROWS /\ row < Len(p)
      /\ (\A r \in 1..TERM_MAX_ROWS : Len(lines[r]) < TERM_MAX_COLS /\ (r > row + 1 => lines[r] = <<>>))
      /\ \A r \in 1..(row + 1) : lines[r] = p[Len(p) - (row + 1) + r]
  BY DEF ScreenOk
<1>2. row + 1 \in 1..TERM_MAX_ROWS /\ Len(p) \in Nat /\ Len(p) \in 1..Len(p)
  BY <1>1, ScreenSize
<1>3. m \in Rows /\ m[row + 1] = w /\ \A r \in 1..TERM_MAX_ROWS : r # row + 1 => m[r] = lines[r]
  BY <1>1, <1>2 DEF Rows
<1>4. q \in Seq(Seq(Letter)) /\ Len(q) = Len(p) /\ q[Len(p)] = w
      /\ \A i \in 1..Len(p) : i # Len(p) => q[i] = p[i]
  BY <1>1, <1>2
<1>. HIDE DEF m, q
<1>5. ASSUME NEW r \in 1..TERM_MAX_ROWS
      PROVE  Len(m[r]) < TERM_MAX_COLS /\ (r > row + 1 => m[r] = <<>>)
  <2>1. CASE r = row + 1
    BY <1>1, <1>3, <2>1
  <2>2. CASE r # row + 1
    BY <1>1, <1>3, <2>2
  <2>. QED
    BY <2>1, <2>2
<1>6. ASSUME NEW r \in 1..(row + 1) PROVE m[r] = q[Len(q) - (row + 1) + r]
  <2>1. CASE r = row + 1
    <3>1. Len(q) - (row + 1) + r = Len(p)
      BY <1>1, <1>2, <1>4, <2>1
    <3>. QED
      BY <1>3, <1>4, <2>1, <3>1
  <2>2. CASE r # row + 1
    <3>1. r \in 1..TERM_MAX_ROWS /\ Len(p) - (row + 1) + r \in 1..Len(p)
          /\ Len(p) - (row + 1) + r # Len(p)
      <4>1. r \in Nat /\ r > 0 /\ r <= row + 1 /\ r \in 1..TERM_MAX_ROWS
        <5>1. row + 1 <= TERM_MAX_ROWS /\ row + 1 \in Nat
          BY <1>1, ScreenSize
        <5>. QED
          BY <5>1, ScreenSize
      <4>. QED
        BY <1>1, <1>2, <2>2, <4>1, Places
    <3>2. m[r] = lines[r] /\ lines[r] = p[Len(p) - (row + 1) + r]
      BY <1>1, <1>3, <2>2, <3>1
    <3>. QED
      BY <1>4, <3>1, <3>2
  <2>. QED
    BY <2>1, <2>2
<1>7. k <= Len(m[row + 1]) /\ row < Len(q)
  BY <1>1, <1>3, <1>4
<1>8. ScreenOk(m, row, k, q)
  BY <1>1, <1>3, <1>4, <1>5, <1>6, <1>7 DEF ScreenOk
<1>. QED
  BY <1>8 DEF m, q

\* A line feed begins an empty row.
LEMMA FedOk ==
  ASSUME NEW lines, NEW row, NEW col, NEW p, ScreenOk(lines, row, col, p)
  PROVE  LET t == Fed([lines |-> lines, row |-> row, col |-> col]) IN
         /\ t = [lines |-> t.lines, row |-> t.row, col |-> 0]
         /\ ScreenOk(t.lines, t.row, 0, Append(p, <<>>))
         /\ t.lines[t.row + 1] = <<>>
<1>. DEFINE q == Append(p, <<>>)
<1>1. /\ lines \in Rows /\ p \in Seq(Seq(Letter)) /\ row \in Nat /\ row < TERM_MAX_ROWS /\ row < Len(p)
      /\ (\A r \in 1..TERM_MAX_ROWS : Len(lines[r]) < TERM_MAX_COLS /\ (r > row + 1 => lines[r] = <<>>))
      /\ \A r \in 1..(row + 1) : lines[r] = p[Len(p) - (row + 1) + r]
  BY DEF ScreenOk
<1>2. Len(p) \in Nat /\ <<>> \in Seq(Letter) /\ Len(<<>>) = 0
  BY <1>1
<1>3. q \in Seq(Seq(Letter)) /\ Len(q) = Len(p) + 1 /\ q[Len(p) + 1] = <<>>
      /\ \A i \in 1..Len(p) : q[i] = p[i]
  BY <1>1, <1>2
<1>. HIDE DEF q
<1>4. CASE row + 1 < TERM_MAX_ROWS
  <2>1. Fed([lines |-> lines, row |-> row, col |-> col]) = [lines |-> lines, row |-> row + 1, col |-> 0]
    BY <1>4 DEF Fed
  <2>2. (row + 1) + 1 \in 1..TERM_MAX_ROWS /\ (row + 1) + 1 > row + 1 /\ row + 1 \in Nat
    BY <1>1, <1>4, ScreenSize
  <2>3. lines[(row + 1) + 1] = <<>>
    BY <1>1, <2>2
  <2>4. ASSUME NEW r \in 1..((row + 1) + 1) PROVE lines[r] = q[Len(q) - ((row + 1) + 1) + r]
    <3>1. CASE r = (row + 1) + 1
      <4>1. Len(q) - ((row + 1) + 1) + r = Len(p) + 1
        BY <1>1, <1>2, <1>3, <3>1
      <4>. QED
        BY <1>3, <2>3, <3>1, <4>1
    <3>2. CASE r # (row + 1) + 1
      <4>1. /\ r \in 1..(row + 1) /\ Len(q) - ((row + 1) + 1) + r = Len(p) - (row + 1) + r
            /\ Len(p) - (row + 1) + r \in 1..Len(p)
        <5>. DEFINE n == Len(p)
        <5>1. r \in Nat /\ r > 0 /\ r <= row + 1 /\ r \in 1..(row + 1)
          <6>1. row \in Nat
            BY <1>1, Zenon
          <6>. QED
            BY <3>2, <6>1
        <5>2. n \in Nat /\ row \in Nat /\ row < n /\ Len(q) = n + 1
          BY <1>1, <1>2, <1>3
        <5>. HIDE DEF n
        <5>3. n - (row + 1) + r \in 1..n /\ (n + 1) - ((row + 1) + 1) + r = n - (row + 1) + r
          BY <5>1, <5>2, Places
        <5>. QED
          BY <5>1, <5>2, <5>3 DEF n
      <4>. QED
        BY <1>1, <1>3, <4>1
    <3>. QED
      BY <3>1, <3>2
  <2>5. \A r \in 1..TERM_MAX_ROWS : r > (row + 1) + 1 => lines[r] = <<>>
    BY <1>1
  <2>6. row + 1 < Len(q) /\ 0 <= Len(lines[(row + 1) + 1])
    BY <1>1, <1>2, <1>3, <2>3
  <2>7. ScreenOk(lines, row + 1, 0, q)
    BY <1>1, <1>3, <1>4, <2>2, <2>4, <2>5, <2>6 DEF ScreenOk
  <2>. QED
    BY <2>1, <2>3, <2>7 DEF q
<1>5. CASE ~(row + 1 < TERM_MAX_ROWS)
  <2>. DEFINE m == wm_term_scroll(lines)
  <2>1. Fed([lines |-> lines, row |-> row, col |-> col]) = [lines |-> m, row |-> row, col |-> 0]
    BY <1>5 DEF Fed
  <2>2. row + 1 = TERM_MAX_ROWS /\ row + 1 \in 1..TERM_MAX_ROWS
    BY <1>1, <1>5, ScreenSize
  <2>3. m \in Rows /\ m[row + 1] = <<>> /\ \A r \in 1..row : m[r] = lines[r + 1]
    <3>1. \A r \in 1..TERM_MAX_ROWS : r < TERM_MAX_ROWS => r + 1 \in 1..TERM_MAX_ROWS
      BY ScreenSize
    <3>2. m \in Rows
      BY <1>1, <1>2, <3>1 DEF wm_term_scroll, Rows
    <3>3. m[row + 1] = <<>>
      BY <2>2, ScreenSize DEF wm_term_scroll
    <3>4. \A r \in 1..row : r \in 1..TERM_MAX_ROWS /\ r < TERM_MAX_ROWS
      BY <1>1, ScreenSize
    <3>5. \A r \in 1..row : m[r] = lines[r + 1]
      BY <3>4 DEF wm_term_scroll
    <3>. QED
      BY <3>2, <3>3, <3>5
  <2>. HIDE DEF m
  <2>4. ASSUME NEW r \in 1..(row + 1) PROVE m[r] = q[Len(q) - (row + 1) + r]
    <3>1. CASE r = row + 1
      <4>1. Len(q) - (row + 1) + r = Len(p) + 1
        BY <1>1, <1>2, <1>3, <3>1
      <4>. QED
        BY <1>3, <2>3, <3>1, <4>1
    <3>2. CASE r # row + 1
      <4>1. /\ r \in 1..row /\ r + 1 \in 1..(row + 1)
            /\ Len(q) - (row + 1) + r = Len(p) - (row + 1) + (r + 1)
            /\ Len(p) - (row + 1) + (r + 1) \in 1..Len(p)
        <5>. DEFINE n == Len(p)
        <5>1. r \in Nat /\ r > 0 /\ r <= row + 1 /\ r <= row /\ r \in 1..row /\ r + 1 \in 1..(row + 1)
          BY <1>1, <3>2
        <5>2. n \in Nat /\ row \in Nat /\ row < n /\ Len(q) = n + 1
          BY <1>1, <1>2, <1>3
        <5>. HIDE DEF n
        <5>3. /\ (n + 1) - (row + 1) + r = n - (row + 1) + (r + 1)
              /\ n - (row + 1) + (r + 1) \in 1..n
          BY <5>1, <5>2, Places
        <5>. QED
          BY <5>1, <5>2, <5>3 DEF n
      <4>2. m[r] = lines[r + 1] /\ lines[r + 1] = p[Len(p) - (row + 1) + (r + 1)]
        BY <1>1, <2>3, <4>1
      <4>. QED
        BY <1>3, <4>1, <4>2
    <3>. QED
      BY <3>1, <3>2
  <2>5. ASSUME NEW r \in 1..TERM_MAX_ROWS
        PROVE  Len(m[r]) < TERM_MAX_COLS /\ (r > row + 1 => m[r] = <<>>)
    <3>1. CASE r = row + 1
      BY <1>2, <2>3, <3>1, ScreenSize
    <3>2. CASE r # row + 1
      <4>1. r \in 1..row /\ r + 1 \in 1..TERM_MAX_ROWS /\ ~(r > row + 1)
        BY <1>1, <2>2, <3>2, ScreenSize
      <4>2. m[r] = lines[r + 1] /\ Len(lines[r + 1]) < TERM_MAX_COLS
        BY <1>1, <2>3, <4>1
      <4>. QED
        BY <4>1, <4>2
    <3>. QED
      BY <3>1, <3>2
  <2>6. row < Len(q) /\ 0 <= Len(m[row + 1])
    BY <1>1, <1>2, <1>3, <2>3
  <2>7. ScreenOk(m, row, 0, q)
    BY <1>1, <1>3, <2>3, <2>4, <2>5, <2>6 DEF ScreenOk
  <2>. QED
    BY <2>1, <2>3, <2>7 DEF q
<1>. QED
  BY <1>4, <1>5


ScreenInv ==
  /\ g_term_cur = [row |-> g_term_cur.row, col |-> g_term_cur.col]
  /\ ScreenOk(g_term_lines, g_term_cur.row, g_term_cur.col, paper)

\* The invariant of the screen holds at first.
LEMMA ScreenStart == ScreenInit => ScreenInv
<1>. SUFFICES ASSUME ScreenInit PROVE ScreenInv
  OBVIOUS
<1>. DEFINE lines == [r \in 1..TERM_MAX_ROWS |-> <<>>]
<1>. DEFINE p == <<<<>>>>
<1>1. /\ g_term_lines = lines /\ g_term_cur = [row |-> 0, col |-> 0] /\ paper = p
  BY DEF ScreenInit
<1>2. <<>> \in Seq(Letter) /\ Len(<<>>) = 0
  OBVIOUS
<1>3. p \in Seq(Seq(Letter)) /\ Len(p) = 1 /\ p[1] = <<>>
  BY <1>2
<1>4. lines \in Rows /\ \A r \in 1..TERM_MAX_ROWS : lines[r] = <<>>
  BY <1>2 DEF Rows
<1>5. 1 \in 1..TERM_MAX_ROWS
  BY ScreenSize
<1>. HIDE DEF lines, p
<1>6. \A r \in 1..(0 + 1) : lines[r] = p[Len(p) - (0 + 1) + r]
  <2>1. \A r \in 1..(0 + 1) : r = 1 /\ 1 - (0 + 1) + r = 1
    OBVIOUS
  <2>. QED
    BY <1>3, <1>4, <1>5, <2>1
<1>7. 0 < Len(p) /\ 0 <= Len(lines[0 + 1])
  BY <1>2, <1>3, <1>4, <1>5
<1>8. ScreenOk(lines, 0, 0, p)
  BY <1>2, <1>3, <1>4, <1>6, <1>7, ScreenSize DEF ScreenOk
<1>. QED
  BY <1>1, <1>8 DEF ScreenInv

\* The part of a row before column k.
LEMMA RowCut ==
  ASSUME NEW w \in Seq(Letter), NEW k \in Nat, k <= Len(w)
  PROVE  SubSeq(w, 1, k) \in Seq(Letter) /\ Len(SubSeq(w, 1, k)) = k
OBVIOUS

\* The record a write of one row and the column leaves.
LEMMA PutRecord ==
  ASSUME NEW m, NEW k, NEW j, NEW c
  PROVE  LET t == [lines |-> m, row |-> k, col |-> j] IN
         [t EXCEPT !.lines[t.row + 1] = Append(SubSeq(@, 1, t.col), c), !.col = @ + 1]
           = [lines |-> [m EXCEPT ![k + 1] = Append(SubSeq(m[k + 1], 1, j), c)], row |-> k, col |-> j + 1]
<1>. DEFINE t == [lines |-> m, row |-> k, col |-> j]
<1>1. t.lines = m /\ t.row = k /\ t.col = j
  OBVIOUS
<1>0. t = [lines |-> m, row |-> k, col |-> j]
  OBVIOUS
<1>. HIDE DEF t
<1>2. [t EXCEPT !.lines[t.row + 1] = Append(SubSeq(@, 1, t.col), c), !.col = @ + 1]
        = [t EXCEPT !.lines[t.row + 1] = Append(SubSeq(t.lines[t.row + 1], 1, t.col), c), !.col = t.col + 1]
  OBVIOUS
<1>. DEFINE i == t.row + 1
<1>. DEFINE v == Append(SubSeq(t.lines[t.row + 1], 1, t.col), c)
<1>. DEFINE x == t.col + 1
<1>3. [t EXCEPT !.lines[i] = v, !.col = x] = [lines |-> [m EXCEPT ![i] = v], row |-> k, col |-> x]
  <2>. DEFINE n == [m EXCEPT ![i] = v]
  <2>. HIDE DEF i, v, x
  <2>1. [t EXCEPT !.lines[i] = v, !.col = x] = [[t EXCEPT !.lines[i] = v] EXCEPT !.col = x]
    OBVIOUS
  <2>2. [t EXCEPT !.lines[i] = v] = [lines |-> n, row |-> k, col |-> j]
    BY <1>0
  <2>. HIDE DEF n
  <2>3. [[lines |-> n, row |-> k, col |-> j] EXCEPT !.col = x] = [lines |-> n, row |-> k, col |-> x]
    OBVIOUS
  <2>. QED
    BY <2>1, <2>2, <2>3, Zenon DEF n
<1>. QED
  BY <1>1, <1>2, <1>3, Zenon DEF t

\* What erasing a character changes.
LEMMA EraseRecord ==
  ASSUME NEW m, NEW k, NEW j
  PROVE  LET t == [lines |-> m, row |-> k, col |-> j] IN
         [t EXCEPT !.lines[t.row + 1] = SubSeq(@, 1, t.col - 1), !.col = @ - 1]
           = [lines |-> [m EXCEPT ![k + 1] = SubSeq(m[k + 1], 1, j - 1)], row |-> k, col |-> j - 1]
<1>. DEFINE t == [lines |-> m, row |-> k, col |-> j]
<1>1. t.lines = m /\ t.row = k /\ t.col = j
  OBVIOUS
<1>0. t = [lines |-> m, row |-> k, col |-> j]
  OBVIOUS
<1>. HIDE DEF t
<1>2. [t EXCEPT !.lines[t.row + 1] = SubSeq(@, 1, t.col - 1), !.col = @ - 1]
        = [t EXCEPT !.lines[t.row + 1] = SubSeq(t.lines[t.row + 1], 1, t.col - 1), !.col = t.col - 1]
  OBVIOUS
<1>. DEFINE i == t.row + 1
<1>. DEFINE v == SubSeq(t.lines[t.row + 1], 1, t.col - 1)
<1>. DEFINE x == t.col - 1
<1>3. [t EXCEPT !.lines[i] = v, !.col = x] = [lines |-> [m EXCEPT ![i] = v], row |-> k, col |-> x]
  <2>. DEFINE n == [m EXCEPT ![i] = v]
  <2>. HIDE DEF i, v, x
  <2>1. [t EXCEPT !.lines[i] = v, !.col = x] = [[t EXCEPT !.lines[i] = v] EXCEPT !.col = x]
    OBVIOUS
  <2>2. [t EXCEPT !.lines[i] = v] = [lines |-> n, row |-> k, col |-> j]
    BY <1>0
  <2>. HIDE DEF n
  <2>3. [[lines |-> n, row |-> k, col |-> j] EXCEPT !.col = x] = [lines |-> n, row |-> k, col |-> x]
    OBVIOUS
  <2>. QED
    BY <2>1, <2>2, <2>3, Zenon DEF n
<1>. QED
  BY <1>1, <1>2, <1>3, Zenon DEF t

\* What Put writes, on the screen and on the paper.
LEMMA PutOk ==
  ASSUME NEW lines, NEW row, NEW col, NEW p, ScreenOk(lines, row, col, p), NEW c \in Letter
  PROVE  LET t == Put([lines |-> lines, row |-> row, col |-> col], c)
             q == IF col + 1 >= TERM_MAX_COLS THEN Append(p, <<c>>)
                  ELSE [p EXCEPT ![Len(p)] = Append(SubSeq(@, 1, col), c)]
         IN  ScreenOk(t.lines, t.row, t.col, q)
<1>. DEFINE s == [lines |-> lines, row |-> row, col |-> col]
<1>1. /\ lines \in Rows /\ p \in Seq(Seq(Letter)) /\ row \in Nat /\ row < TERM_MAX_ROWS /\ row < Len(p)
      /\ col \in Nat /\ col <= Len(lines[row + 1])
      /\ \A r \in 1..(row + 1) : lines[r] = p[Len(p) - (row + 1) + r]
  BY DEF ScreenOk
<1>2. <<c>> \in Seq(Letter) /\ Len(<<c>>) = 1 /\ Len(p) \in Nat
  BY <1>1
<1>3. CASE col + 1 >= TERM_MAX_COLS
  <2>. DEFINE t == Fed(s)
  <2>1. /\ t = [lines |-> t.lines, row |-> t.row, col |-> 0]
        /\ ScreenOk(t.lines, t.row, 0, Append(p, <<>>)) /\ t.lines[t.row + 1] = <<>>
    BY FedOk
  <2>2. Put(s, c) = [t EXCEPT !.lines[t.row + 1] = Append(SubSeq(@, 1, t.col), c), !.col = @ + 1]
    BY <1>3, Zenon DEF Put, s
  <2>. HIDE DEF t, s
  <2>. DEFINE m == t.lines
  <2>. DEFINE k == t.row
  <2>3. t.col = 0
    BY <2>1
  <2>4. Append(SubSeq(m[k + 1], 1, t.col), c) = <<c>>
    <3>1. SubSeq(<<>>, 1, 0) = <<>> /\ Append(<<>>, c) = <<c>>
      OBVIOUS
    <3>. QED
      BY <2>1, <2>3, <3>1
  <2>5. Put(s, c) = [lines |-> [m EXCEPT ![k + 1] = <<c>>], row |-> k, col |-> 1]
    <3>1. t = [lines |-> m, row |-> k, col |-> 0]
      BY <2>1
    <3>. HIDE DEF m, k
    <3>2. Put(s, c) = [lines |-> [m EXCEPT ![k + 1] = Append(SubSeq(m[k + 1], 1, 0), c)],
                       row |-> k, col |-> 0 + 1]
      BY <2>2, <3>1, PutRecord, Zenon
    <3>3. Append(SubSeq(m[k + 1], 1, 0), c) = <<c>> /\ 0 + 1 = 1
      BY <2>3, <2>4
    <3>. QED
      BY <3>2, <3>3, Zenon
  <2>. HIDE DEF m, k
  <2>6. ScreenOk(m, k, 0, Append(p, <<>>))
    BY <2>1 DEF m, k
  <2>7. [Append(p, <<>>) EXCEPT ![Len(Append(p, <<>>))] = <<c>>] = Append(p, <<c>>)
    <3>. DEFINE a == [Append(p, <<>>) EXCEPT ![Len(Append(p, <<>>))] = <<c>>]
    <3>. DEFINE b == Append(p, <<c>>)
    <3>1. <<>> \in Seq(Letter)
      OBVIOUS
    <3>2. a \in Seq(Seq(Letter)) /\ Len(a) = Len(p) + 1 /\ a[Len(p) + 1] = <<c>>
          /\ \A i \in 1..Len(p) : a[i] = p[i]
      <4>. DEFINE e == Append(p, <<>>)
      <4>. DEFINE n == Len(p)
      <4>1. e \in Seq(Seq(Letter)) /\ Len(e) = n + 1 /\ n \in Nat /\ \A i \in 1..n : e[i] = p[i]
        BY <1>1, <1>2, <3>1
      <4>. HIDE DEF e, n
      <4>2. /\ [e EXCEPT ![n + 1] = <<c>>] \in Seq(Seq(Letter))
            /\ Len([e EXCEPT ![n + 1] = <<c>>]) = n + 1
            /\ [e EXCEPT ![n + 1] = <<c>>][n + 1] = <<c>>
            /\ \A i \in 1..n : [e EXCEPT ![n + 1] = <<c>>][i] = e[i]
        BY <1>2, <4>1
      <4>3. a = [e EXCEPT ![n + 1] = <<c>>]
        BY <4>1 DEF a, e
      <4>. HIDE DEF a
      <4>. QED
        BY <4>1, <4>2, <4>3 DEF n
    <3>3. b \in Seq(Seq(Letter)) /\ Len(b) = Len(p) + 1 /\ b[Len(p) + 1] = <<c>>
          /\ \A i \in 1..Len(p) : b[i] = p[i]
      BY <1>1, <1>2
    <3>. HIDE DEF a, b
    <3>4. \A i \in 1..Len(a) : a[i] = b[i]
      <4>. TAKE i \in 1..Len(a)
      <4>1. i \in 1..Len(p) \/ i = Len(p) + 1
        BY <1>2, <3>2
      <4>. QED
        BY <3>2, <3>3, <4>1
    <3>5. a = b
      BY <3>2, <3>3, <3>4, SeqEqual
    <3>. QED
      BY <3>5 DEF a, b
  <2>8. ScreenOk([m EXCEPT ![k + 1] = <<c>>], k, 1, Append(p, <<c>>))
    <3>1. Len(<<c>>) < TERM_MAX_COLS /\ 1 <= Len(<<c>>) /\ 1 \in Nat
      BY <1>2, ScreenSize
    <3>2. ScreenOk([m EXCEPT ![k + 1] = <<c>>], k, 1,
                   [Append(p, <<>>) EXCEPT ![Len(Append(p, <<>>))] = <<c>>])
      BY <1>2, <2>6, <3>1, WriteOk
    <3>. QED
      BY <2>7, <3>2
  <2>. QED
    BY <1>3, <2>5, <2>8 DEF s
<1>4. CASE ~(col + 1 >= TERM_MAX_COLS)
  <2>. DEFINE w == Append(SubSeq(lines[row + 1], 1, col), c)
  <2>1. row + 1 \in 1..TERM_MAX_ROWS /\ row + 1 \in 1..(row + 1) /\ Len(p) - (row + 1) + (row + 1) = Len(p)
        /\ Len(p) \in 1..Len(p)
    BY <1>1, <1>2, ScreenSize
  <2>2. lines[row + 1] \in Seq(Letter) /\ lines[row + 1] = p[Len(p)]
    BY <1>1, <2>1 DEF Rows
  <2>3. w \in Seq(Letter) /\ Len(w) = col + 1
    BY <1>1, <2>2, RowCut
  <2>4. Put(s, c) = [lines |-> [lines EXCEPT ![row + 1] = w], row |-> row, col |-> col + 1]
    <3>1. Put(s, c) = [s EXCEPT !.lines[s.row + 1] = Append(SubSeq(@, 1, s.col), c), !.col = @ + 1]
      BY <1>4, Zenon DEF Put, s
    <3>. HIDE DEF w
    <3>2. Put(s, c) = [lines |-> [lines EXCEPT ![row + 1] = Append(SubSeq(lines[row + 1], 1, col), c)],
                       row |-> row, col |-> col + 1]
      BY <3>1, PutRecord, Zenon DEF s
    <3>. QED
      BY <3>2, Zenon DEF w
  <2>5. [p EXCEPT ![Len(p)] = Append(SubSeq(@, 1, col), c)] = [p EXCEPT ![Len(p)] = w]
    BY <2>2
  <2>. HIDE DEF w
  <2>6. Len(w) < TERM_MAX_COLS /\ col + 1 <= Len(w) /\ col + 1 \in Nat
    BY <1>1, <1>4, <2>3, ScreenSize
  <2>7. ScreenOk([lines EXCEPT ![row + 1] = w], row, col + 1, [p EXCEPT ![Len(p)] = w])
    BY <2>3, <2>6, WriteOk
  <2>. QED
    BY <1>4, <2>4, <2>5, <2>7
<1>. QED
  BY <1>3, <1>4


\* A character printed keeps the invariant of the screen.
LEMMA PrintStep ==
  ASSUME ScreenInv, NEW c \in Letter \cup {"cr", "lf", "erase"}, Prints(c)
  PROVE  ScreenInv'
<1>. DEFINE L == g_term_lines
<1>. DEFINE row == g_term_cur.row
<1>. DEFINE col == g_term_cur.col
<1>. DEFINE s == [lines |-> L, row |-> row, col |-> col]
<1>. DEFINE t == CASE c = "cr" -> [s EXCEPT !.col = 0]
                   [] c = "lf" -> Fed(s)
                   [] c = "erase" -> IF s.col = 0 THEN s
                                     ELSE [s EXCEPT !.lines[s.row + 1] = SubSeq(@, 1, s.col - 1), !.col = @ - 1]
                   [] OTHER -> Put(s, c)
<1>1. g_term_lines' = t.lines /\ g_term_cur' = [row |-> t.row, col |-> t.col]
  BY Zenon DEF Prints, wm_term_putc
<1>2. ScreenOk(L, row, col, paper)
  BY DEF ScreenInv
<1>3. paper' = OnPaper(c)
  BY DEF Prints
<1>4. /\ L \in Rows /\ paper \in Seq(Seq(Letter)) /\ row \in Nat /\ row < TERM_MAX_ROWS /\ row < Len(paper)
      /\ col \in Nat /\ col <= Len(L[row + 1]) /\ Len(paper) \in Nat
      /\ \A r \in 1..(row + 1) : L[r] = paper[Len(paper) - (row + 1) + r]
  BY <1>2 DEF ScreenOk
<1>5. /\ row + 1 \in 1..TERM_MAX_ROWS /\ L[row + 1] \in Seq(Letter) /\ Len(paper) \in 1..Len(paper)
      /\ L[row + 1] = paper[Len(paper)] /\ Len(L[row + 1]) < TERM_MAX_COLS
  <2>1. row + 1 \in 1..TERM_MAX_ROWS /\ row + 1 \in 1..(row + 1) /\ Len(paper) \in 1..Len(paper)
        /\ Len(paper) - (row + 1) + (row + 1) = Len(paper)
    BY <1>4, ScreenSize
  <2>2. L[row + 1] \in Seq(Letter)
    BY <1>4, <2>1 DEF Rows
  <2>. QED
    BY <1>2, <1>4, <2>1, <2>2 DEF ScreenOk
<1>6. SUFFICES ScreenOk(t.lines, t.row, t.col, OnPaper(c))
  <2>. HIDE DEF t
  <2>. QED
    BY <1>1, <1>3 DEF ScreenInv
<1>7. CASE c = "cr"
  <2>1. t = [s EXCEPT !.col = 0] /\ OnPaper(c) = paper
    BY <1>7, Zenon DEF OnPaper
  <2>2. t.lines = L /\ t.row = row /\ t.col = 0
    <3>. HIDE DEF t
    <3>. QED
      BY <2>1
  <2>. HIDE DEF t
  <2>3. 0 <= Len(L[row + 1])
    BY <1>5
  <2>4. ScreenOk(L, row, 0, paper)
    BY <1>2, <2>3 DEF ScreenOk
  <2>. QED
    BY <2>1, <2>2, <2>4
<1>8. CASE c = "lf"
  <2>0. "lf" # "cr"
    OBVIOUS
  <2>1. t = Fed(s) /\ OnPaper(c) = Append(paper, <<>>)
    BY <1>8, <2>0, Zenon DEF OnPaper
  <2>. HIDE DEF t
  <2>2. t = [lines |-> t.lines, row |-> t.row, col |-> 0]
        /\ ScreenOk(t.lines, t.row, 0, Append(paper, <<>>))
    BY <1>2, <2>1, FedOk
  <2>3. t.col = 0
    BY <2>2
  <2>. QED
    BY <2>1, <2>2, <2>3
<1>9. CASE c = "erase"
  <2>0. "erase" # "cr" /\ "erase" # "lf"
    OBVIOUS
  <2>1. /\ t = IF col = 0 THEN s
               ELSE [s EXCEPT !.lines[s.row + 1] = SubSeq(@, 1, s.col - 1), !.col = @ - 1]
        /\ OnPaper(c) = IF col = 0 THEN paper
                        ELSE [paper EXCEPT ![Len(paper)] = SubSeq(@, 1, col - 1)]
    <3>1. s.col = col
      BY Zenon
    <3>. HIDE DEF s
    <3>. QED
      BY <1>9, <2>0, <3>1, Zenon DEF OnPaper
  <2>. HIDE DEF t
  <2>2. CASE col = 0
    <3>1. t = s /\ OnPaper(c) = paper
      BY <2>1, <2>2
    <3>. QED
      BY <1>2, <3>1
  <2>3. CASE col # 0
    <3>. DEFINE w == SubSeq(L[row + 1], 1, col - 1)
    <3>1. col - 1 \in Nat /\ col - 1 <= Len(L[row + 1])
      BY <1>4, <1>5, <2>3
    <3>2. w \in Seq(Letter) /\ Len(w) = col - 1
      BY <1>5, <3>1, RowCut
    <3>3. Len(w) < TERM_MAX_COLS /\ col - 1 <= Len(w)
      BY <1>5, <3>1, <3>2, ScreenSize
    <3>4. OnPaper(c) = [paper EXCEPT ![Len(paper)] = w]
      <4>1. OnPaper(c) = [paper EXCEPT ![Len(paper)] = SubSeq(paper[Len(paper)], 1, col - 1)]
        BY <2>1, <2>3
      <4>. QED
        BY <1>5, <4>1
    <3>5. t.lines = [L EXCEPT ![row + 1] = w] /\ t.row = row /\ t.col = col - 1
      <4>1. t = [s EXCEPT !.lines[s.row + 1] = SubSeq(@, 1, s.col - 1), !.col = @ - 1]
        BY <2>1, <2>3, Zenon
      <4>2. t = [lines |-> [L EXCEPT ![row + 1] = w], row |-> row, col |-> col - 1]
        BY <4>1, EraseRecord, Zenon
      <4>. HIDE DEF w
      <4>. QED
        BY <4>2
    <3>. HIDE DEF w
    <3>6. ScreenOk([L EXCEPT ![row + 1] = w], row, col - 1, [paper EXCEPT ![Len(paper)] = w])
      BY <1>2, <3>1, <3>2, <3>3, WriteOk
    <3>. QED
      BY <3>4, <3>5, <3>6
  <2>. QED
    BY <2>2, <2>3
<1>10. CASE c \notin {"cr", "lf", "erase"}
  <2>1. c \in Letter /\ c # "cr" /\ c # "lf" /\ c # "erase"
    BY <1>10
  <2>2. t = Put(s, c)
        /\ OnPaper(c) = IF col + 1 >= TERM_MAX_COLS THEN Append(paper, <<c>>)
                        ELSE [paper EXCEPT ![Len(paper)] = Append(SubSeq(@, 1, col), c)]
    BY <2>1, Zenon DEF OnPaper
  <2>. HIDE DEF t
  <2>3. LET u == Put(s, c)
            q == IF col + 1 >= TERM_MAX_COLS THEN Append(paper, <<c>>)
                 ELSE [paper EXCEPT ![Len(paper)] = Append(SubSeq(@, 1, col), c)]
        IN  ScreenOk(u.lines, u.row, u.col, q)
    BY <1>2, <2>1, PutOk, Zenon
  <2>. HIDE DEF s
  <2>. QED
    BY <2>2, <2>3, Zenon
<1>. QED
  BY <1>7, <1>8, <1>9, <1>10

\* The screen is the end of what was printed.
LEMMA ScreenAgrees == ASSUME ScreenInv PROVE ScreenIsTail
<1>. DEFINE L == g_term_lines
<1>. DEFINE row == g_term_cur.row
<1>. DEFINE col == g_term_cur.col
<1>. DEFINE q == Len(paper)
<1>1. /\ L \in Rows /\ paper \in Seq(Seq(Letter)) /\ row \in Nat /\ row < TERM_MAX_ROWS /\ row < q
      /\ col \in Nat /\ col <= Len(L[row + 1]) /\ q \in Nat
      /\ (\A r \in 1..TERM_MAX_ROWS : Len(L[r]) < TERM_MAX_COLS /\ (r > row + 1 => L[r] = <<>>))
      /\ \A r \in 1..(row + 1) : L[r] = paper[q - (row + 1) + r]
  BY DEF ScreenInv, ScreenOk
<1>. HIDE DEF L, row, col, q
<1>2. row + 1 \in 1..TERM_MAX_ROWS /\ row + 1 \in Nat /\ q - (row + 1) + 1 \in Nat /\ q - (row + 1) + 1 > 0
      /\ q - (q - (row + 1) + 1) + 1 = row + 1
      /\ \A r \in 1..(row + 1) : (q - (row + 1) + 1) + r - 1 = q - (row + 1) + r
  <2>1. row \in Nat /\ q \in Nat /\ row < q /\ row < TERM_MAX_ROWS
    BY <1>1, Zenon
  <2>2. row + 1 \in 1..TERM_MAX_ROWS /\ row + 1 \in Nat
    BY <2>1, ScreenSize
  <2>3. q - (row + 1) + 1 \in Nat /\ q - (row + 1) + 1 > 0
        /\ q - (q - (row + 1) + 1) + 1 = row + 1
    BY <2>1
  <2>4. \A r \in 1..(row + 1) : (q - (row + 1) + 1) + r - 1 = q - (row + 1) + r
    BY <2>1
  <2>. QED
    BY <2>2, <2>3, <2>4
<1>3. col < TERM_MAX_COLS
  <2>1. L[row + 1] \in Seq(Letter)
    BY <1>1, <1>2 DEF Rows
  <2>2. Len(L[row + 1]) \in Nat /\ Len(L[row + 1]) < TERM_MAX_COLS
    BY <1>1, <1>2, <2>1
  <2>. QED
    BY <1>1, <2>2, ScreenSize
<1>4. SubSeq(L, 1, row + 1) = SubSeq(paper, q - (row + 1) + 1, q)
  <2>. DEFINE n == row + 1
  <2>. DEFINE b == q - (row + 1) + 1
  <2>1. n \in Nat /\ n <= TERM_MAX_ROWS /\ b \in Nat /\ b > 0 /\ q - b + 1 = n
        /\ \A r \in 1..n : b + r - 1 = q - (row + 1) + r
    BY <1>1, <1>2, ScreenSize
  <2>2. L \in Seq(Seq(Letter)) /\ Len(L) = TERM_MAX_ROWS
    BY <1>1, ScreenSize DEF Rows
  <2>3. \A r \in 1..n : L[r] = paper[q - (row + 1) + r]
    BY <1>1
  <2>. HIDE DEF n, b
  <2>. DEFINE x == SubSeq(L, 1, n)
  <2>. DEFINE y == SubSeq(paper, b, q)
  <2>4. x \in Seq(Seq(Letter)) /\ Len(x) = n /\ \A r \in 1..n : x[r] = L[r]
    BY <2>1, <2>2
  <2>5. y \in Seq(Seq(Letter)) /\ Len(y) = q - b + 1 /\ \A r \in 1..(q - b + 1) : y[r] = paper[b + r - 1]
    <3>1. q <= Len(paper)
      BY DEF q
    <3>. QED
      BY <1>1, <2>1, <3>1
  <2>. HIDE DEF x, y
  <2>6. Len(x) = Len(y) /\ \A r \in 1..Len(x) : x[r] = y[r]
    <3>1. Len(x) = n /\ Len(y) = n
      BY <2>1, <2>4, <2>5
    <3>2. \A r \in 1..n : x[r] = L[r] /\ y[r] = paper[b + r - 1]
      BY <2>1, <2>4, <2>5
    <3>. QED
      BY <2>1, <2>3, <3>1, <3>2
  <2>7. x = y
    BY <2>4, <2>5, <2>6, SeqEqual
  <2>. QED
    BY <2>7 DEF x, y, n, b
<1>5. \A r \in 1..TERM_MAX_ROWS : Len(L[r]) < TERM_MAX_COLS /\ (r > row + 1 => L[r] = <<>>)
  BY <1>1
<1>6. row < TERM_MAX_ROWS
  BY <1>1
<1>. QED
  BY <1>3, <1>4, <1>5, <1>6, Zenon DEF ScreenIsTail, L, row, col, q

\* Every step keeps it.
LEMMA ScreenStep == ScreenInv /\ [ScreenNext]_screenVars => ScreenInv'
<1>1. ASSUME ScreenInv, UNCHANGED screenVars PROVE ScreenInv'
  BY <1>1 DEF screenVars, ScreenInv
<1>. QED
  BY <1>1, PrintStep DEF ScreenNext

-----------------------------------------------------------------------------
\* Whatever keys are sent to either editor, and whatever commands run inside
\* others, the line, the console, the history, the hook, the words of a line and
\* the terminal's screen agree with what was typed and printed (shell_feed_char,
\* shell_dispatch, tokenize, wm_update, wm_term_putc).
THEOREM EditorsStayTogether == ShellSpec /\ ScreenSpec => []EditorsAgree
<1>1. ShellInv /\ ScreenInv => EditorsAgree
  BY ShellAgrees, ScreenAgrees, Zenon DEF EditorsAgree
<1>. QED
  BY <1>1, ShellStart, ShellStep, ScreenStart, ScreenStep, PTL DEF ShellSpec, ScreenSpec

-----------------------------------------------------------------------------
(* Bytes and what they do to the drivers' state as a value.                *)

WireByte == [aux : BOOLEAN, byte : Int, answer : BOOLEAN]
KeyChar == {"none", "c", "C", "1", "!", "^C", "^L"}
Mods == [shift : BOOLEAN, ctrl : BOOLEAN, alt : BOOLEAN, caps : BOOLEAN, e0 : BOOLEAN]

\* process_mouse_byte on the mouse's state as a value.
MouseAfter(b, u) ==
  CASE u.cycle = 0 ->
         [packet |-> IF Bit(b, 8) THEN <<b, 0>> ELSE u.packet,
          cycle |-> IF Bit(b, 8) THEN 1 ELSE 0, pointer |-> u.pointer]
    [] u.cycle = 1 ->
         [packet |-> [u.packet EXCEPT ![2] = b], cycle |-> 2, pointer |-> u.pointer]
    [] u.cycle = 2 ->
         [packet |-> <<0, 0>>, cycle |-> 0,
          pointer |-> [x |-> Clamp(u.pointer.x + Delta(u.packet[1], u.packet[2])),
                       left_button |-> Bit(u.packet[1], 1)]]

\* A byte without a character: the mouse's, an answer, a key let go, ...
Silent(e, s) ==
  e.aux \/ e.answer \/ e.byte >= 128 \/ s.mods.e0 \/ Ascii(e.byte, s.mods) = "none"

\* What a handler makes of byte e if it is a device's and the ring has room.
Taken(e, s) ==
  [mods |-> IF e.aux \/ e.answer THEN s.mods ELSE ModsAfter(e.byte, s.mods),
   text |-> IF Silent(e, s) THEN s.text ELSE Append(s.text, Ascii(e.byte, s.mods)),
   mouse |-> IF ~e.aux \/ e.answer THEN s.mouse ELSE MouseAfter(e.byte, s.mouse)]

Sane(s) == s.mods \in Mods /\ s.text \in Seq(KeyChar) /\ s.mouse.cycle \in 0..2

\* The handlers lead from s to z with the bytes p: c holds the states between.
Passes(p, s, z, c) ==
  /\ c[1] = s /\ c[Len(p) + 1] = z
  /\ \A i \in 1..(Len(p) + 1) : Sane(c[i])
  /\ \A i \in 1..Len(p) : c[i + 1] = Taken(p[i], c[i])
Reaches(p, s, z) == \E c : Passes(p, s, z, c)

\* Modifiers stay modifiers whatever truth values they are given.
LEMMA ModsGiven ==
  ASSUME NEW m \in Mods, NEW s \in BOOLEAN, NEW c \in BOOLEAN,
         NEW t \in BOOLEAN, NEW p \in BOOLEAN
  PROVE  /\ [m EXCEPT !.shift = s, !.ctrl = c, !.alt = t] \in Mods
         /\ [m EXCEPT !.shift = s, !.ctrl = c, !.alt = t, !.caps = p] \in Mods
BY Zenon DEF Mods

\* A byte leads from modifiers to modifiers.
LEMMA ModsStay ==
  ASSUME NEW b \in Int, NEW m \in Mods
  PROVE  ModsAfter(b, m) \in Mods /\ Ascii(b, m) \in KeyChar
<1>. DEFINE up == [m EXCEPT !.shift = @ /\ b \notin {42 + 128, 54 + 128},
                            !.ctrl = @ /\ b # 29 + 128, !.alt = @ /\ b # 56 + 128]
            dn == [m EXCEPT !.shift = @ \/ b \in {42, 54}, !.ctrl = @ \/ b = 29,
                            !.alt = @ \/ b = 56, !.caps = @ # (b = 58)]
<1>a. [m EXCEPT !.e0 = TRUE] \in Mods /\ [m EXCEPT !.e0 = FALSE] \in Mods
  BY Zenon DEF Mods
<1>. DEFINE ups == m.shift /\ b \notin {42 + 128, 54 + 128}
            upc == m.ctrl /\ b # 29 + 128
            upa == m.alt /\ b # 56 + 128
            dns == m.shift \/ b \in {42, 54}
            dnc == m.ctrl \/ b = 29
            dna == m.alt \/ b = 56
            dnl == m.caps # (b = 58)
<1>b. up \in Mods
  <2>1. ups \in BOOLEAN /\ upc \in BOOLEAN /\ upa \in BOOLEAN /\ TRUE \in BOOLEAN
    OBVIOUS
  <2>2. up = [m EXCEPT !.shift = ups, !.ctrl = upc, !.alt = upa]
    OBVIOUS
  <2>. HIDE DEF up, ups, upc, upa
  <2>. QED
    BY <2>1, <2>2, ModsGiven, Zenon
<1>c. dn \in Mods
  <2>1. dns \in BOOLEAN /\ dnc \in BOOLEAN /\ dna \in BOOLEAN /\ dnl \in BOOLEAN
    OBVIOUS
  <2>2. dn = [m EXCEPT !.shift = dns, !.ctrl = dnc, !.alt = dna, !.caps = dnl]
    OBVIOUS
  <2>. HIDE DEF dn, dns, dnc, dna, dnl
  <2>. QED
    BY <2>1, <2>2, ModsGiven, Zenon
<1>d. \/ ModsAfter(b, m) = [m EXCEPT !.e0 = TRUE] \/ ModsAfter(b, m) = [m EXCEPT !.e0 = FALSE]
      \/ ModsAfter(b, m) = up \/ ModsAfter(b, m) = dn
  BY Zenon DEF ModsAfter
<1>1. ModsAfter(b, m) \in Mods
  BY <1>a, <1>b, <1>c, <1>d
<1>2. Ascii(b, m) \in KeyChar
  BY DEF Ascii, KeyChar
<1>. QED
  BY <1>1, <1>2

\* A byte leads from a state of the drivers to one.
LEMMA TakenSane ==
  ASSUME NEW e \in WireByte, NEW s, Sane(s)
  PROVE  Sane(Taken(e, s))
<1>0. e.byte \in Int /\ s.mods \in Mods /\ s.text \in Seq(KeyChar) /\ s.mouse.cycle \in 0..2
  BY DEF WireByte, Sane
<1>1. Taken(e, s).mods \in Mods
  BY <1>0, ModsStay DEF Taken
<1>2. Taken(e, s).text \in Seq(KeyChar)
  <2>1. Ascii(e.byte, s.mods) \in KeyChar
    BY <1>0, ModsStay
  <2>2. Append(s.text, Ascii(e.byte, s.mods)) \in Seq(KeyChar)
    BY <1>0, <2>1
  <2>. QED
    BY <1>0, <2>2 DEF Taken
<1>3. Taken(e, s).mouse.cycle \in 0..2
  <2>1. MouseAfter(e.byte, s.mouse).cycle \in 0..2
    <3>1. s.mouse.cycle = 0 \/ s.mouse.cycle = 1 \/ s.mouse.cycle = 2
      BY <1>0
    <3>. QED
      BY <3>1 DEF MouseAfter
  <2>. QED
    BY <1>0, <2>1 DEF Taken
<1>. QED
  BY <1>1, <1>2, <1>3 DEF Sane

\* No bytes lead nowhere else.
LEMMA ReachesNothing ==
  ASSUME NEW s, Sane(s)
  PROVE  Reaches(<<>>, s, s)
<1>. DEFINE c == [i \in {1} |-> s]
<1>1. Passes(<<>>, s, s, c)
  BY DEF Passes
<1>. QED
  BY <1>1 DEF Reaches

\* A byte more leads one further.
LEMMA ReachesAppend ==
  ASSUME NEW p \in Seq(WireByte), NEW e \in WireByte, NEW s, NEW z, Reaches(p, s, z)
  PROVE  Sane(z) /\ Reaches(Append(p, e), s, Taken(e, z))
<1>. DEFINE n == Len(p)
            q == Append(p, e)
<1>1. PICK c : Passes(p, s, z, c)
  BY DEF Reaches
<1>2. /\ n \in Nat /\ Len(q) = n + 1 /\ q[n + 1] = e
      /\ \A i \in 1..n : q[i] = p[i]
  OBVIOUS
<1>. DEFINE d == [i \in 1..(n + 2) |-> IF i <= n + 1 THEN c[i] ELSE Taken(e, z)]
<1>. HIDE DEF n, q
<1>3. /\ c[1] = s /\ c[n + 1] = z
      /\ \A i \in 1..(n + 1) : Sane(c[i])
      /\ \A i \in 1..n : c[i + 1] = Taken(p[i], c[i])
  BY <1>1, Zenon DEF Passes, n
<1>4. Sane(z) /\ Sane(Taken(e, z))
  BY <1>2, <1>3, TakenSane
<1>5. /\ d[1] = s /\ d[n + 2] = Taken(e, z) /\ d[n + 1] = z
      /\ \A i \in 1..(n + 1) : d[i] = c[i]
  BY <1>2, <1>3
<1>6. \A i \in 1..(n + 2) : Sane(d[i])
  BY <1>2, <1>3, <1>4
<1>7. ASSUME NEW i \in 1..(n + 1) PROVE d[i + 1] = Taken(q[i], d[i])
  <2>1. CASE i = n + 1
    <3>1. d[i + 1] = Taken(e, z) /\ q[i] = e /\ d[i] = z
      BY <2>1, <1>2, <1>5
    <3>. QED
      BY <3>1
  <2>2. CASE i # n + 1
    <3>1. i \in 1..n /\ i + 1 \in 1..(n + 1) /\ i \in 1..(n + 1)
      BY <2>2, <1>2
    <3>2. d[i + 1] = c[i + 1] /\ d[i] = c[i] /\ q[i] = p[i] /\ c[i + 1] = Taken(p[i], c[i])
      BY <3>1, <1>2, <1>3, <1>5
    <3>. QED
      BY <3>2
  <2>. QED
    BY <2>1, <2>2
<1>8. (n + 1) + 1 = n + 2
  BY <1>2
<1>9. Passes(q, s, Taken(e, z), d)
  <2>. HIDE DEF d
  <2>. QED
    BY <1>2, <1>5, <1>6, <1>7, <1>8 DEF Passes
<1>10. Reaches(q, s, Taken(e, z))
  BY <1>9 DEF Reaches
<1>. QED
  BY <1>4, <1>10 DEF q

\* What is left when one is taken leads to the same state.
LEMMA ReachesTail ==
  ASSUME NEW p \in Seq(WireByte), p # <<>>, NEW s, NEW z, Reaches(p, s, z)
  PROVE  Sane(s) /\ Reaches(Tail(p), Taken(Head(p), s), z)
<1>. DEFINE n == Len(p)
            q == Tail(p)
<1>1. PICK c : Passes(p, s, z, c)
  BY DEF Reaches
<1>2. /\ n \in Nat /\ n >= 1 /\ Len(q) = n - 1 /\ Head(p) = p[1]
      /\ \A i \in 1..(n - 1) : q[i] = p[i + 1]
  OBVIOUS
<1>. DEFINE d == [i \in 1..n |-> c[i + 1]]
<1>. HIDE DEF n, q
<1>3. /\ c[1] = s /\ c[n + 1] = z
      /\ \A i \in 1..(n + 1) : Sane(c[i])
      /\ \A i \in 1..n : c[i + 1] = Taken(p[i], c[i])
  BY <1>1, Zenon DEF Passes, n
<1>4. \A i \in 1..n : d[i] = c[i + 1] /\ Sane(d[i])
  BY <1>2, <1>3
<1>5. d[1] = Taken(Head(p), s) /\ d[n] = z /\ Sane(s)
  BY <1>2, <1>3, <1>4
<1>6. ASSUME NEW i \in 1..(n - 1) PROVE d[i + 1] = Taken(q[i], d[i])
  <2>1. i \in 1..n /\ i + 1 \in 1..n
    BY <1>2
  <2>2. d[i + 1] = c[(i + 1) + 1] /\ d[i] = c[i + 1] /\ q[i] = p[i + 1]
    BY <2>1, <1>2, <1>4
  <2>3. c[(i + 1) + 1] = Taken(p[i + 1], c[i + 1])
    BY <2>1, <1>3
  <2>. QED
    BY <2>2, <2>3
<1>7. (n - 1) + 1 = n
  BY <1>2
<1>8. Passes(q, Taken(Head(p), s), z, d)
  <2>. HIDE DEF d
  <2>. QED
    BY <1>2, <1>4, <1>5, <1>6, <1>7 DEF Passes
<1>9. Reaches(q, Taken(Head(p), s), z)
  BY <1>8 DEF Reaches
<1>. QED
  BY <1>5, <1>9 DEF q


-----------------------------------------------------------------------------
(* The keyboard's ring.                                                    *)

Size == KEYBOARD_BUFFER_SIZE
RingPlaces == 0..(Size - 1)
HeldOf(buffer, head, tail) ==
  [i \in 1..((head - tail) % Size) |-> buffer[(tail + i - 1) % Size]]

\* The ring has two places at least.
LEMMA SizeIs ==
  Size \in Nat \ {0, 1} /\ Size >= 2
  BY InputAssumption DEF Size

\* What % does to the places that occur.
LEMMA RingMod ==
  ASSUME NEW size \in Nat \ {0}, NEW i \in 0..(size - 1), NEW j \in 0..(size - 1)
  PROVE  /\ (i + j) % size = IF i + j < size THEN i + j ELSE i + j - size
         /\ (i - j) % size = IF i >= j THEN i - j ELSE i - j + size
<1>1. (i + j) % size = IF i + j < size THEN i + j ELSE i + j - size
  <2>1. CASE i + j < size
    BY <2>1
  <2>2. CASE i + j >= size
    BY <2>2
  <2>. QED
    BY <2>1, <2>2
<1>2. (i - j) % size = IF i >= j THEN i - j ELSE i - j + size
  <2>1. CASE i >= j
    BY <2>1
  <2>2. CASE i < j
    BY <2>2
  <2>. QED
    BY <2>1, <2>2
<1>. QED
  BY <1>1, <1>2

\* What the ring holds are the places between tail and head.
LEMMA HeldSound ==
  ASSUME NEW buffer \in [RingPlaces -> KeyChar], NEW head \in RingPlaces, NEW tail \in RingPlaces
  PROVE  /\ HeldOf(buffer, head, tail) \in Seq(KeyChar)
         /\ Len(HeldOf(buffer, head, tail)) = (head - tail) % Size
         /\ (head - tail) % Size = IF head >= tail THEN head - tail ELSE head - tail + Size
         /\ \A i \in 1..Size : /\ (tail + i - 1) % Size \in RingPlaces
                               /\ (tail + i - 1) % Size =
                                    IF tail + i - 1 < Size THEN tail + i - 1 ELSE tail + i - 1 - Size
<1>. DEFINE n == (head - tail) % Size
<1>1. /\ n = IF head >= tail THEN head - tail ELSE head - tail + Size
      /\ n \in Nat /\ n < Size
  BY SizeIs, RingMod DEF RingPlaces
<1>2. ASSUME NEW i \in 1..Size
      PROVE  /\ (tail + i - 1) % Size \in RingPlaces
             /\ (tail + i - 1) % Size =
                  IF tail + i - 1 < Size THEN tail + i - 1 ELSE tail + i - 1 - Size
  <2>1. i - 1 \in 0..(Size - 1) /\ Size \in Nat \ {0} /\ tail \in 0..(Size - 1)
    BY SizeIs DEF RingPlaces
  <2>2. (tail + (i - 1)) % Size =
           IF tail + (i - 1) < Size THEN tail + (i - 1) ELSE tail + (i - 1) - Size
    BY <2>1, RingMod
  <2>3. tail + i - 1 = tail + (i - 1)
    BY <2>1
  <2>. QED
    BY <2>1, <2>2, <2>3 DEF RingPlaces
<1>. HIDE DEF n
<1>3. HeldOf(buffer, head, tail) = [i \in 1..n |-> buffer[(tail + i - 1) % Size]]
  BY DEF HeldOf, n
<1>4. \A i \in 1..n : buffer[(tail + i - 1) % Size] \in KeyChar
  BY <1>1, <1>2, SizeIs
<1>5. HeldOf(buffer, head, tail) \in Seq(KeyChar) /\ Len(HeldOf(buffer, head, tail)) = n
  BY <1>1, <1>3, <1>4
<1>. QED
  BY <1>1, <1>2, <1>5 DEF n

WithChar(buffer, at, ch) == [buffer EXCEPT ![at] = ch]

\* A character that is put in comes after those the ring holds.
LEMMA HeldPut ==
  ASSUME NEW buffer \in [RingPlaces -> KeyChar], NEW head \in RingPlaces, NEW tail \in RingPlaces, NEW ch \in KeyChar,
         (head + 1) % Size # tail
  PROVE  /\ (head + 1) % Size \in RingPlaces
         /\ WithChar(buffer, head, ch) \in [RingPlaces -> KeyChar]
         /\ HeldOf(WithChar(buffer, head, ch), (head + 1) % Size, tail) =
              Append(HeldOf(buffer, head, tail), ch)
<1>. DEFINE next == (head + 1) % Size
            n == (head - tail) % Size
            m == (next - tail) % Size
            B == WithChar(buffer, head, ch)
            x == HeldOf(buffer, head, tail)
            y == HeldOf(B, next, tail)
<1>1. next = IF head + 1 < Size THEN head + 1 ELSE head + 1 - Size
  <2>1. Size \in Nat \ {0} /\ head \in 0..(Size - 1) /\ 1 \in 0..(Size - 1)
    BY SizeIs DEF RingPlaces
  <2>. QED
    BY <2>1, RingMod
<1>2. next \in RingPlaces /\ next # tail /\ B \in [RingPlaces -> KeyChar]
  BY <1>1, SizeIs DEF RingPlaces, WithChar
<1>. HIDE DEF next, B
<1>3. /\ x \in Seq(KeyChar) /\ Len(x) = n
      /\ n = IF head >= tail THEN head - tail ELSE head - tail + Size
      /\ \A i \in 1..Size : /\ (tail + i - 1) % Size \in RingPlaces
                            /\ (tail + i - 1) % Size =
                                 IF tail + i - 1 < Size THEN tail + i - 1 ELSE tail + i - 1 - Size
  BY HeldSound
<1>4. /\ y \in Seq(KeyChar) /\ Len(y) = m
      /\ m = IF next >= tail THEN next - tail ELSE next - tail + Size
  BY <1>2, HeldSound
<1>. HIDE DEF n, m
<1>5. m = n + 1 /\ n \in Nat /\ m <= Size
  BY <1>1, <1>2, <1>3, <1>4, SizeIs DEF RingPlaces
<1>6. ASSUME NEW i \in 1..m
      PROVE  y[i] = Append(x, ch)[i]
  <2>1. /\ y[i] = B[(tail + i - 1) % Size] /\ i \in 1..Size
        /\ (tail + i - 1) % Size \in RingPlaces
        /\ (tail + i - 1) % Size =
             IF tail + i - 1 < Size THEN tail + i - 1 ELSE tail + i - 1 - Size
    <3>1. i \in 1..Size
      BY <1>5, SizeIs
    <3>2. y[i] = B[(tail + i - 1) % Size]
      BY DEF HeldOf, m
    <3>. QED
      BY <3>1, <3>2, <1>3, Zenon
  <2>2. CASE i = m
    <3>1. (tail + i - 1) % Size = head
      BY <2>1, <2>2, <1>3, <1>5, SizeIs DEF RingPlaces
    <3>2. y[i] = ch
      BY <2>1, <3>1 DEF B, WithChar
    <3>3. Append(x, ch)[i] = ch
      BY <2>2, <1>3, <1>5
    <3>. QED
      BY <3>2, <3>3
  <2>3. CASE i # m
    <3>1. i \in 1..n
      BY <2>3, <1>5
    <3>2. (tail + i - 1) % Size # head
      <4>. DEFINE at == (tail + i - 1) % Size
      <4>1. at = IF tail + i - 1 < Size THEN tail + i - 1 ELSE tail + i - 1 - Size
        BY <2>1, Zenon
      <4>. HIDE DEF at
      <4>2. n = IF head >= tail THEN head - tail ELSE head - tail + Size
        BY <1>3
      <4>3. i >= 1 /\ i <= n /\ i \in Int
        BY <3>1, <1>5
      <4>4. at # head
        BY <4>1, <4>2, <4>3, <1>5, SizeIs DEF RingPlaces
      <4>. QED
        BY <4>4 DEF at
    <3>3. y[i] = buffer[(tail + i - 1) % Size]
      BY <2>1, <3>2 DEF B, WithChar
    <3>4. Append(x, ch)[i] = x[i] /\ x[i] = buffer[(tail + i - 1) % Size]
      <4>1. x[i] = buffer[(tail + i - 1) % Size]
        BY <3>1 DEF HeldOf, n
      <4>. HIDE DEF x
      <4>2. Append(x, ch)[i] = x[i]
        BY <3>1, <1>3
      <4>. QED
        BY <4>1, <4>2
    <3>. QED
      BY <3>3, <3>4
  <2>. QED
    BY <2>2, <2>3
<1>7. y = Append(x, ch)
  <2>. HIDE DEF x, y
  <2>1. Append(x, ch) \in Seq(KeyChar) /\ Len(Append(x, ch)) = m
    BY <1>3, <1>5
  <2>. QED
    BY <2>1, <1>4, <1>6, SeqEqual
<1>. QED
  BY <1>2, <1>7 DEF next, B

\* The character that is taken is the first of those the ring holds.
LEMMA HeldTaken ==
  ASSUME NEW buffer \in [RingPlaces -> KeyChar], NEW head \in RingPlaces, NEW tail \in RingPlaces, head # tail
  PROVE  /\ (tail + 1) % Size \in RingPlaces /\ buffer[tail] \in KeyChar
         /\ HeldOf(buffer, head, tail) =
              <<buffer[tail]>> \o HeldOf(buffer, head, (tail + 1) % Size)
<1>. DEFINE next == (tail + 1) % Size
            n == (head - tail) % Size
            m == (head - next) % Size
            x == HeldOf(buffer, head, tail)
            y == HeldOf(buffer, head, next)
            one == <<buffer[tail]>>
<1>1. next = IF tail + 1 < Size THEN tail + 1 ELSE tail + 1 - Size
  <2>1. Size \in Nat \ {0} /\ tail \in 0..(Size - 1) /\ 1 \in 0..(Size - 1)
    BY SizeIs DEF RingPlaces
  <2>. QED
    BY <2>1, RingMod
<1>2. next \in RingPlaces /\ one \in Seq(KeyChar) /\ Len(one) = 1 /\ one[1] = buffer[tail]
  BY <1>1, SizeIs DEF RingPlaces
<1>. HIDE DEF next, one
<1>3. /\ x \in Seq(KeyChar) /\ Len(x) = n
      /\ n = IF head >= tail THEN head - tail ELSE head - tail + Size
      /\ \A i \in 1..Size : /\ (tail + i - 1) % Size \in RingPlaces
                            /\ (tail + i - 1) % Size =
                                 IF tail + i - 1 < Size THEN tail + i - 1 ELSE tail + i - 1 - Size
  BY HeldSound
<1>4. /\ y \in Seq(KeyChar) /\ Len(y) = m
      /\ m = IF head >= next THEN head - next ELSE head - next + Size
      /\ \A i \in 1..Size : (next + i - 1) % Size =
                              IF next + i - 1 < Size THEN next + i - 1 ELSE next + i - 1 - Size
  BY <1>2, HeldSound
<1>. HIDE DEF n, m
<1>5. n = m + 1 /\ m \in Nat /\ n <= Size
  BY <1>1, <1>2, <1>3, <1>4, SizeIs DEF RingPlaces
<1>6. ASSUME NEW i \in 1..n
      PROVE  x[i] = IF i <= 1 THEN one[i] ELSE y[i - 1]
  <2>1. /\ x[i] = buffer[(tail + i - 1) % Size] /\ i \in 1..Size
        /\ (tail + i - 1) % Size =
             IF tail + i - 1 < Size THEN tail + i - 1 ELSE tail + i - 1 - Size
    BY <1>3, <1>5, SizeIs DEF HeldOf, n
  <2>2. CASE i = 1
    <3>1. (tail + i - 1) % Size = tail
      BY <2>1, <2>2, SizeIs DEF RingPlaces
    <3>. QED
      BY <2>1, <2>2, <3>1, <1>2
  <2>3. CASE i # 1
    <3>1. i - 1 \in 1..m /\ i - 1 \in 1..Size
      BY <2>3, <1>5, SizeIs
    <3>2. y[i - 1] = buffer[(next + (i - 1) - 1) % Size]
      BY <3>1 DEF HeldOf, m
    <3>3. (next + (i - 1) - 1) % Size =
            IF next + (i - 1) - 1 < Size THEN next + (i - 1) - 1 ELSE next + (i - 1) - 1 - Size
      BY <3>1, <1>4
    <3>4. (next + (i - 1) - 1) % Size = (tail + i - 1) % Size
      BY <2>1, <2>3, <3>3, <1>1, <1>5, SizeIs DEF RingPlaces
    <3>. QED
      BY <2>1, <2>3, <3>2, <3>4
  <2>. QED
    BY <2>2, <2>3
<1>7. x = one \o y
  <2>. DEFINE z == one \o y
  <2>. HIDE DEF x, y
  <2>1. /\ z \in Seq(KeyChar) /\ Len(z) = Len(one) + Len(y)
        /\ \A i \in 1..(Len(one) + Len(y)) :
              z[i] = IF i <= Len(one) THEN one[i] ELSE y[i - Len(one)]
    <3>1. one \in Seq(KeyChar) /\ y \in Seq(KeyChar)
      BY <1>2, <1>4
    <3>. QED
      BY <3>1, ConcatProperties, Zenon
  <2>. HIDE DEF z
  <2>2. Len(z) = Len(x) /\ \A i \in 1..Len(x) : x[i] = z[i]
    BY <2>1, <1>2, <1>3, <1>4, <1>5, <1>6
  <2>3. x = z
    BY <2>1, <2>2, <1>3, SeqEqual
  <2>. QED
    BY <2>3 DEF z
<1>. QED
  BY <1>2, <1>7 DEF next, one


-----------------------------------------------------------------------------
(* The answers to mouse_init among the bytes.                              *)

\* Byte a is an answer and no other; a = 0 when there is none.
Answered(p, a) == a \in 0..Len(p) /\ \A i \in 1..Len(p) : p[i].answer <=> i = a

\* A byte more leaves the answer where it is, or is the answer.
LEMMA AnsweredAppend ==
  ASSUME NEW p \in Seq(WireByte), NEW e \in WireByte, NEW a, Answered(p, a)
  PROVE  /\ ~e.answer => Answered(Append(p, e), a)
         /\ e.answer /\ a = 0 => Answered(Append(p, e), Len(p) + 1)
<1>. DEFINE n == Len(p)
            q == Append(p, e)
<1>1. n \in Nat /\ Len(q) = n + 1 /\ q[n + 1] = e /\ \A i \in 1..n : q[i] = p[i]
  OBVIOUS
<1>2. e.answer \in BOOLEAN
  BY DEF WireByte
<1>3. a \in 0..n /\ \A i \in 1..n : p[i].answer <=> i = a
  BY DEF Answered, n
<1>. HIDE DEF n, q
<1>4. ASSUME ~e.answer PROVE Answered(q, a)
  <2>1. ASSUME NEW i \in 1..(n + 1) PROVE q[i].answer <=> i = a
    <3>1. CASE i = n + 1
      BY <3>1, <1>1, <1>3, <1>4
    <3>2. CASE i # n + 1
      <4>1. i \in 1..n
        BY <3>2, <1>1
      <4>. QED
        BY <4>1, <1>1, <1>3
    <3>. QED
      BY <3>1, <3>2
  <2>. QED
    BY <2>1, <1>1, <1>3 DEF Answered
<1>5. ASSUME e.answer, a = 0 PROVE Answered(q, n + 1)
  <2>1. ASSUME NEW i \in 1..(n + 1) PROVE q[i].answer <=> i = n + 1
    <3>1. CASE i = n + 1
      BY <3>1, <1>1, <1>5
    <3>2. CASE i # n + 1
      <4>1. i \in 1..n /\ i # 0
        BY <3>2, <1>1
      <4>. QED
        BY <3>2, <4>1, <1>1, <1>3, <1>5
    <3>. QED
      BY <3>1, <3>2
  <2>. QED
    BY <2>1, <1>1 DEF Answered
<1>. QED
  BY <1>4, <1>5 DEF n, q

\* A byte taken brings the answer nearer, or is it.
LEMMA AnsweredTail ==
  ASSUME NEW p \in Seq(WireByte), p # <<>>, NEW a, Answered(p, a)
  PROVE  /\ Head(p).answer <=> a = 1
         /\ a <= 1 => Answered(Tail(p), 0)
         /\ a > 1 => Answered(Tail(p), a - 1)
<1>. DEFINE n == Len(p)
            q == Tail(p)
<1>1. /\ n \in Nat /\ n >= 1 /\ Len(q) = n - 1 /\ Head(p) = p[1]
      /\ \A i \in 1..(n - 1) : q[i] = p[i + 1]
  OBVIOUS
<1>2. a \in 0..n /\ \A i \in 1..n : p[i].answer <=> i = a
  BY DEF Answered, n
<1>. HIDE DEF n, q
<1>3. Head(p).answer <=> a = 1
  BY <1>1, <1>2
<1>4. \A i \in 1..(n - 1) : q[i].answer <=> i + 1 = a
  <2>. TAKE i \in 1..(n - 1)
  <2>1. i + 1 \in 1..n /\ q[i] = p[i + 1]
    BY <1>1
  <2>. QED
    BY <2>1, <1>2
<1>5. a <= 1 => Answered(q, 0)
  BY <1>1, <1>2, <1>4 DEF Answered
<1>6. a > 1 => Answered(q, a - 1)
  BY <1>1, <1>2, <1>4 DEF Answered
<1>. QED
  BY <1>3, <1>5, <1>6 DEF q

\* Bytes that are sent together come one after the other.
LEMMA OneByOne ==
  ASSUME NEW p \in Seq(WireByte), NEW x \in WireByte, NEW y \in WireByte, NEW z \in WireByte
  PROVE  /\ p \o <<x>> = Append(p, x)
         /\ p \o <<x, y>> = Append(Append(p, x), y)
         /\ p \o <<x, y, z>> = Append(Append(Append(p, x), y), z)
         /\ Append(p, x) \in Seq(WireByte)
<1>. DEFINE n == Len(p)
            p1 == Append(p, x)
            p2 == Append(p1, y)
            p3 == Append(p2, z)
<1>1. /\ n \in Nat /\ p1 \in Seq(WireByte) /\ Len(p1) = n + 1 /\ p1[n + 1] = x
      /\ \A i \in 1..n : p1[i] = p[i]
  OBVIOUS
<1>. HIDE DEF p1
<1>2. /\ p2 \in Seq(WireByte) /\ Len(p2) = n + 2 /\ p2[n + 2] = y /\ p2[n + 1] = x
      /\ \A i \in 1..n : p2[i] = p[i]
  <2>1. /\ p2 \in Seq(WireByte) /\ Len(p2) = (n + 1) + 1 /\ p2[(n + 1) + 1] = y
        /\ \A i \in 1..(n + 1) : p2[i] = p1[i]
    BY <1>1
  <2>. HIDE DEF p2
  <2>. QED
    BY <2>1, <1>1
<1>. HIDE DEF p2
<1>3. /\ p3 \in Seq(WireByte) /\ Len(p3) = n + 3 /\ p3[n + 3] = z /\ p3[n + 2] = y /\ p3[n + 1] = x
      /\ \A i \in 1..n : p3[i] = p[i]
  <2>1. /\ p3 \in Seq(WireByte) /\ Len(p3) = (n + 2) + 1 /\ p3[(n + 2) + 1] = z
        /\ \A i \in 1..(n + 2) : p3[i] = p2[i]
    BY <1>1, <1>2
  <2>. HIDE DEF p3
  <2>. QED
    BY <2>1, <1>1, <1>2
<1>. HIDE DEF p3
<1>4. ASSUME NEW t \in Seq(WireByte), NEW q \in Seq(WireByte), Len(q) = n + Len(t),
             \A i \in 1..n : q[i] = p[i], \A i \in 1..Len(t) : q[n + i] = t[i]
      PROVE  p \o t = q
  <2>. DEFINE r == p \o t
  <2>1. /\ r \in Seq(WireByte) /\ Len(r) = n + Len(t)
        /\ \A i \in 1..(n + Len(t)) : r[i] = IF i <= n THEN p[i] ELSE t[i - n]
    BY ConcatProperties, Zenon DEF n
  <2>2. Len(t) \in Nat /\ n \in Nat
    BY <1>1
  <2>. HIDE DEF r, n
  <2>3. ASSUME NEW i \in 1..Len(r) PROVE r[i] = q[i]
    <3>0. i \in 1..(n + Len(t)) /\ i \in Int
      BY <2>1, <2>2
    <3>3. r[i] = IF i <= n THEN p[i] ELSE t[i - n]
      BY <3>0, <2>1
    <3>1. CASE i <= n
      <4>1. i \in 1..n
        BY <3>0, <3>1, <2>2
      <4>. QED
        BY <3>1, <3>3, <4>1, <1>4
    <3>2. CASE i > n
      <4>1. i - n \in 1..Len(t) /\ n + (i - n) = i
        BY <3>2, <3>0, <2>2
      <4>2. q[n + (i - n)] = t[i - n]
        BY <4>1, <1>4
      <4>. QED
        BY <3>2, <3>3, <4>1, <4>2, <2>2
    <3>. QED
      BY <3>0, <3>1, <3>2, <2>2
  <2>4. r = q
    BY <2>1, <2>3, <1>4, SeqEqual
  <2>. QED
    BY <2>4 DEF r
<1>. HIDE DEF n
<1>5. p \o <<x>> = p1
  <2>. DEFINE t == <<x>>
  <2>1. t \in Seq(WireByte) /\ Len(t) = 1 /\ t[1] = x
    OBVIOUS
  <2>. HIDE DEF t
  <2>2. /\ p1 \in Seq(WireByte) /\ Len(p1) = n + Len(t)
        /\ \A i \in 1..n : p1[i] = p[i]
    BY <2>1, <1>1
  <2>3. ASSUME NEW i \in 1..Len(t) PROVE p1[n + i] = t[i]
    <3>1. i = 1
      BY <2>1
    <3>. QED
      BY <3>1, <2>1, <1>1
  <2>4. p \o t = p1
    BY <2>1, <2>2, <2>3, <1>4
  <2>. QED
    BY <2>4 DEF t
<1>6. p \o <<x, y>> = p2
  <2>. DEFINE t == <<x, y>>
  <2>1. t \in Seq(WireByte) /\ Len(t) = 2 /\ t[1] = x /\ t[2] = y
    OBVIOUS
  <2>. HIDE DEF t
  <2>2. /\ p2 \in Seq(WireByte) /\ Len(p2) = n + Len(t)
        /\ \A i \in 1..n : p2[i] = p[i]
    BY <2>1, <1>2
  <2>3. ASSUME NEW i \in 1..Len(t) PROVE p2[n + i] = t[i]
    <3>1. i = 1 \/ i = 2
      BY <2>1
    <3>. QED
      BY <3>1, <2>1, <1>2
  <2>4. p \o t = p2
    BY <2>1, <2>2, <2>3, <1>4
  <2>. QED
    BY <2>4 DEF t
<1>7. p \o <<x, y, z>> = p3
  <2>. DEFINE t == <<x, y, z>>
  <2>1. t \in Seq(WireByte) /\ Len(t) = 3 /\ t[1] = x /\ t[2] = y /\ t[3] = z
    OBVIOUS
  <2>. HIDE DEF t
  <2>2. /\ p3 \in Seq(WireByte) /\ Len(p3) = n + Len(t)
        /\ \A i \in 1..n : p3[i] = p[i]
    BY <2>1, <1>3
  <2>3. ASSUME NEW i \in 1..Len(t) PROVE p3[n + i] = t[i]
    <3>1. i = 1 \/ i = 2 \/ i = 3
      BY <2>1
    <3>. QED
      BY <3>1, <2>1, <1>3
  <2>4. p \o t = p3
    BY <2>1, <2>2, <2>3, <1>4
  <2>. QED
    BY <2>4 DEF t
<1>. QED
  BY <1>1, <1>5, <1>6, <1>7 DEF p1, p2, p3


-----------------------------------------------------------------------------
(* What the devices send, and what the handlers will make of it.           *)

\* What a byte changes of the modifiers.
LEMMA ModsFields ==
  ASSUME NEW m \in Mods, NEW b \in Int, b # 224, ~m.e0, NEW a, a = ModsAfter(b, m)
  PROVE  /\ ~a.e0
         /\ b < 128 => /\ a.shift <=> m.shift \/ b \in {42, 54}
                       /\ a.ctrl <=> m.ctrl \/ b = 29
                       /\ a.alt <=> m.alt \/ b = 56
                       /\ a.caps <=> m.caps # (b = 58)
         /\ b >= 128 => /\ a.shift <=> m.shift /\ b \notin {42 + 128, 54 + 128}
                        /\ a.ctrl <=> m.ctrl /\ b # 29 + 128
                        /\ a.alt <=> m.alt /\ b # 56 + 128
                        /\ a.caps <=> m.caps
<1>1. CASE b < 128
  <2>1. ~(b >= 128)
    BY <1>1
  <2>2. a = [m EXCEPT !.shift = @ \/ b \in {42, 54}, !.ctrl = @ \/ b = 29,
                      !.alt = @ \/ b = 56, !.caps = @ # (b = 58)]
    BY <2>1, Zenon DEF ModsAfter
  <2>3. /\ a.shift = (m.shift \/ b \in {42, 54}) /\ a.ctrl = (m.ctrl \/ b = 29)
        /\ a.alt = (m.alt \/ b = 56) /\ a.caps = (m.caps # (b = 58)) /\ a.e0 = m.e0
    BY <2>2, Zenon DEF Mods
  <2>. QED
    BY <2>1, <2>3, Zenon
<1>2. CASE b >= 128
  <2>1. ~(b < 128)
    BY <1>2
  <2>2. a = [m EXCEPT !.shift = @ /\ b \notin {42 + 128, 54 + 128},
                      !.ctrl = @ /\ b # 29 + 128, !.alt = @ /\ b # 56 + 128]
    BY <1>2, Zenon DEF ModsAfter
  <2>3. /\ a.shift = (m.shift /\ b \notin {42 + 128, 54 + 128})
        /\ a.ctrl = (m.ctrl /\ b # 29 + 128)
        /\ a.alt = (m.alt /\ b # 56 + 128) /\ a.caps = m.caps /\ a.e0 = m.e0
    BY <2>2, Zenon DEF Mods
  <2>. QED
    BY <2>1, <2>3, Zenon
<1>. QED
  BY <1>1, <1>2

\* Whether E0 came last can be set alone.
LEMMA OnlyE0 ==
  ASSUME NEW m \in Mods, NEW v, NEW a, a = [m EXCEPT !.e0 = v]
  PROVE  a.shift = m.shift /\ a.ctrl = m.ctrl /\ a.alt = m.alt /\ a.caps = m.caps /\ a.e0 = v
<1>1. a.shift = m.shift
  BY Zenon DEF Mods
<1>2. a.ctrl = m.ctrl
  BY Zenon DEF Mods
<1>3. a.alt = m.alt
  BY Zenon DEF Mods
<1>4. a.caps = m.caps
  BY Zenon DEF Mods
<1>5. a.e0 = v
  BY Zenon DEF Mods
<1>. QED
  BY <1>1, <1>2, <1>3, <1>4, <1>5

\* The code after E0 changes nothing.
LEMMA ModsExtended ==
  ASSUME NEW m \in Mods, NEW b \in Int, b # 224, ~m.e0,
         NEW a, a = ModsAfter(224, m), NEW d, d = ModsAfter(b, a)
  PROVE  /\ a.e0 /\ ~d.e0
         /\ d.shift <=> m.shift
         /\ d.ctrl <=> m.ctrl
         /\ d.alt <=> m.alt
         /\ d.caps <=> m.caps
<1>1. a = [m EXCEPT !.e0 = TRUE]
  BY Zenon DEF ModsAfter
<1>2. a.e0 /\ a \in Mods
  <2>1. a \in Mods
    BY <1>1, Zenon DEF Mods
  <2>2. a.e0 = TRUE
    BY <1>1, OnlyE0
  <2>. QED
    BY <2>1, <2>2, Zenon
<1>3. d = [a EXCEPT !.e0 = FALSE]
  BY <1>2, Zenon DEF ModsAfter
<1>4. d.e0 = FALSE
  BY <1>2, <1>3, OnlyE0
<1>5. d.shift = m.shift
  <2>1. a.shift = m.shift
    BY <1>1, OnlyE0
  <2>2. d.shift = a.shift
    BY <1>2, <1>3, OnlyE0
  <2>. QED
    BY <2>1, <2>2, Zenon
<1>6. d.ctrl = m.ctrl
  <2>1. a.ctrl = m.ctrl
    BY <1>1, OnlyE0
  <2>2. d.ctrl = a.ctrl
    BY <1>2, <1>3, OnlyE0
  <2>. QED
    BY <2>1, <2>2, Zenon
<1>7. d.alt = m.alt
  <2>1. a.alt = m.alt
    BY <1>1, OnlyE0
  <2>2. d.alt = a.alt
    BY <1>2, <1>3, OnlyE0
  <2>. QED
    BY <2>1, <2>2, Zenon
<1>8. d.caps = m.caps
  <2>1. a.caps = m.caps
    BY <1>1, OnlyE0
  <2>2. d.caps = a.caps
    BY <1>2, <1>3, OnlyE0
  <2>. QED
    BY <2>1, <2>2, Zenon
<1>9. ~d.e0
  BY <1>4, Zenon
<1>10. (d.shift <=> m.shift) /\ (d.ctrl <=> m.ctrl)
  BY <1>5, <1>6, Zenon
<1>11. (d.alt <=> m.alt) /\ (d.caps <=> m.caps)
  BY <1>7, <1>8, Zenon
<1>. QED
  BY <1>2, <1>9, <1>10, <1>11, Zenon

\* The state after the bytes of a key.
KeyTaken(k, up, z) ==
  LET code == FromKey(Code(k) + (IF up THEN 128 ELSE 0)) IN
  IF k = "rctrl" THEN Taken(code, Taken(FromKey(224), z)) ELSE Taken(code, z)

\* The code of each key.
LEMMA CodesAre ==
  ASSUME NEW k \in Key
  PROVE  /\ k \in {"c", "1", "lshift", "rshift", "ctrl", "alt", "caps", "rctrl"}
         /\ Code(k) \in {46, 2, 42, 54, 29, 56, 58}
<1>1. k \in {"c", "1", "lshift", "rshift", "ctrl", "alt", "caps", "rctrl"}
  BY InputAssumption
<1>. QED
  BY <1>1 DEF Code

\* A key's bytes lead to where the drivers take them.
LEMMA KeySent ==
  ASSUME NEW k \in Key, NEW up \in BOOLEAN, NEW p \in Seq(WireByte)
  PROVE  /\ p \o Wire(k, up) \in Seq(WireByte)
         /\ \A a : Answered(p, a) => Answered(p \o Wire(k, up), a)
         /\ \A s, z : Reaches(p, s, z) =>
              Sane(z) /\ Reaches(p \o Wire(k, up), s, KeyTaken(k, up, z))
<1>. DEFINE code == Code(k) + (IF up THEN 128 ELSE 0)
            e == FromKey(code)
            f == FromKey(224)
<1>1. /\ e \in WireByte /\ f \in WireByte /\ ~e.answer /\ ~f.answer
  <2>1. code \in Int
    BY CodesAre
  <2>. QED
    BY <2>1 DEF FromKey, WireByte
<1>2. Wire(k, up) = IF k = "rctrl" THEN <<f, e>> ELSE <<e>>
  BY Zenon DEF Wire
<1>3. \A z : KeyTaken(k, up, z) = IF k = "rctrl" THEN Taken(e, Taken(f, z)) ELSE Taken(e, z)
  BY Zenon DEF KeyTaken
<1>. HIDE DEF code, e, f
<1>4. /\ Append(p, e) \in Seq(WireByte) /\ Append(p, f) \in Seq(WireByte)
      /\ Append(Append(p, f), e) \in Seq(WireByte)
  BY <1>1
<1>5. CASE k = "rctrl"
  <2>1. p \o Wire(k, up) = Append(Append(p, f), e)
    BY <1>1, <1>2, <1>5, OneByOne
  <2>2. ASSUME NEW a, Answered(p, a) PROVE Answered(p \o Wire(k, up), a)
    <3>1. Answered(Append(p, f), a)
      BY <2>2, <1>1, AnsweredAppend
    <3>2. Answered(Append(Append(p, f), e), a)
      BY <3>1, <1>1, <1>4, AnsweredAppend
    <3>. QED
      BY <3>2, <2>1
  <2>3. ASSUME NEW s, NEW z, Reaches(p, s, z)
        PROVE  Sane(z) /\ Reaches(p \o Wire(k, up), s, KeyTaken(k, up, z))
    <3>1. Sane(z) /\ Reaches(Append(p, f), s, Taken(f, z))
      BY <2>3, <1>1, ReachesAppend
    <3>2. Reaches(Append(Append(p, f), e), s, Taken(e, Taken(f, z)))
      BY <3>1, <1>1, <1>4, ReachesAppend
    <3>3. KeyTaken(k, up, z) = Taken(e, Taken(f, z))
      BY <1>3, <1>5
    <3>. QED
      BY <3>1, <3>2, <3>3, <2>1
  <2>. QED
    BY <2>1, <2>2, <2>3, <1>4
<1>6. CASE k # "rctrl"
  <2>1. p \o Wire(k, up) = Append(p, e)
    BY <1>1, <1>2, <1>6, OneByOne
  <2>2. ASSUME NEW a, Answered(p, a) PROVE Answered(p \o Wire(k, up), a)
    BY <2>1, <2>2, <1>1, AnsweredAppend
  <2>3. ASSUME NEW s, NEW z, Reaches(p, s, z)
        PROVE  Sane(z) /\ Reaches(p \o Wire(k, up), s, KeyTaken(k, up, z))
    <3>1. Sane(z) /\ Reaches(Append(p, e), s, Taken(e, z))
      BY <2>3, <1>1, ReachesAppend
    <3>2. KeyTaken(k, up, z) = Taken(e, z)
      BY <1>3, <1>6
    <3>. QED
      BY <3>1, <3>2, <2>1
  <2>. QED
    BY <2>1, <2>2, <2>3, <1>4
<1>. QED
  BY <1>5, <1>6


\* The character of a key that is pressed.
Typed(k, m) ==
  IF m.ctrl THEN (IF k = "c" THEN "^C" ELSE "none")
  ELSE IF k = "c" THEN (IF m.shift # m.caps THEN "C" ELSE "c")
  ELSE IF k = "1" THEN (IF m.shift THEN "!" ELSE "1")
  ELSE "none"

\* What a key that is pressed or let go does, once all its bytes are taken.
KeyDoes(k, up, z, y) ==
  /\ y.mouse = z.mouse /\ ~y.mods.e0
  /\ ~up => /\ y.mods.shift <=> z.mods.shift \/ k \in {"lshift", "rshift"}
            /\ y.mods.ctrl <=> z.mods.ctrl \/ k = "ctrl"
            /\ y.mods.alt <=> z.mods.alt \/ k = "alt"
            /\ y.mods.caps <=> z.mods.caps # (k = "caps")
            /\ y.text = IF Typed(k, z.mods) = "none" THEN z.text ELSE Append(z.text, Typed(k, z.mods))
  /\ up => /\ y.mods.shift <=> z.mods.shift /\ k \notin {"lshift", "rshift"}
           /\ y.mods.ctrl <=> z.mods.ctrl /\ k # "ctrl"
           /\ y.mods.alt <=> z.mods.alt /\ k # "alt"
           /\ y.mods.caps <=> z.mods.caps
           /\ y.text = z.text

\* What the keyboard's handler does with a byte.
LEMMA TakenKey ==
  ASSUME NEW b \in Int, NEW z
  PROVE  /\ Taken(FromKey(b), z).mods = ModsAfter(b, z.mods)
         /\ Taken(FromKey(b), z).mouse = z.mouse
         /\ Taken(FromKey(b), z).text =
              IF b >= 128 \/ z.mods.e0 \/ Ascii(b, z.mods) = "none" THEN z.text
              ELSE Append(z.text, Ascii(b, z.mods))
  BY DEF Taken, FromKey, Silent

\* A key's bytes do what the key means.
LEMMA KeyEffect ==
  ASSUME NEW k \in Key, NEW up \in BOOLEAN, NEW z, Sane(z), ~z.mods.e0
  PROVE  KeyDoes(k, up, z, KeyTaken(k, up, z))
<1>. DEFINE b == Code(k) + (IF up THEN 128 ELSE 0)
            m == z.mods
            y == KeyTaken(k, up, z)
<1>0. m \in Mods
  BY DEF Sane
<1>1. CASE k = "rctrl"
  <2>1. b \in Int /\ b # 224 /\ 224 \in Int /\ 224 >= 128 /\ b \in {29, 157}
    BY <1>1 DEF Code
  <2>. DEFINE v == Taken(FromKey(224), z)
  <2>2. y = Taken(FromKey(b), v)
    BY <1>1, Zenon DEF KeyTaken
  <2>. HIDE DEF b, y
  <2>3. v.mods = ModsAfter(224, m) /\ v.mouse = z.mouse /\ v.text = z.text
    BY <2>1, TakenKey
  <2>. HIDE DEF v
  <2>4. /\ y.mods = ModsAfter(b, v.mods) /\ y.mouse = v.mouse
        /\ v.mods.e0 => y.text = v.text
    BY <2>1, <2>2, TakenKey
  <2>5. /\ v.mods.e0 /\ ~y.mods.e0
        /\ y.mods.shift <=> m.shift
        /\ y.mods.ctrl <=> m.ctrl
        /\ y.mods.alt <=> m.alt
        /\ y.mods.caps <=> m.caps
    <3>. HIDE DEF m
    <3>1. ~m.e0
      BY DEF m
    <3>. QED
      BY <1>0, <2>1, <2>3, <2>4, <3>1, ModsExtended
  <2>6. Typed(k, m) = "none"
    BY <1>1 DEF Typed
  <2>7. m.caps \in BOOLEAN
    BY <1>0, Zenon DEF Mods
  <2>8. y.mouse = z.mouse /\ y.text = z.text
    BY <2>3, <2>4, <2>5
  <2>9. /\ k \notin {"lshift", "rshift"} /\ k # "ctrl" /\ k # "alt" /\ k # "caps"
    BY <1>1
  <2>10. y.mods.caps <=> m.caps # (k = "caps")
    BY <2>5, <2>7, <2>9
  <2>. QED
    BY <2>5, <2>6, <2>8, <2>9, <2>10, Zenon DEF KeyDoes, y, m
<1>2. CASE k # "rctrl"
  <2>1. k \in {"c", "1", "lshift", "rshift", "ctrl", "alt", "caps"}
    BY <1>2, CodesAre
  <2>2. y = Taken(FromKey(b), z)
    BY <1>2, Zenon DEF KeyTaken
  <2>3. /\ Code(k) \in {46, 2, 42, 54, 29, 56, 58}
        /\ Code(k) \in {42, 54} <=> k \in {"lshift", "rshift"}
        /\ Code(k) = 29 <=> k = "ctrl"
        /\ Code(k) = 56 <=> k = "alt"
        /\ Code(k) = 58 <=> k = "caps"
        /\ Code(k) = 46 <=> k = "c"
        /\ Code(k) = 2 <=> k = "1"
    BY <2>1 DEF Code
  <2>. DEFINE code == Code(k)
  <2>. HIDE DEF code
  <2>4. /\ b = IF up THEN code + 128 ELSE code
        /\ code \in {46, 2, 42, 54, 29, 56, 58}
    BY <2>3 DEF code
  <2>. HIDE DEF b, y
  <2>5. b \in Int /\ b # 224
    BY <2>4
  <2>6. /\ y.mods = ModsAfter(b, m) /\ y.mouse = z.mouse
        /\ y.text = IF b >= 128 \/ Ascii(b, m) = "none" THEN z.text ELSE Append(z.text, Ascii(b, m))
    BY <2>2, <2>5, TakenKey, ~z.mods.e0
  <2>7. /\ ~y.mods.e0
        /\ b < 128 => /\ y.mods.shift <=> m.shift \/ b \in {42, 54}
                      /\ y.mods.ctrl <=> m.ctrl \/ b = 29
                      /\ y.mods.alt <=> m.alt \/ b = 56
                      /\ y.mods.caps <=> m.caps # (b = 58)
        /\ b >= 128 => /\ y.mods.shift <=> m.shift /\ b \notin {42 + 128, 54 + 128}
                       /\ y.mods.ctrl <=> m.ctrl /\ b # 29 + 128
                       /\ y.mods.alt <=> m.alt /\ b # 56 + 128
                       /\ y.mods.caps <=> m.caps
    <3>. HIDE DEF m
    <3>1. ~m.e0
      BY DEF m
    <3>. QED
      BY <1>0, <2>5, <2>6, <3>1, ModsFields
  <2>8. CASE up
    <3>1. /\ b >= 128
          /\ b \in {42 + 128, 54 + 128} <=> k \in {"lshift", "rshift"}
          /\ b = 29 + 128 <=> k = "ctrl"
          /\ b = 56 + 128 <=> k = "alt"
      BY <2>3, <2>4, <2>8 DEF code
    <3>. QED
      BY <2>6, <2>7, <2>8, <3>1, Zenon DEF KeyDoes, y, m
  <2>9. CASE ~up
    <3>1. /\ b < 128 /\ ~(b >= 128)
          /\ b \in {42, 54} <=> k \in {"lshift", "rshift"}
          /\ b = 29 <=> k = "ctrl"
          /\ b = 56 <=> k = "alt"
          /\ b = 58 <=> k = "caps"
          /\ b = 46 <=> k = "c"
          /\ b = 2 <=> k = "1"
          /\ b # 38
      BY <2>3, <2>4, <2>9 DEF code
    <3>2. Ascii(b, m) = Typed(k, m)
      <4>. HIDE DEF m
      <4>1. CASE m.ctrl
        BY <3>1, <4>1, Zenon DEF Ascii, Typed
      <4>2. CASE ~m.ctrl
        <5>1. CASE k = "c"
          BY <3>1, <4>2, <5>1 DEF Ascii, Typed
        <5>2. CASE k = "1"
          BY <3>1, <4>2, <5>2 DEF Ascii, Typed
        <5>3. CASE k # "c" /\ k # "1"
          BY <3>1, <4>2, <5>3 DEF Ascii, Typed
        <5>. QED
          BY <5>1, <5>2, <5>3
      <4>. QED
        BY <4>1, <4>2
    <3>3. y.mods.caps <=> m.caps # (k = "caps")
      <4>1. (b = 58) = (k = "caps")
        BY <3>1
      <4>. QED
        BY <2>7, <3>1, <4>1, Zenon
    <3>. QED
      BY <2>6, <2>7, <2>9, <3>1, <3>2, <3>3, Zenon DEF KeyDoes, y, m
  <2>. QED
    BY <2>8, <2>9
<1>. QED
  BY <1>1, <1>2


-----------------------------------------------------------------------------
(* The invariant: once the bytes of the port are taken, the drivers follow *)
(* the devices, unless mouse_init has lost its answer.                     *)

Question == {"config", "defaults", "enable"}

InputType ==
  /\ port \in Seq(WireByte)
  /\ ring_buffer \in [RingPlaces -> KeyChar] /\ ring_head \in RingPlaces /\ ring_tail \in RingPlaces
  /\ mods \in Mods /\ g_mouse_cycle \in 0..2
  /\ setup \in Question \cup {"none", "last"}
  /\ caps \in BOOLEAN /\ hand \in [x : Int, left_button : BOOLEAN]
  /\ expected \in Seq(KeyChar) /\ got \in Seq(KeyChar)

TwoShifts == {"lshift", "rshift"} \subseteq down => "both" \in excuses

Stray == "flushed" \in excuses \/ "stolen" \in excuses

MouseNow == [packet |-> g_mouse_packet, cycle |-> g_mouse_cycle, pointer |-> pointer]
TextNow == got \o HeldOf(ring_buffer, ring_head, ring_tail)

\* s is the state the drivers are in.
Present(s) ==
  Sane(s) /\ s.mods = mods /\ s.mouse = MouseNow /\ (excuses = {} => s.text = TextNow)

ModsMeet(m) ==
  /\ m.shift => Shifted
  /\ m.ctrl <=> "ctrl" \in down
  /\ m.alt <=> "alt" \in down
  /\ m.caps <=> caps
  /\ ~m.e0
  /\ "both" \notin excuses => (m.shift <=> Shifted)

\* z is what the devices have told.
Meets(z) ==
  /\ ModsMeet(z.mods)
  /\ excuses = {} => z.text = expected
  /\ z.mouse.cycle = 0 /\ z.mouse.pointer = hand

Told == \E s, z : Present(s) /\ Meets(z) /\ Reaches(port, s, z)

\* The answer mouse_init waits for is on its way, or a handler has taken it.
Expects(a) ==
  /\ Answered(port, a)
  /\ setup \notin Question => a = 0
  /\ (setup \in Question /\ a = 0) \/ Told

InputInv == InputType /\ TwoShifts /\ (~Stray => \E a : Expects(a))

-----------------------------------------------------------------------------
(* The devices.                                                            *)

\* A key pressed leads to what was typed.
LEMMA PressMeets ==
  ASSUME InputType, TwoShifts, NEW k \in Key, KeyPressed(k), NEW z, Sane(z), Meets(z),
         NEW y, KeyDoes(k, FALSE, z, y)
  PROVE  Meets(y)' /\ TwoShifts'
<1>1. /\ z.mods.shift \in BOOLEAN /\ z.mods.ctrl \in BOOLEAN /\ z.mods.alt \in BOOLEAN
      /\ z.mods.caps \in BOOLEAN /\ z.text \in Seq(KeyChar)
  BY Zenon DEF Sane, Mods
<1>2. /\ down' = down \cup {k} /\ caps' = (caps # (k = "caps")) /\ caps \in BOOLEAN
      /\ expected' = expected \o Meant(k) /\ expected \in Seq(KeyChar)
      /\ excuses' = excuses \cup IF {"lshift", "rshift"} \subseteq down' THEN {"both"} ELSE {}
      /\ hand' = hand
  BY Zenon DEF KeyPressed, InputType
<1>3. /\ z.mods.shift => Shifted
      /\ z.mods.ctrl <=> "ctrl" \in down
      /\ z.mods.alt <=> "alt" \in down
      /\ z.mods.caps <=> caps
      /\ "both" \notin excuses => (z.mods.shift <=> Shifted)
      /\ excuses = {} => z.text = expected
      /\ z.mouse.cycle = 0 /\ z.mouse.pointer = hand
  BY Zenon DEF Meets, ModsMeet
<1>4. /\ y.mouse = z.mouse /\ ~y.mods.e0
      /\ y.mods.shift <=> z.mods.shift \/ k \in {"lshift", "rshift"}
      /\ y.mods.ctrl <=> z.mods.ctrl \/ k = "ctrl"
      /\ y.mods.alt <=> z.mods.alt \/ k = "alt"
      /\ y.mods.caps <=> z.mods.caps # (k = "caps")
      /\ y.text = IF Typed(k, z.mods) = "none" THEN z.text ELSE Append(z.text, Typed(k, z.mods))
  BY Zenon DEF KeyDoes
<1>5. Shifted' <=> Shifted \/ k \in {"lshift", "rshift"}
  BY <1>2 DEF Shifted
<1>6. ModsMeet(y.mods)'
  <2>1. "both" \notin excuses' => "both" \notin excuses
    BY <1>2
  <2>2. /\ "ctrl" \in down' <=> "ctrl" \in down \/ k = "ctrl"
        /\ "alt" \in down' <=> "alt" \in down \/ k = "alt"
    BY <1>2
  <2>3. y.mods.caps <=> caps'
    <3>1. (z.mods.caps # (k = "caps")) <=> (caps # (k = "caps"))
      BY <1>1, <1>2, <1>3
    <3>. QED
      BY <3>1, <1>2, <1>4, Zenon
  <2>. QED
    BY <1>3, <1>4, <1>5, <2>1, <2>2, <2>3, Zenon DEF ModsMeet
<1>7. ASSUME excuses' = {} PROVE y.text = expected'
  <2>1. excuses = {} /\ "both" \notin excuses
    BY <1>2, <1>7
  <2>2. z.text = expected /\ (z.mods.shift <=> Shifted)
    BY <2>1, <1>3
  <2>3. /\ z.mods.ctrl = ("ctrl" \in down) /\ z.mods.shift = Shifted /\ z.mods.caps = caps
    <3>1. Shifted \in BOOLEAN
      BY DEF Shifted
    <3>. QED
      BY <3>1, <2>2, <1>1, <1>2, <1>3
  <2>4. Meant(k) = IF Typed(k, z.mods) = "none" THEN <<>> ELSE <<Typed(k, z.mods)>>
    <3>. DEFINE C == z.mods.ctrl
                S == z.mods.shift
                P == z.mods.caps
    <3>1. /\ Meant(k) = IF C THEN (IF k = "c" THEN <<"^C">> ELSE <<>>)
                        ELSE CASE k = "c" -> IF S # P THEN <<"C">> ELSE <<"c">>
                               [] k = "1" -> IF S THEN <<"!">> ELSE <<"1">>
                               [] OTHER -> <<>>
          /\ Typed(k, z.mods) = IF C THEN (IF k = "c" THEN "^C" ELSE "none")
                                ELSE IF k = "c" THEN (IF S # P THEN "C" ELSE "c")
                                ELSE IF k = "1" THEN (IF S THEN "!" ELSE "1")
                                ELSE "none"
      BY <2>3, Zenon DEF Meant, Typed
    <3>. HIDE DEF C, S, P
    <3>2. CASE C
      <4>1. CASE k = "c"
        BY <3>1, <3>2, <4>1
      <4>2. CASE k # "c"
        BY <3>1, <3>2, <4>2
      <4>. QED
        BY <4>1, <4>2
    <3>3. CASE ~C
      <4>1. CASE k = "c"
        <5>1. CASE S # P
          BY <3>1, <3>3, <4>1, <5>1
        <5>2. CASE S = P
          BY <3>1, <3>3, <4>1, <5>2
        <5>. QED
          BY <5>1, <5>2
      <4>2. CASE k = "1"
        <5>1. CASE S
          BY <3>1, <3>3, <4>2, <5>1
        <5>2. CASE ~S
          BY <3>1, <3>3, <4>2, <5>2
        <5>. QED
          BY <5>1, <5>2
      <4>3. CASE k # "c" /\ k # "1"
        BY <3>1, <3>3, <4>3
      <4>. QED
        BY <4>1, <4>2, <4>3
    <3>. QED
      BY <3>2, <3>3
  <2>. DEFINE ch == Typed(k, z.mods)
  <2>5. ch \in KeyChar
    BY DEF Typed, KeyChar
  <2>. HIDE DEF ch
  <2>6. y.text = (IF ch = "none" THEN expected ELSE Append(expected, ch))
    BY <1>4, <2>2 DEF ch
  <2>7. expected' = expected \o (IF ch = "none" THEN <<>> ELSE <<ch>>)
    BY <1>2, <2>4 DEF ch
  <2>8. expected \o <<>> = expected /\ expected \o <<ch>> = Append(expected, ch)
    BY <1>2, <2>5, ConcatEmptySeq, AppendIsConcat
  <2>9. CASE ch = "none"
    BY <2>6, <2>7, <2>8, <2>9
  <2>10. CASE ch # "none"
    BY <2>6, <2>7, <2>8, <2>10
  <2>. QED
    BY <2>9, <2>10
<1>8. y.mouse.cycle = 0 /\ y.mouse.pointer = hand'
  BY <1>2, <1>3, <1>4
<1>9. TwoShifts'
  BY <1>2 DEF TwoShifts
<1>. QED
  BY <1>6, <1>7, <1>8, <1>9, Zenon DEF Meets

\* A key released does.
LEMMA ReleaseMeets ==
  ASSUME InputType, TwoShifts, NEW k \in Key, KeyReleased(k), NEW z, Sane(z), Meets(z),
         NEW y, KeyDoes(k, TRUE, z, y)
  PROVE  Meets(y)' /\ TwoShifts'
<1>2. /\ down' = down \ {k} /\ caps' = caps /\ expected' = expected /\ excuses' = excuses
      /\ hand' = hand
  BY Zenon DEF KeyReleased
<1>3. /\ z.mods.shift => Shifted
      /\ z.mods.ctrl <=> "ctrl" \in down
      /\ z.mods.alt <=> "alt" \in down
      /\ z.mods.caps <=> caps
      /\ "both" \notin excuses => (z.mods.shift <=> Shifted)
      /\ excuses = {} => z.text = expected
      /\ z.mouse.cycle = 0 /\ z.mouse.pointer = hand
  BY Zenon DEF Meets, ModsMeet
<1>4. /\ y.mouse = z.mouse /\ ~y.mods.e0
      /\ y.mods.shift <=> z.mods.shift /\ k \notin {"lshift", "rshift"}
      /\ y.mods.ctrl <=> z.mods.ctrl /\ k # "ctrl"
      /\ y.mods.alt <=> z.mods.alt /\ k # "alt"
      /\ y.mods.caps <=> z.mods.caps
      /\ y.text = z.text
  BY Zenon DEF KeyDoes
<1>5. /\ k \notin {"lshift", "rshift"} => (Shifted' <=> Shifted)
      /\ "both" \notin excuses /\ k \in {"lshift", "rshift"} => ~Shifted'
  <2>1. k \notin {"lshift", "rshift"} => (Shifted' <=> Shifted)
    BY <1>2 DEF Shifted
  <2>2. k \in down
    BY Zenon DEF KeyReleased
  <2>3. ASSUME "both" \notin excuses, k \in {"lshift", "rshift"} PROVE ~Shifted'
    BY <1>2, <2>2, <2>3 DEF Shifted, TwoShifts
  <2>. QED
    BY <2>1, <2>3
<1>6. ModsMeet(y.mods)'
  <2>2. /\ "ctrl" \in down' <=> "ctrl" \in down /\ k # "ctrl"
        /\ "alt" \in down' <=> "alt" \in down /\ k # "alt"
    BY <1>2
  <2>. QED
    BY <1>2, <1>3, <1>4, <1>5, <2>2, Zenon DEF ModsMeet
<1>7. y.mouse.cycle = 0 /\ y.mouse.pointer = hand'
  BY <1>2, <1>3, <1>4
<1>8. excuses' = {} => y.text = expected'
  BY <1>2, <1>3, <1>4
<1>9. TwoShifts'
  BY <1>2 DEF TwoShifts
<1>. QED
  BY <1>6, <1>7, <1>8, <1>9, Zenon DEF Meets


\* What the mouse's handler does with a byte.
LEMMA TakenMouse ==
  ASSUME NEW b \in Int, NEW z
  PROVE  /\ Taken(FromMouse(b), z).mods = z.mods
         /\ Taken(FromMouse(b), z).mouse = MouseAfter(b, z.mouse)
         /\ Taken(FromMouse(b), z).text = z.text
  BY DEF Taken, FromMouse, Silent

\* The first byte of a packet.
Flags(dx, left) ==
  8 + (IF left THEN 1 ELSE 0) + (IF dx < 0 THEN 16 ELSE 0) + (IF Overflows(dx) THEN 64 ELSE 0)

\* What a handler reads in a packet is what the mouse has put there.
LEMMA PacketRead ==
  ASSUME NEW dx \in Int, NEW left \in BOOLEAN
  PROVE  /\ Flags(dx, left) \in Int /\ dx % 256 \in Int
         /\ Bit(Flags(dx, left), 8) /\ Bit(Flags(dx, left), 1) = left
         /\ Delta(Flags(dx, left), dx % 256) =
              IF Overflows(dx) THEN (IF dx < 0 THEN -127 ELSE 127) ELSE dx
<1>. DEFINE f == Flags(dx, left)
            l == IF left THEN 1 ELSE 0
            s == IF dx < 0 THEN 16 ELSE 0
            o == IF Overflows(dx) THEN 64 ELSE 0
<1>1. f = 8 + l + s + o /\ l \in {0, 1} /\ s \in {0, 16} /\ o \in {0, 64}
  BY Zenon DEF Flags
<1>2. /\ l = 1 <=> left
      /\ s = 16 <=> dx < 0
      /\ o = 64 <=> Overflows(dx)
  OBVIOUS
<1>3. Overflows(dx) <=> dx < -256 \/ dx > 255
  BY DEF Overflows
<1>. HIDE DEF f, l, s, o
<1>4. /\ f \in Int /\ (f \div 8) % 2 = 1 /\ ((f \div 1) % 2 = 1 <=> l = 1)
      /\ ((f \div 16) % 2 = 1 <=> s = 16) /\ ((f \div 64) % 2 = 1 <=> o = 64)
  <2>1. f \in {8, 9, 24, 25, 72, 73, 88, 89}
    BY <1>1
  <2>2. CASE o = 0
    BY <2>2, <1>1
  <2>3. CASE o = 64
    BY <2>3, <1>1
  <2>. QED
    BY <2>2, <2>3, <1>1
<1>5. /\ Bit(f, 8)
      /\ Bit(f, 1) <=> left
      /\ Bit(f, 16) <=> dx < 0
      /\ Bit(f, 64) <=> Overflows(dx)
  BY <1>2, <1>4, Zenon DEF Bit
<1>6. Bit(f, 1) = left
  <2>1. Bit(f, 1) \in BOOLEAN
    BY DEF Bit
  <2>. QED
    BY <2>1, <1>5
<1>7. Delta(f, dx % 256) = IF Overflows(dx) THEN (IF dx < 0 THEN -127 ELSE 127) ELSE dx
  <2>1. CASE Overflows(dx)
    BY <1>5, <2>1 DEF Delta
  <2>2. CASE ~Overflows(dx)
    <3>1. dx < 0 => (dx % 256) - 256 = dx
      BY <1>3, <2>2
    <3>2. ~(dx < 0) => dx % 256 = dx
      BY <1>3, <2>2
    <3>3. Delta(f, dx % 256) = IF dx < 0 THEN (dx % 256) - 256 ELSE dx % 256
      BY <1>5, <2>2, Zenon DEF Delta
    <3>. QED
      BY <2>2, <3>1, <3>2, <3>3
  <2>. QED
    BY <2>1, <2>2
<1>8. dx % 256 \in Int
  OBVIOUS
<1>. QED
  BY <1>4, <1>5, <1>6, <1>7, <1>8 DEF f

\* The state after a packet.
PacketTaken(dx, left, z) ==
  Taken(FromMouse(0), Taken(FromMouse(dx % 256), Taken(FromMouse(Flags(dx, left)), z)))

MousePacket(dx, left) == <<FromMouse(Flags(dx, left)), FromMouse(dx % 256), FromMouse(0)>>

\* A packet's bytes lead to where the drivers take them.
LEMMA PacketSent ==
  ASSUME NEW dx \in Int, NEW left \in BOOLEAN, NEW p \in Seq(WireByte), NEW q,
         q = p \o MousePacket(dx, left)
  PROVE  /\ q \in Seq(WireByte)
         /\ \A a : Answered(p, a) => Answered(q, a)
         /\ \A s, z : Reaches(p, s, z) => Sane(z) /\ Reaches(q, s, PacketTaken(dx, left, z))
<1>. DEFINE x == FromMouse(Flags(dx, left))
            y == FromMouse(dx % 256)
            w == FromMouse(0)
<1>1. /\ x \in WireByte /\ ~x.answer /\ y \in WireByte /\ ~y.answer /\ w \in WireByte /\ ~w.answer
  <2>1. Flags(dx, left) \in Int /\ dx % 256 \in Int
    BY PacketRead
  <2>. QED
    BY <2>1 DEF FromMouse, WireByte
<1>2. \A z : PacketTaken(dx, left, z) = Taken(w, Taken(y, Taken(x, z)))
  BY Zenon DEF PacketTaken
<1>3. q = p \o <<x, y, w>>
  BY Zenon DEF MousePacket
<1>. HIDE DEF x, y, w
<1>. DEFINE p1 == Append(p, x)
            p2 == Append(p1, y)
            p3 == Append(p2, w)
<1>4. p1 \in Seq(WireByte) /\ p2 \in Seq(WireByte) /\ p3 \in Seq(WireByte) /\ q = p3
  <2>1. q = p3
    BY <1>1, <1>3, OneByOne
  <2>. QED
    BY <1>1, <2>1
<1>5. ASSUME NEW a, Answered(p, a) PROVE Answered(q, a)
  <2>1. Answered(p1, a)
    BY <1>1, <1>5, AnsweredAppend
  <2>. HIDE DEF p1
  <2>2. Answered(p2, a)
    BY <1>1, <1>4, <2>1, AnsweredAppend
  <2>. HIDE DEF p2
  <2>3. Answered(p3, a)
    BY <1>1, <1>4, <2>2, AnsweredAppend
  <2>. QED
    BY <1>4, <2>3
<1>6. ASSUME NEW s, NEW z, Reaches(p, s, z)
      PROVE  Sane(z) /\ Reaches(q, s, PacketTaken(dx, left, z))
  <2>1. Sane(z) /\ Reaches(p1, s, Taken(x, z))
    BY <1>1, <1>6, ReachesAppend
  <2>. HIDE DEF p1
  <2>2. Reaches(p2, s, Taken(y, Taken(x, z)))
    BY <1>1, <1>4, <2>1, ReachesAppend
  <2>. HIDE DEF p2
  <2>3. Reaches(p3, s, Taken(w, Taken(y, Taken(x, z))))
    BY <1>1, <1>4, <2>2, ReachesAppend
  <2>. HIDE DEF p3
  <2>. QED
    BY <1>2, <1>4, <2>1, <2>3
<1>. QED
  BY <1>4, <1>5, <1>6

\* A packet leads to where the hand has moved the pointer.
LEMMA PacketMeets ==
  ASSUME InputType, TwoShifts, NEW dx \in Int, NEW left \in BOOLEAN, MouseMoved(dx, left),
         NEW z, Meets(z), NEW y, y = PacketTaken(dx, left, z)
  PROVE  Meets(y)'
<1>. DEFINE f == Flags(dx, left)
            d == dx % 256
            x1 == Taken(FromMouse(f), z)
            x2 == Taken(FromMouse(d), x1)
<1>1. /\ f \in Int /\ d \in Int /\ Bit(f, 8) /\ Bit(f, 1) = left
      /\ Delta(f, d) = IF Overflows(dx) THEN (IF dx < 0 THEN -127 ELSE 127) ELSE dx
  BY PacketRead
<1>2. y = Taken(FromMouse(0), x2)
  BY Zenon DEF PacketTaken
<1>. HIDE DEF f, d
<1>3. x1.mods = z.mods /\ x1.mouse = MouseAfter(f, z.mouse) /\ x1.text = z.text
  BY <1>1, TakenMouse
<1>. HIDE DEF x1
<1>4. x2.mods = z.mods /\ x2.mouse = MouseAfter(d, x1.mouse) /\ x2.text = z.text
  BY <1>1, <1>3, TakenMouse
<1>. HIDE DEF x2
<1>5. y.mods = z.mods /\ y.mouse = MouseAfter(0, x2.mouse) /\ y.text = z.text
  BY <1>2, <1>4, TakenMouse
<1>6. z.mouse.cycle = 0 /\ z.mouse.pointer = hand
  BY Zenon DEF Meets
<1>7. x1.mouse = [packet |-> <<f, 0>>, cycle |-> 1, pointer |-> hand]
  BY <1>1, <1>3, <1>6 DEF MouseAfter
<1>8. x2.mouse = [packet |-> <<f, d>>, cycle |-> 2, pointer |-> hand]
  <2>1. [<<f, 0>> EXCEPT ![2] = d] = <<f, d>>
    OBVIOUS
  <2>. QED
    BY <1>4, <1>7, <2>1 DEF MouseAfter
<1>9. /\ y.mouse.cycle = 0
      /\ y.mouse.pointer = [x |-> Clamp(hand.x + Delta(f, d)), left_button |-> Bit(f, 1)]
  BY <1>5, <1>8 DEF MouseAfter
<1>10. hand' = [x |-> Clamp(hand.x + (IF Overflows(dx) THEN (IF dx < 0 THEN -127 ELSE 127) ELSE dx)),
                left_button |-> left]
  BY Zenon DEF MouseMoved
<1>11. y.mouse.pointer = hand'
  BY <1>1, <1>9, <1>10
<1>12. UNCHANGED <<down, caps, expected, excuses>>
  BY Zenon DEF MouseMoved
<1>13. ModsMeet(y.mods)'
  BY <1>5, <1>12, Zenon DEF Meets, ModsMeet, Shifted
<1>14. excuses' = {} => y.text = expected'
  BY <1>5, <1>12, Zenon DEF Meets
<1>. QED
  BY <1>9, <1>11, <1>13, <1>14, Zenon DEF Meets


-----------------------------------------------------------------------------
(* The types.                                                              *)

\* The first byte is one.
LEMMA HeadByte ==
  ASSUME NEW p \in Seq(WireByte), p # <<>>
  PROVE  /\ Tail(p) \in Seq(WireByte) /\ Head(p) \in WireByte
         /\ Head(p).byte \in Int /\ Head(p).aux \in BOOLEAN /\ Head(p).answer \in BOOLEAN
<1>1. Tail(p) \in Seq(WireByte) /\ Head(p) \in WireByte
  OBVIOUS
<1>. QED
  BY <1>1, Zenon DEF WireByte

\* An answer is a byte, marked as one.
LEMMA AnswerByte ==
  ASSUME NEW x \in Question
  PROVE  Answer(x) \in WireByte /\ Answer(x).answer
<1>1. FromKey(71) \in WireByte /\ FromMouse(250) \in WireByte
  BY DEF FromKey, FromMouse, WireByte
<1>2. \A e \in WireByte : [e EXCEPT !.answer = TRUE] \in WireByte /\ [e EXCEPT !.answer = TRUE].answer
  BY Zenon DEF WireByte
<1>. QED
  BY <1>1, <1>2, Zenon DEF Answer

\* What process_scancode does to the ring.
LEMMA RingStep ==
  ASSUME InputType, NEW b \in Int, process_scancode(b), UNCHANGED got
  PROVE  /\ mods' \in Mods /\ mods' = ModsAfter(b, mods)
         /\ ring_buffer' \in [RingPlaces -> KeyChar] /\ ring_head' \in RingPlaces /\ ring_tail' \in RingPlaces
         /\ excuses \subseteq excuses' /\ excuses' \subseteq excuses \cup {"full"}
         /\ excuses' = {} =>
              TextNow' = IF b >= 128 \/ mods.e0 \/ Ascii(b, mods) = "none" THEN TextNow
                         ELSE Append(TextNow, Ascii(b, mods))
<1>. DEFINE ch == Ascii(b, mods)
            quiet == b >= 128 \/ mods.e0 \/ ch = "none"
<1>1. /\ ring_buffer \in [RingPlaces -> KeyChar] /\ ring_head \in RingPlaces /\ ring_tail \in RingPlaces
      /\ mods \in Mods /\ got \in Seq(KeyChar)
  BY Zenon DEF InputType
<1>2. mods' = ModsAfter(b, mods) /\ mods' \in Mods /\ ch \in KeyChar
  BY <1>1, ModsStay DEF process_scancode
<1>3. IF quiet THEN UNCHANGED <<ringVars, excuses>> ELSE ring_push(ch)
  BY Zenon DEF process_scancode
<1>. HIDE DEF ch, quiet
<1>4. CASE quiet
  <2>1. UNCHANGED <<ring_buffer, ring_head, ring_tail, excuses, got>>
    BY <1>3, <1>4 DEF ringVars
  <2>2. TextNow' = TextNow
    BY <2>1, Zenon DEF TextNow, HeldOf
  <2>. QED
    BY <1>1, <1>2, <1>4, <2>1, <2>2 DEF quiet, ch
<1>5. CASE ~quiet /\ Room
  <2>1. /\ ring_buffer' = [ring_buffer EXCEPT ![ring_head] = ch]
        /\ ring_head' = (ring_head + 1) % Size /\ ring_tail' = ring_tail /\ excuses' = excuses
        /\ (ring_head + 1) % Size # ring_tail
    BY <1>3, <1>5, Zenon DEF ring_push, Room, Size
  <2>. DEFINE old == HeldOf(ring_buffer, ring_head, ring_tail)
              new == HeldOf(ring_buffer', ring_head', ring_tail')
  <2>2. /\ ring_head' \in RingPlaces /\ ring_buffer' \in [RingPlaces -> KeyChar]
        /\ new = Append(old, ch) /\ old \in Seq(KeyChar)
    <3>1. /\ (ring_head + 1) % Size \in RingPlaces
          /\ WithChar(ring_buffer, ring_head, ch) \in [RingPlaces -> KeyChar]
          /\ HeldOf(WithChar(ring_buffer, ring_head, ch), (ring_head + 1) % Size, ring_tail) =
               Append(HeldOf(ring_buffer, ring_head, ring_tail), ch)
      BY <1>1, <1>2, <2>1, HeldPut
    <3>3. ring_buffer' = WithChar(ring_buffer, ring_head, ch)
      BY <2>1, Zenon DEF WithChar
    <3>2. old \in Seq(KeyChar)
      BY <1>1, HeldSound
    <3>. QED
      BY <2>1, <3>1, <3>2, <3>3, Zenon
  <2>3. TextNow = got \o old /\ TextNow' = got \o new
    BY Zenon DEF TextNow, HeldOf
  <2>. HIDE DEF old, new
  <2>4. /\ Append(old, ch) = old \o <<ch>> /\ <<ch>> \in Seq(KeyChar)
        /\ got \o old \in Seq(KeyChar)
        /\ Append(got \o old, ch) = (got \o old) \o <<ch>>
    <3>1. got \o old \in Seq(KeyChar)
      BY <1>1, <2>2, ConcatProperties
    <3>. QED
      BY <1>2, <2>2, <3>1, AppendIsConcat
  <2>5. (got \o old) \o <<ch>> = got \o (old \o <<ch>>)
    BY <1>1, <2>2, <2>4, ConcatAssociative
  <2>6. TextNow' = Append(TextNow, ch)
    BY <2>2, <2>3, <2>4, <2>5
  <2>. QED
    BY <1>1, <1>2, <1>5, <2>1, <2>2, <2>6 DEF quiet, ch
<1>6. CASE ~quiet /\ ~Room
  <2>1. excuses' = excuses \cup {"full"} /\ UNCHANGED <<ring_buffer, ring_head, ring_tail>>
    BY <1>3, <1>6 DEF ring_push, ringVars
  <2>. QED
    BY <1>1, <1>2, <2>1
<1>. QED
  BY <1>4, <1>5, <1>6

\* Every step keeps the types.
LEMMA InputTypeStep ==
  ASSUME InputType, InputNext
  PROVE  InputType'
<1>0. /\ port \in Seq(WireByte)
      /\ ring_buffer \in [RingPlaces -> KeyChar] /\ ring_head \in RingPlaces /\ ring_tail \in RingPlaces
      /\ mods \in Mods /\ g_mouse_cycle \in 0..2
      /\ setup \in Question \cup {"none", "last"}
      /\ caps \in BOOLEAN /\ hand \in [x : Int, left_button : BOOLEAN]
      /\ expected \in Seq(KeyChar) /\ got \in Seq(KeyChar)
  BY Zenon DEF InputType
<1>1. ASSUME NEW k \in Key, KeyPressed(k) PROVE InputType'
  <2>1. port' = port \o Wire(k, FALSE)
    BY <1>1, Zenon DEF KeyPressed, Sends
  <2>2. port' \in Seq(WireByte)
    BY <1>0, <2>1, KeySent
  <2>3. Meant(k) \in Seq(KeyChar)
    <3>1. \A ch \in KeyChar : <<ch>> \in Seq(KeyChar)
      OBVIOUS
    <3>2. <<>> \in Seq(KeyChar)
      OBVIOUS
    <3>3. {"c", "C", "1", "!", "^C"} \subseteq KeyChar
      BY DEF KeyChar
    <3>4. Meant(k) \in {<<"^C">>, <<"C">>, <<"c">>, <<"!">>, <<"1">>, <<>>}
      BY DEF Meant
    <3>. QED
      BY <3>1, <3>2, <3>3, <3>4
  <2>4. expected' = expected \o Meant(k) /\ caps' = (caps # (k = "caps"))
    BY <1>1, Zenon DEF KeyPressed
  <2>5. expected' \in Seq(KeyChar) /\ caps' \in BOOLEAN
    BY <1>0, <2>3, <2>4, ConcatProperties
  <2>. QED
    BY <1>0, <1>1, <2>2, <2>5 DEF KeyPressed, InputType, ringVars, mouseVars
<1>2. ASSUME NEW k \in Key, KeyReleased(k) PROVE InputType'
  <2>1. port' = port \o Wire(k, TRUE)
    BY <1>2, Zenon DEF KeyReleased, Sends
  <2>2. port' \in Seq(WireByte)
    BY <1>0, <2>1, KeySent
  <2>. QED
    BY <1>0, <1>2, <2>2 DEF KeyReleased, InputType, ringVars, mouseVars
<1>3. ASSUME NEW m \in Motion, MouseMoved(m[1], m[2]) PROVE InputType'
  <2>1. m[1] \in Int /\ m[2] \in BOOLEAN
    BY InputAssumption
  <2>. DEFINE dx == m[1]
              left == m[2]
  <2>. HIDE DEF dx, left
  <2>2. dx \in Int /\ left \in BOOLEAN /\ MouseMoved(dx, left)
    BY <1>3, <2>1 DEF dx, left
  <2>3. port' = port \o MousePacket(dx, left)
    BY <2>2, Zenon DEF MouseMoved, Sends, Flags, MousePacket
  <2>4. port' \in Seq(WireByte)
    <3>. DEFINE q == port'
    <3>1. q = port \o MousePacket(dx, left)
      BY <2>3
    <3>. HIDE DEF q
    <3>2. q \in Seq(WireByte)
      <4>1. dx \in Int /\ left \in BOOLEAN /\ port \in Seq(WireByte)
        BY <1>0, <2>2
      <4>. QED
        BY <3>1, <4>1, PacketSent
    <3>. QED
      BY <3>2 DEF q
  <2>5. hand' \in [x : Int, left_button : BOOLEAN]
    <3>. DEFINE to == hand.x + (IF Overflows(dx) THEN (IF dx < 0 THEN -127 ELSE 127) ELSE dx)
    <3>1. hand' = [x |-> Clamp(to), left_button |-> left]
      BY <2>2, Zenon DEF MouseMoved
    <3>2. to \in Int
      BY <1>0, <2>2
    <3>. HIDE DEF to
    <3>3. Clamp(to) \in Int
      BY <3>2, InputAssumption DEF Clamp
    <3>. QED
      BY <2>2, <3>1, <3>3
  <2>. QED
    BY <1>0, <2>2, <2>4, <2>5 DEF MouseMoved, InputType, ringVars, mouseVars
<1>4. ASSUME keyboard_irq_handler PROVE InputType'
  <2>1. port # <<>> /\ port' = Tail(port) /\ process_scancode(Head(port).byte)
        /\ UNCHANGED <<mouseVars, setup, deviceVars, got, restarts>>
    BY <1>4, Zenon DEF keyboard_irq_handler
  <2>2. UNCHANGED <<g_mouse_cycle, setup, caps, hand, expected, got>>
    BY <2>1 DEF mouseVars, deviceVars
  <2>3. /\ mods' \in Mods
        /\ ring_buffer' \in [RingPlaces -> KeyChar] /\ ring_head' \in RingPlaces /\ ring_tail' \in RingPlaces
    BY <1>0, <2>1, <2>2, HeadByte, RingStep
  <2>4. port' \in Seq(WireByte)
    BY <1>0, <2>1, HeadByte
  <2>. QED
    BY <1>0, <2>2, <2>3, <2>4, Zenon DEF InputType
<1>5. ASSUME mouse_poll PROVE InputType'
  <2>1. /\ port # <<>> /\ port' = Tail(port) /\ process_mouse_byte(Head(port).byte)
        /\ UNCHANGED <<ringVars, mods, setup, deviceVars, got, excuses, restarts>>
    BY <1>5, Zenon DEF mouse_poll
  <2>2. UNCHANGED <<ring_buffer, ring_head, ring_tail, mods, setup, caps, hand, expected, got>>
    BY <2>1 DEF ringVars, deviceVars
  <2>3. g_mouse_cycle' \in 0..2
    <3>1. g_mouse_cycle = 0 \/ g_mouse_cycle = 1 \/ g_mouse_cycle = 2
      BY <1>0
    <3>2. g_mouse_cycle' = 0 \/ g_mouse_cycle' = 1 \/ g_mouse_cycle' = 2
      BY <2>1, <3>1 DEF process_mouse_byte
    <3>. QED
      BY <3>2
  <2>4. port' \in Seq(WireByte)
    BY <1>0, <2>1, HeadByte
  <2>. QED
    BY <1>0, <2>2, <2>3, <2>4, Zenon DEF InputType
<1>6. ASSUME ring_pop PROVE InputType'
  <2>1. ring_tail' \in RingPlaces
    BY <1>0, <1>6, HeldTaken DEF ring_pop, Size
  <2>2. got' \in Seq(KeyChar)
    <3>1. ring_buffer[ring_tail] \in KeyChar
      BY <1>0
    <3>. QED
      BY <1>0, <1>6, <3>1 DEF ring_pop
  <2>. QED
    BY <1>0, <1>6, <2>1, <2>2 DEF ring_pop, InputType, mouseVars, deviceVars
<1>7. ASSUME mouse_init PROVE InputType'
  <2>1. port' \in Seq(WireByte)
    <3>1. Answer("config") \in WireByte
      BY AnswerByte DEF Question
    <3>. QED
      BY <1>7, <3>1 DEF mouse_init
  <2>2. setup' \in Question
    BY <1>7 DEF mouse_init, Asks, Question
  <2>3. hand' \in [x : Int, left_button : BOOLEAN]
    <3>1. g_screen_width \div 2 \in Int
      BY InputAssumption
    <3>. QED
      BY <1>7, <3>1 DEF mouse_init
  <2>. QED
    BY <1>0, <1>7, <2>1, <2>2, <2>3 DEF mouse_init, InputType, ringVars
<1>8. ASSUME mouse_read PROVE InputType'
  <2>. DEFINE rest == IF port = <<>> THEN <<>> ELSE Tail(port)
              next == CASE setup = "config" -> "defaults" [] setup = "defaults" -> "enable" [] OTHER -> "last"
  <2>1. /\ setup' = next /\ port' = IF next = "last" THEN rest ELSE Append(rest, Answer(next))
        /\ UNCHANGED <<ringVars, mods, mouseVars, deviceVars, got, restarts>>
    BY <1>8, Zenon DEF mouse_read
  <2>2. rest \in Seq(WireByte)
    BY <1>0, HeadByte
  <2>3. next \in {"defaults", "enable", "last"}
    OBVIOUS
  <2>. HIDE DEF rest, next
  <2>4. port' \in Seq(WireByte)
    <3>1. next # "last" => Answer(next) \in WireByte
      BY <2>3, AnswerByte DEF Question
    <3>. QED
      BY <2>1, <2>2, <3>1
  <2>5. setup' \in Question \cup {"none", "last"}
    BY <2>1, <2>3 DEF Question
  <2>. QED
    BY <1>0, <2>1, <2>4, <2>5 DEF InputType, ringVars, mouseVars, deviceVars
<1>9. ASSUME mouse_init_ends PROVE InputType'
  BY <1>0, <1>9 DEF mouse_init_ends, InputType, ringVars, mouseVars, deviceVars
<1>. QED
  BY <1>1, <1>2, <1>3, <1>4, <1>5, <1>6, <1>7, <1>8, <1>9, Zenon DEF InputNext


-----------------------------------------------------------------------------
(* Every step keeps what the bytes lead to.                                *)

\* What the drivers are in stays, if none of it changes.
LEMMA PresentStays ==
  ASSUME NEW s, Present(s), excuses \subseteq excuses',
         UNCHANGED <<mods, g_mouse_packet, g_mouse_cycle, pointer, ring_buffer, ring_head, ring_tail, got>>
  PROVE  Present(s)'
<1>1. /\ mods' = mods /\ g_mouse_packet' = g_mouse_packet /\ g_mouse_cycle' = g_mouse_cycle
      /\ pointer' = pointer /\ ring_buffer' = ring_buffer /\ ring_head' = ring_head
      /\ ring_tail' = ring_tail /\ got' = got
  OBVIOUS
<1>2. MouseNow' = MouseNow /\ TextNow' = TextNow
  BY <1>1, Zenon DEF MouseNow, TextNow, HeldOf
<1>3. excuses' = {} => excuses = {}
  OBVIOUS
<1>. QED
  BY <1>1, <1>2, <1>3, Zenon DEF Present

\* What leads to what the user did still does, if none of that changes.
LEMMA MeetsStays ==
  ASSUME NEW z, Meets(z), excuses \subseteq excuses', UNCHANGED <<down, caps, expected, hand>>
  PROVE  Meets(z)'
<1>1. down' = down /\ caps' = caps /\ expected' = expected /\ hand' = hand
  OBVIOUS
<1>2. Shifted' <=> Shifted
  BY <1>1 DEF Shifted
<1>3. /\ excuses' = {} => excuses = {}
      /\ "both" \notin excuses' => "both" \notin excuses
  OBVIOUS
<1>4. ModsMeet(z.mods)'
  BY <1>1, <1>2, <1>3 DEF Meets, ModsMeet
<1>. QED
  BY <1>1, <1>3, <1>4 DEF Meets

\* An answer changes nothing when it is read.
LEMMA TakenAnswer ==
  ASSUME NEW e \in WireByte, e.answer, NEW s
  PROVE  Taken(e, s).mods = s.mods /\ Taken(e, s).text = s.text /\ Taken(e, s).mouse = s.mouse
BY DEF Taken, Silent

\* A byte is sent by a device, or the state of the drivers is read.
LEMMA BytesSent ==
  ASSUME NEW a, Expects(a), setup' = setup, Answered(port', a), Told => Told'
  PROVE  Expects(a)'
BY Zenon DEF Expects

\* A handler has taken the first byte.
LEMMA HeadGone ==
  ASSUME InputType, NEW a, Expects(a), port # <<>>, port' = Tail(port), setup' = setup,
         Told /\ ~Head(port).answer => Told'
  PROVE  \E a2 : Expects(a2)'
<1>1. port \in Seq(WireByte)
  BY Zenon DEF InputType
<1>2. /\ Answered(port, a) /\ (setup \notin Question => a = 0)
      /\ (setup \in Question /\ a = 0) \/ Told
  BY Zenon DEF Expects
<1>3. /\ Head(port).answer <=> a = 1
      /\ a <= 1 => Answered(port', 0)
      /\ a > 1 => Answered(port', a - 1)
  BY <1>1, <1>2, AnsweredTail
<1>4. a \in Nat
  BY <1>1, <1>2 DEF Answered
<1>5. CASE a = 1
  <2>1. setup' \in Question /\ Answered(port', 0)
    BY <1>2, <1>3, <1>5
  <2>2. Expects(0)'
    BY <2>1, Zenon DEF Expects
  <2>. QED
    BY <2>2
<1>6. CASE a = 0
  <2>1. Answered(port', 0) /\ ~Head(port).answer
    BY <1>3, <1>6
  <2>2. Expects(0)'
    BY <2>1, <1>2, <1>6, Zenon DEF Expects
  <2>. QED
    BY <2>2
<1>7. CASE a > 1
  <2>1. Answered(port', a - 1) /\ ~Head(port).answer /\ a # 0 /\ a # 1
    BY <1>3, <1>4, <1>7
  <2>2. Expects(a - 1)'
    BY <2>1, <1>2, Zenon DEF Expects
  <2>. QED
    BY <2>2
<1>. QED
  BY <1>4, <1>5, <1>6, <1>7

\* A key pressed keeps what the port leads to.
LEMMA PressKeeps ==
  ASSUME InputType, TwoShifts, NEW k \in Key, KeyPressed(k), NEW a, Expects(a)
  PROVE  Expects(a)' /\ TwoShifts'
<1>1. port' = port \o Wire(k, FALSE) /\ port \in Seq(WireByte)
  BY Zenon DEF KeyPressed, Sends, InputType
<1>2. /\ excuses \subseteq excuses' /\ setup' = setup
      /\ UNCHANGED <<mods, g_mouse_packet, g_mouse_cycle, pointer, ring_buffer, ring_head, ring_tail, got>>
  BY DEF KeyPressed, ringVars, mouseVars
<1>3. Answered(port', a)
  BY <1>1, KeySent, Zenon DEF Expects
<1>4. ASSUME Told PROVE Told'
  <2>1. PICK s, z : Present(s) /\ Meets(z) /\ Reaches(port, s, z)
    BY <1>4, Zenon DEF Told
  <2>. DEFINE y == KeyTaken(k, FALSE, z)
  <2>2. Sane(z) /\ Reaches(port', s, y)
    BY <1>1, <2>1, KeySent, Zenon
  <2>3. ~z.mods.e0
    BY <2>1, Zenon DEF Meets, ModsMeet
  <2>4. KeyDoes(k, FALSE, z, y)
    BY <2>2, <2>3, KeyEffect
  <2>. HIDE DEF y
  <2>5. Meets(y)'
    BY <2>1, <2>2, <2>4, PressMeets
  <2>6. Present(s)'
    BY <1>2, <2>1, PresentStays
  <2>. QED
    BY <2>2, <2>5, <2>6, Zenon DEF Told
<1>5. Expects(a)'
  BY <1>2, <1>3, <1>4, BytesSent
<1>6. TwoShifts'
  BY DEF TwoShifts, KeyPressed
<1>. QED
  BY <1>5, <1>6

\* A key released does.
LEMMA ReleaseKeeps ==
  ASSUME InputType, TwoShifts, NEW k \in Key, KeyReleased(k), NEW a, Expects(a)
  PROVE  Expects(a)' /\ TwoShifts'
<1>1. port' = port \o Wire(k, TRUE) /\ port \in Seq(WireByte)
  BY Zenon DEF KeyReleased, Sends, InputType
<1>2. /\ excuses \subseteq excuses' /\ setup' = setup
      /\ UNCHANGED <<mods, g_mouse_packet, g_mouse_cycle, pointer, ring_buffer, ring_head, ring_tail, got>>
  BY DEF KeyReleased, ringVars, mouseVars
<1>3. Answered(port', a)
  BY <1>1, KeySent, Zenon DEF Expects
<1>4. ASSUME Told PROVE Told'
  <2>1. PICK s, z : Present(s) /\ Meets(z) /\ Reaches(port, s, z)
    BY <1>4, Zenon DEF Told
  <2>. DEFINE y == KeyTaken(k, TRUE, z)
  <2>2. Sane(z) /\ Reaches(port', s, y)
    BY <1>1, <2>1, KeySent, Zenon
  <2>3. ~z.mods.e0
    BY <2>1, Zenon DEF Meets, ModsMeet
  <2>4. KeyDoes(k, TRUE, z, y)
    BY <2>2, <2>3, KeyEffect
  <2>. HIDE DEF y
  <2>5. Meets(y)'
    BY <2>1, <2>2, <2>4, ReleaseMeets
  <2>6. Present(s)'
    BY <1>2, <2>1, PresentStays
  <2>. QED
    BY <2>2, <2>5, <2>6, Zenon DEF Told
<1>5. Expects(a)'
  BY <1>2, <1>3, <1>4, BytesSent
<1>6. TwoShifts'
  BY DEF TwoShifts, KeyReleased
<1>. QED
  BY <1>5, <1>6

\* A motion does.
LEMMA MotionKeeps ==
  ASSUME InputType, TwoShifts, NEW dx \in Int, NEW left \in BOOLEAN, MouseMoved(dx, left),
         NEW a, Expects(a)
  PROVE  Expects(a)' /\ TwoShifts'
<1>1. port' = port \o MousePacket(dx, left) /\ port \in Seq(WireByte)
  BY Zenon DEF MouseMoved, Sends, Flags, MousePacket, InputType
<1>2. /\ excuses' = excuses /\ down' = down /\ setup' = setup
      /\ UNCHANGED <<mods, g_mouse_packet, g_mouse_cycle, pointer, ring_buffer, ring_head, ring_tail, got>>
  BY DEF MouseMoved, ringVars, mouseVars
<1>. DEFINE q == port'
<1>3. q = port \o MousePacket(dx, left)
  BY <1>1
<1>. HIDE DEF q
<1>4. /\ Answered(q, a)
      /\ \A s, z : Reaches(port, s, z) => Sane(z) /\ Reaches(q, s, PacketTaken(dx, left, z))
  <2>1. Answered(port, a)
    BY Zenon DEF Expects
  <2>. QED
    BY <1>1, <1>3, <2>1, PacketSent, Zenon
<1>5. ASSUME Told PROVE Told'
  <2>1. PICK s, z : Present(s) /\ Meets(z) /\ Reaches(port, s, z)
    BY <1>5, Zenon DEF Told
  <2>. DEFINE y == PacketTaken(dx, left, z)
  <2>2. Reaches(port', s, y)
    BY <1>4, <2>1, Zenon DEF q
  <2>3. Meets(y)'
    BY <2>1, PacketMeets
  <2>. HIDE DEF y
  <2>4. Present(s)'
    BY <1>2, <2>1, PresentStays
  <2>. QED
    BY <2>2, <2>3, <2>4, Zenon DEF Told
<1>6. Expects(a)'
  BY <1>2, <1>4, <1>5, BytesSent DEF q
<1>7. TwoShifts'
  BY <1>2, Zenon DEF TwoShifts
<1>. QED
  BY <1>6, <1>7


\* The keyboard's handler does.
LEMMA KeyboardKeeps ==
  ASSUME InputType, TwoShifts, keyboard_irq_handler, NEW a, Expects(a)
  PROVE  (\E a2 : Expects(a2)') /\ TwoShifts'
<1>. DEFINE e == Head(port)
<1>1. /\ port # <<>> /\ ~e.aux /\ port' = Tail(port) /\ process_scancode(e.byte)
      /\ UNCHANGED <<g_mouse_packet, g_mouse_cycle, pointer, setup, down, caps, hand, expected, got>>
  BY DEF keyboard_irq_handler, mouseVars, deviceVars
<1>2. port \in Seq(WireByte) /\ e \in WireByte /\ e.byte \in Int
  <2>1. port \in Seq(WireByte)
    BY Zenon DEF InputType
  <2>. QED
    BY <2>1, <1>1, HeadByte
<1>. HIDE DEF e
<1>3. /\ mods' = ModsAfter(e.byte, mods) /\ excuses \subseteq excuses'
      /\ excuses' = {} =>
           TextNow' = IF e.byte >= 128 \/ mods.e0 \/ Ascii(e.byte, mods) = "none" THEN TextNow
                      ELSE Append(TextNow, Ascii(e.byte, mods))
  BY <1>1, <1>2, RingStep
<1>4. ASSUME Told, ~e.answer PROVE Told'
  <2>1. PICK s, z : Present(s) /\ Meets(z) /\ Reaches(port, s, z)
    BY <1>4, Zenon DEF Told
  <2>0. PICK y : y = Taken(e, s)
    OBVIOUS
  <2>2. Sane(s) /\ Reaches(port', y, z)
    BY <1>1, <1>2, <2>0, <2>1, ReachesTail DEF e
  <2>3. /\ s.mods = mods /\ s.mouse = MouseNow /\ (excuses = {} => s.text = TextNow)
    BY <2>1, Zenon DEF Present
  <2>4. /\ y.mods = ModsAfter(e.byte, s.mods) /\ y.mouse = s.mouse
        /\ y.text = IF e.byte >= 128 \/ s.mods.e0 \/ Ascii(e.byte, s.mods) = "none" THEN s.text
                    ELSE Append(s.text, Ascii(e.byte, s.mods))
    BY <1>1, <1>4, <2>0 DEF Taken, Silent
  <2>5. Sane(y)
    BY <1>2, <2>0, <2>2, TakenSane
  <2>6. MouseNow' = MouseNow
    BY <1>1 DEF MouseNow
  <2>7. y.mods = mods' /\ y.mouse = MouseNow'
    BY <1>3, <2>3, <2>4, <2>6
  <2>8. excuses' = {} => y.text = TextNow'
    <3>1. excuses' = {} => excuses = {}
      BY <1>3
    <3>. QED
      BY <3>1, <1>3, <2>3, <2>4, Zenon
  <2>9. Present(y)'
    BY <2>5, <2>7, <2>8, Zenon DEF Present
  <2>10. Meets(z)'
    BY <1>1, <1>3, <2>1, MeetsStays
  <2>. QED
    BY <2>2, <2>9, <2>10, Zenon DEF Told
<1>5. \E a2 : Expects(a2)'
  BY <1>1, <1>4, HeadGone DEF e
<1>6. TwoShifts'
  BY <1>1, <1>3 DEF TwoShifts
<1>. QED
  BY <1>5, <1>6

\* The mouse's handler does.
LEMMA MouseKeeps ==
  ASSUME InputType, TwoShifts, mouse_poll, NEW a, Expects(a)
  PROVE  (\E a2 : Expects(a2)') /\ TwoShifts'
<1>. DEFINE e == Head(port)
<1>1. /\ port # <<>> /\ e.aux /\ port' = Tail(port) /\ process_mouse_byte(e.byte)
      /\ UNCHANGED <<ring_buffer, ring_head, ring_tail, mods, setup, down, caps, hand, expected, got,
                     excuses>>
  BY DEF mouse_poll, ringVars, deviceVars
<1>2. port \in Seq(WireByte) /\ e \in WireByte /\ g_mouse_cycle \in 0..2
  <2>1. port \in Seq(WireByte) /\ g_mouse_cycle \in 0..2
    BY Zenon DEF InputType
  <2>. QED
    BY <2>1, <1>1, HeadByte
<1>. HIDE DEF e
<1>3. MouseNow' = MouseAfter(e.byte, MouseNow)
  <2>. DEFINE b == e.byte
  <2>. HIDE DEF b
  <2>0. process_mouse_byte(b)
    BY <1>1 DEF b
  <2>1. CASE g_mouse_cycle = 0
    <3>1. /\ g_mouse_cycle' = IF Bit(b, 8) THEN 1 ELSE 0
          /\ g_mouse_packet' = IF Bit(b, 8) THEN <<b, 0>> ELSE g_mouse_packet
          /\ pointer' = pointer
      BY <2>0, <2>1 DEF process_mouse_byte
    <3>. QED
      BY <2>1, <3>1 DEF MouseAfter, MouseNow, b
  <2>2. CASE g_mouse_cycle = 1
    <3>1. /\ g_mouse_cycle' = 2 /\ g_mouse_packet' = [g_mouse_packet EXCEPT ![2] = b]
          /\ pointer' = pointer
      BY <2>0, <2>2 DEF process_mouse_byte
    <3>. QED
      BY <2>2, <3>1 DEF MouseAfter, MouseNow, b
  <2>3. CASE g_mouse_cycle = 2
    <3>1. /\ g_mouse_cycle' = 0 /\ g_mouse_packet' = <<0, 0>>
          /\ pointer' = [x |-> Clamp(pointer.x + Delta(g_mouse_packet[1], g_mouse_packet[2])),
                         left_button |-> Bit(g_mouse_packet[1], 1)]
      BY <2>0, <2>3 DEF process_mouse_byte
    <3>. QED
      BY <2>3, <3>1 DEF MouseAfter, MouseNow, b
  <2>. QED
    BY <2>1, <2>2, <2>3, <1>2
<1>4. ASSUME Told, ~e.answer PROVE Told'
  <2>1. PICK s, z : Present(s) /\ Meets(z) /\ Reaches(port, s, z)
    BY <1>4, Zenon DEF Told
  <2>0. PICK y : y = Taken(e, s)
    OBVIOUS
  <2>2. Sane(s) /\ Reaches(port', y, z)
    BY <1>1, <1>2, <2>0, <2>1, ReachesTail DEF e
  <2>3. /\ s.mods = mods /\ s.mouse = MouseNow /\ (excuses = {} => s.text = TextNow)
    BY <2>1, Zenon DEF Present
  <2>4. y.mods = s.mods /\ y.mouse = MouseAfter(e.byte, s.mouse) /\ y.text = s.text
    BY <1>1, <1>4, <2>0 DEF Taken, Silent
  <2>5. Sane(y)
    BY <1>2, <2>0, <2>2, TakenSane
  <2>6. TextNow' = TextNow /\ mods' = mods /\ excuses' = excuses
    <3>1. /\ ring_buffer' = ring_buffer /\ ring_head' = ring_head /\ ring_tail' = ring_tail
          /\ got' = got /\ mods' = mods /\ excuses' = excuses
      BY <1>1
    <3>. QED
      BY <3>1, Zenon DEF TextNow, HeldOf
  <2>7. y.mods = mods' /\ y.mouse = MouseNow' /\ (excuses' = {} => y.text = TextNow')
    BY <1>3, <2>3, <2>4, <2>6, Zenon
  <2>8. Present(y)'
    BY <2>5, <2>7, Zenon DEF Present
  <2>9. Meets(z)'
    BY <1>1, <2>1, MeetsStays
  <2>. QED
    BY <2>2, <2>8, <2>9, Zenon DEF Told
<1>5. \E a2 : Expects(a2)'
  BY <1>1, <1>4, HeadGone DEF e
<1>6. TwoShifts'
  BY <1>1 DEF TwoShifts
<1>. QED
  BY <1>5, <1>6

\* A read does.
LEMMA ReadKeeps ==
  ASSUME InputType, TwoShifts, ring_pop, NEW a, Expects(a)
  PROVE  Expects(a)' /\ TwoShifts'
<1>1. /\ ring_head # ring_tail /\ got' = Append(got, ring_buffer[ring_tail])
      /\ ring_tail' = (ring_tail + 1) % Size
      /\ UNCHANGED <<port, ring_buffer, ring_head, mods, g_mouse_packet, g_mouse_cycle, pointer, setup,
                     down, caps, hand, expected, excuses>>
  BY DEF ring_pop, mouseVars, deviceVars, Size
<1>2. /\ ring_buffer \in [RingPlaces -> KeyChar] /\ ring_head \in RingPlaces /\ ring_tail \in RingPlaces
      /\ got \in Seq(KeyChar)
  BY Zenon DEF InputType
<1>. DEFINE one == <<ring_buffer[ring_tail]>>
            next == (ring_tail + 1) % Size
            rest == HeldOf(ring_buffer, ring_head, next)
<1>3. /\ next \in RingPlaces /\ ring_buffer[ring_tail] \in KeyChar
      /\ HeldOf(ring_buffer, ring_head, ring_tail) = one \o rest
  BY <1>1, <1>2, HeldTaken
<1>4. rest \in Seq(KeyChar) /\ one \in Seq(KeyChar)
  BY <1>2, <1>3, HeldSound
<1>5. got' = got \o one
  BY <1>1, <1>2, <1>3, AppendIsConcat
<1>6. TextNow' = got' \o rest
  <2>1. ring_buffer' = ring_buffer /\ ring_head' = ring_head /\ ring_tail' = next
    BY <1>1
  <2>. QED
    BY <2>1, Zenon DEF TextNow, HeldOf
<1>7. TextNow' = TextNow
  <2>. HIDE DEF one, rest, next
  <2>1. (got \o one) \o rest = got \o (one \o rest)
    BY <1>2, <1>4, ConcatAssociative
  <2>2. TextNow = got \o HeldOf(ring_buffer, ring_head, ring_tail)
    BY Zenon DEF TextNow
  <2>. QED
    BY <1>3, <1>5, <1>6, <2>1, <2>2
<1>8. ASSUME Told PROVE Told'
  <2>1. PICK s, z : Present(s) /\ Meets(z) /\ Reaches(port, s, z)
    BY <1>8, Zenon DEF Told
  <2>2. Meets(z)'
    BY <1>1, <2>1, MeetsStays
  <2>3. Present(s)'
    <3>1. MouseNow' = MouseNow /\ mods' = mods /\ excuses' = excuses
      BY <1>1 DEF MouseNow
    <3>. QED
      BY <2>1, <3>1, <1>7, Zenon DEF Present
  <2>4. Reaches(port', s, z)
    BY <1>1, <2>1
  <2>. QED
    BY <2>2, <2>3, <2>4, Zenon DEF Told
<1>9. Expects(a)'
  <2>1. Answered(port', a) /\ setup' = setup
    BY <1>1, Zenon DEF Expects
  <2>. QED
    BY <2>1, <1>8, BytesSent
<1>10. TwoShifts'
  BY <1>1 DEF TwoShifts
<1>. QED
  BY <1>9, <1>10


\* With nothing in the port the drivers follow already.
LEMMA NothingLeft ==
  ASSUME NEW s, NEW z, Reaches(<<>>, s, z)
  PROVE  s = z
<1>1. PICK c : Passes(<<>>, s, z, c)
  BY DEF Reaches
<1>. QED
  BY <1>1 DEF Passes

\* mouse_init starts: it throws nothing away only if the port is empty.
LEMMA InitKeeps ==
  ASSUME InputType, TwoShifts, mouse_init, ~Stray', NEW a, Expects(a)
  PROVE  Expects(1)' /\ TwoShifts'
<1>1. /\ setup = "none" /\ setup' = "config" /\ port' = <<Answer("config")>>
      /\ pointer' = hand' /\ g_mouse_cycle' = 0 /\ g_mouse_packet' = g_mouse_packet
      /\ excuses' = Flushed
      /\ UNCHANGED <<ring_buffer, ring_head, ring_tail, mods, down, caps, expected, got>>
  BY DEF mouse_init, Asks, ringVars
<1>2. port = <<>> /\ excuses' = excuses
  BY <1>1 DEF Flushed, Stray
<1>3. Told
  BY <1>1, Zenon DEF Expects, Question
<1>4. PICK s, z : Present(s) /\ Meets(z) /\ Reaches(port, s, z)
  BY <1>3, Zenon DEF Told
<1>5. s = z
  BY <1>2, <1>4, NothingLeft
<1>6. PICK y : y = [mods |-> s.mods, text |-> s.text, mouse |-> MouseNow']
  OBVIOUS
<1>7. PICK e : e = Answer("config")
  OBVIOUS
<1>8. e \in WireByte /\ e.answer
  BY <1>7, AnswerByte DEF Question
<1>9. PICK w : w = Taken(e, y)
  OBVIOUS
<1>10. y.mods = s.mods /\ y.text = s.text /\ y.mouse = MouseNow'
  BY <1>6
<1>11. /\ MouseNow'.cycle = 0 /\ MouseNow'.pointer = hand'
  BY <1>1 DEF MouseNow
<1>12. /\ Sane(s) /\ s.mods = mods /\ (excuses = {} => s.text = TextNow)
  BY <1>4, Zenon DEF Present
<1>13. Sane(y)
  BY <1>10, <1>11, <1>12 DEF Sane
<1>14. Present(y)'
  <2>1. TextNow' = TextNow
    <3>1. /\ ring_buffer' = ring_buffer /\ ring_head' = ring_head /\ ring_tail' = ring_tail
          /\ got' = got
      BY <1>1
    <3>. QED
      BY <3>1, Zenon DEF TextNow, HeldOf
  <2>2. mods' = mods
    BY <1>1
  <2>. QED
    BY <1>2, <1>10, <1>12, <1>13, <2>1, <2>2, Zenon DEF Present
<1>15. Meets(w)'
  <2>1. w.mods = s.mods /\ w.text = s.text /\ w.mouse = MouseNow'
    BY <1>8, <1>9, <1>10, TakenAnswer
  <2>2. ModsMeet(s.mods) /\ (excuses = {} => s.text = expected)
    BY <1>4, <1>5, Zenon DEF Meets
  <2>3. down' = down /\ caps' = caps /\ expected' = expected
    BY <1>1
  <2>4. Shifted' <=> Shifted
    BY <2>3 DEF Shifted
  <2>5. ModsMeet(w.mods)'
    BY <1>2, <2>1, <2>2, <2>3, <2>4 DEF ModsMeet
  <2>. QED
    BY <1>2, <1>11, <2>1, <2>2, <2>3, <2>5 DEF Meets
<1>16. Reaches(port', y, w)
  <2>1. Reaches(<<>>, y, y)
    BY <1>13, ReachesNothing
  <2>2. <<>> \in Seq(WireByte) /\ Append(<<>>, e) = <<e>>
    BY <1>8
  <2>3. Reaches(Append(<<>>, e), y, w)
    BY <1>8, <1>9, <2>1, <2>2, ReachesAppend
  <2>. QED
    BY <1>1, <1>7, <2>2, <2>3
<1>17. Told'
  BY <1>14, <1>15, <1>16, Zenon DEF Told
<1>18. Answered(port', 1)
  BY <1>1, <1>7, <1>8 DEF Answered
<1>19. Expects(1)'
  BY <1>1, <1>17, <1>18, Zenon DEF Expects, Question
<1>20. TwoShifts'
  BY <1>1, <1>2 DEF TwoShifts
<1>. QED
  BY <1>19, <1>20

\* mouse_init reads a byte: its answer, or it is lost.
LEMMA AnswerKeeps ==
  ASSUME InputType, TwoShifts, mouse_read, ~Stray', NEW a, Expects(a)
  PROVE  (\E a2 : Expects(a2)') /\ TwoShifts'
<1>. DEFINE next == CASE setup = "config" -> "defaults" [] setup = "defaults" -> "enable" [] OTHER -> "last"
<1>1. /\ setup \in Question /\ setup' = next
      /\ port # <<>> /\ Head(port) = Answer(setup) /\ excuses' = excuses
      /\ port' = IF next = "last" THEN Tail(port) ELSE Append(Tail(port), Answer(next))
  <2>1. /\ setup \in Question /\ setup' = next
        /\ port' = IF next = "last" THEN IF port = <<>> THEN <<>> ELSE Tail(port)
                   ELSE Append(IF port = <<>> THEN <<>> ELSE Tail(port), Answer(next))
        /\ excuses' = excuses \cup
                        IF port # <<>> /\ Head(port) = Answer(setup) THEN {} ELSE {"stolen"}
    BY Zenon DEF mouse_read, Question
  <2>2. port # <<>> /\ Head(port) = Answer(setup)
    BY <2>1 DEF Stray
  <2>. QED
    BY <2>1, <2>2
<1>2. UNCHANGED <<ring_buffer, ring_head, ring_tail, mods, g_mouse_packet, g_mouse_cycle, pointer,
                  down, caps, hand, expected, got>>
  BY DEF mouse_read, ringVars, mouseVars, deviceVars
<1>3. next \in {"defaults", "enable", "last"} /\ (next # "last" => next \in Question)
  BY DEF Question
<1>. HIDE DEF next
<1>4. PICK e : e = Head(port)
  OBVIOUS
<1>5. PICK rest : rest = Tail(port)
  OBVIOUS
<1>6. port \in Seq(WireByte) /\ rest \in Seq(WireByte) /\ e \in WireByte /\ e.answer
  <2>1. port \in Seq(WireByte)
    BY Zenon DEF InputType
  <2>2. Tail(port) \in Seq(WireByte) /\ Head(port) \in WireByte
    BY <2>1, <1>1, HeadByte
  <2>3. Answer(setup).answer
    BY <1>1, AnswerByte
  <2>. QED
    BY <2>1, <2>2, <2>3, <1>1, <1>4, <1>5
<1>7. a = 1 /\ Answered(rest, 0)
  <2>1. Answered(port, a)
    BY Zenon DEF Expects
  <2>2. (Head(port).answer <=> a = 1) /\ (a <= 1 => Answered(Tail(port), 0))
    BY <1>1, <1>6, <2>1, AnsweredTail
  <2>. QED
    BY <2>2, <1>4, <1>5, <1>6
<1>8. Told
  <2>1. a # 0
    BY <1>7
  <2>. QED
    BY <2>1, <1>1, Zenon DEF Expects
<1>9. PICK s, z : Present(s) /\ Meets(z) /\ Reaches(port, s, z)
  BY <1>8, Zenon DEF Told
<1>10. PICK y : y = Taken(e, s)
  OBVIOUS
<1>11. Sane(s) /\ Reaches(rest, y, z)
  BY <1>1, <1>4, <1>5, <1>6, <1>9, <1>10, ReachesTail
<1>12. y.mods = s.mods /\ y.text = s.text /\ y.mouse = s.mouse /\ Sane(y)
  BY <1>6, <1>10, <1>11, TakenAnswer, TakenSane
<1>13. Present(y)'
  <2>1. Present(y)
    BY <1>9, <1>12, Zenon DEF Present
  <2>. QED
    BY <2>1, <1>1, <1>2, PresentStays
<1>14. Meets(z)'
  BY <1>1, <1>2, <1>9, MeetsStays
<1>15. TwoShifts'
  BY <1>1, <1>2 DEF TwoShifts
<1>16. CASE next = "last"
  <2>1. port' = rest /\ setup' \notin Question
    BY <1>1, <1>5, <1>16 DEF Question
  <2>2. Told'
    BY <2>1, <1>11, <1>13, <1>14, Zenon DEF Told
  <2>3. Expects(0)'
    BY <2>1, <2>2, <1>7, Zenon DEF Expects
  <2>. QED
    BY <2>3, <1>15
<1>17. CASE next # "last"
  <2>1. PICK f : f = Answer(next)
    OBVIOUS
  <2>2. f \in WireByte /\ f.answer /\ port' = Append(rest, f) /\ setup' \in Question
    BY <2>1, <1>1, <1>3, <1>5, <1>17, AnswerByte
  <2>3. PICK w : w = Taken(f, z)
    OBVIOUS
  <2>4. Reaches(port', y, w)
    BY <2>2, <2>3, <1>6, <1>11, ReachesAppend
  <2>5. w.mods = z.mods /\ w.text = z.text /\ w.mouse = z.mouse
    BY <2>2, <2>3, TakenAnswer
  <2>6. Meets(w)'
    BY <2>5, <1>14, Zenon DEF Meets
  <2>7. Told'
    BY <2>4, <2>6, <1>13, Zenon DEF Told
  <2>8. Answered(port', Len(rest) + 1)
    BY <2>2, <1>6, <1>7, AnsweredAppend
  <2>9. PICK n : n = Len(rest) + 1
    OBVIOUS
  <2>10. Expects(n)'
    BY <2>2, <2>7, <2>8, <2>9, Zenon DEF Expects
  <2>. QED
    BY <2>10, <1>15
<1>. QED
  BY <1>16, <1>17

\* The end of mouse_init does.
LEMMA EndKeeps ==
  ASSUME InputType, TwoShifts, mouse_init_ends, ~Stray', NEW a, Expects(a)
  PROVE  Expects(a)' /\ TwoShifts'
<1>1. /\ setup = "last" /\ setup' = "none" /\ port' = <<>> /\ excuses' = Flushed
      /\ UNCHANGED <<ring_buffer, ring_head, ring_tail, mods, g_mouse_packet, g_mouse_cycle, pointer,
                     down, caps, hand, expected, got>>
  BY DEF mouse_init_ends, ringVars, mouseVars, deviceVars
<1>2. port = <<>> /\ excuses' = excuses
  BY <1>1 DEF Flushed, Stray
<1>3. setup \notin Question /\ setup' \notin Question
  BY <1>1 DEF Question
<1>4. Told /\ a = 0 /\ Answered(port, a)
  BY <1>3, Zenon DEF Expects
<1>5. PICK s, z : Present(s) /\ Meets(z) /\ Reaches(port, s, z)
  BY <1>4, Zenon DEF Told
<1>6. Present(s)' /\ Meets(z)'
  BY <1>1, <1>2, <1>5, PresentStays, MeetsStays
<1>7. Told'
  <2>1. Reaches(port', s, z)
    BY <1>1, <1>2, <1>5
  <2>. QED
    BY <2>1, <1>6, Zenon DEF Told
<1>8. Expects(a)'
  <2>1. Answered(port', a)
    BY <1>1, <1>2, <1>4
  <2>. QED
    BY <2>1, <1>3, <1>4, <1>7, Zenon DEF Expects
<1>9. TwoShifts'
  BY <1>1, <1>2 DEF TwoShifts
<1>. QED
  BY <1>8, <1>9


-----------------------------------------------------------------------------
(* The theorem.                                                            *)

\* The invariant of the devices holds at boot.
LEMMA InputFirst ==
  ASSUME InputInit
  PROVE  InputInv
<1>1. /\ port = <<>> /\ ring_head = 0 /\ ring_tail = 0
      /\ ring_buffer = [i \in RingPlaces |-> "none"]
      /\ mods = [shift |-> FALSE, ctrl |-> FALSE, alt |-> FALSE, caps |-> FALSE, e0 |-> FALSE]
      /\ g_mouse_cycle = 0 /\ setup = "none" /\ down = {} /\ caps = FALSE
      /\ pointer = [x |-> g_screen_width \div 2, left_button |-> FALSE] /\ hand = pointer
      /\ expected = <<>> /\ got = <<>> /\ excuses = {}
  BY DEF InputInit, RingPlaces, Size
<1>2. 0 \in RingPlaces
  BY SizeIs DEF RingPlaces
<1>3. InputType
  <2>1. mods \in Mods
    BY <1>1 DEF Mods
  <2>2. ring_buffer \in [RingPlaces -> KeyChar]
    BY <1>1 DEF KeyChar
  <2>3. hand \in [x : Int, left_button : BOOLEAN]
    <3>1. g_screen_width \div 2 \in Int
      BY InputAssumption
    <3>. QED
      BY <3>1, <1>1
  <2>. QED
    BY <1>1, <1>2, <2>1, <2>2, <2>3 DEF InputType
<1>4. TwoShifts
  BY <1>1 DEF TwoShifts
<1>5. TextNow = <<>>
  <2>1. Len(HeldOf(ring_buffer, ring_head, ring_tail)) = 0
        /\ HeldOf(ring_buffer, ring_head, ring_tail) \in Seq(KeyChar)
    <3>1. ring_buffer \in [RingPlaces -> KeyChar] /\ ring_head \in RingPlaces /\ ring_tail \in RingPlaces
      BY <1>3, Zenon DEF InputType
    <3>. QED
      BY <3>1, <1>1, HeldSound
  <2>2. HeldOf(ring_buffer, ring_head, ring_tail) = <<>>
    BY <2>1
  <2>3. TextNow = <<>> \o <<>>
    BY <1>1, <2>2, Zenon DEF TextNow
  <2>4. <<>> \in Seq(KeyChar)
    OBVIOUS
  <2>. QED
    BY <2>3, <2>4, ConcatEmptySeq
<1>. DEFINE s == [mods |-> mods, text |-> TextNow, mouse |-> MouseNow]
<1>6. s.mods = mods /\ s.text = TextNow /\ s.mouse = MouseNow
  OBVIOUS
<1>7. MouseNow.cycle = 0 /\ MouseNow.pointer = hand
  BY <1>1 DEF MouseNow
<1>. HIDE DEF s
<1>8. Sane(s)
  <2>1. mods \in Mods
    BY <1>3, Zenon DEF InputType
  <2>. QED
    BY <1>5, <1>6, <1>7, <2>1 DEF Sane
<1>9. Present(s)
  BY <1>6, <1>8, Zenon DEF Present
<1>10. Meets(s)
  <2>1. ModsMeet(s.mods)
    BY <1>1, <1>6 DEF ModsMeet, Shifted
  <2>. QED
    BY <1>1, <1>5, <1>6, <1>7, <2>1 DEF Meets
<1>11. Reaches(port, s, s)
  BY <1>1, <1>8, ReachesNothing
<1>12. Told
  BY <1>9, <1>10, <1>11, Zenon DEF Told
<1>13. Answered(port, 0) /\ setup \notin Question
  BY <1>1 DEF Answered, Question
<1>14. Expects(0)
  BY <1>12, <1>13, Zenon DEF Expects
<1>. QED
  BY <1>3, <1>4, <1>14, Zenon DEF InputInv

\* Every step keeps it.
LEMMA InputStep ==
  ASSUME InputInv, [InputNext]_inputVars
  PROVE  InputInv'
<1>1. InputType /\ TwoShifts /\ (~Stray => \E a : Expects(a))
  BY Zenon DEF InputInv
<1>2. ASSUME InputNext PROVE InputInv'
  <2>1. InputType'
    BY <1>1, <1>2, InputTypeStep
  <2>2. TwoShifts' /\ (~Stray' => ~Stray)
    <3>1. ASSUME NEW k \in Key, KeyPressed(k) \/ KeyReleased(k)
          PROVE  TwoShifts' /\ excuses \subseteq excuses'
      BY <1>1, <3>1 DEF KeyPressed, KeyReleased, TwoShifts
    <3>2. ASSUME \/ \E m \in Motion : MouseMoved(m[1], m[2])
                 \/ mouse_poll \/ ring_pop \/ mouse_init \/ mouse_read \/ mouse_init_ends
          PROVE  down' = down /\ excuses \subseteq excuses'
      BY <3>2 DEF MouseMoved, mouse_poll, ring_pop, mouse_init, mouse_read, mouse_init_ends, deviceVars,
                  Flushed
    <3>3. ASSUME keyboard_irq_handler PROVE down' = down /\ excuses \subseteq excuses'
      BY <3>3 DEF keyboard_irq_handler, deviceVars, process_scancode, ring_push
    <3>4. TwoShifts' /\ excuses \subseteq excuses'
      <4>1. ASSUME down' = down, excuses \subseteq excuses' PROVE TwoShifts'
        BY <1>1, <4>1 DEF TwoShifts
      <4>. QED
        BY <1>2, <3>1, <3>2, <3>3, <4>1, Zenon DEF InputNext
    <3>. QED
      BY <3>4 DEF Stray
  <2>3. ASSUME ~Stray' PROVE \E a : Expects(a)'
    <3>1. PICK a : Expects(a)
      BY <1>1, <2>2, <2>3
    <3>2. ASSUME NEW k \in Key, KeyPressed(k) PROVE \E a2 : Expects(a2)'
      BY <1>1, <3>1, <3>2, PressKeeps
    <3>3. ASSUME NEW k \in Key, KeyReleased(k) PROVE \E a2 : Expects(a2)'
      BY <1>1, <3>1, <3>3, ReleaseKeeps
    <3>4. ASSUME NEW m \in Motion, MouseMoved(m[1], m[2]) PROVE \E a2 : Expects(a2)'
      <4>1. m[1] \in Int /\ m[2] \in BOOLEAN
        BY InputAssumption
      <4>. QED
        BY <1>1, <3>1, <3>4, <4>1, MotionKeeps
    <3>5. ASSUME keyboard_irq_handler PROVE \E a2 : Expects(a2)'
      BY <1>1, <3>1, <3>5, KeyboardKeeps
    <3>6. ASSUME mouse_poll PROVE \E a2 : Expects(a2)'
      BY <1>1, <3>1, <3>6, MouseKeeps
    <3>7. ASSUME ring_pop PROVE \E a2 : Expects(a2)'
      BY <1>1, <3>1, <3>7, ReadKeeps
    <3>8. ASSUME mouse_init PROVE \E a2 : Expects(a2)'
      BY <1>1, <2>3, <3>1, <3>8, InitKeeps
    <3>9. ASSUME mouse_read PROVE \E a2 : Expects(a2)'
      BY <1>1, <2>3, <3>1, <3>9, AnswerKeeps
    <3>10. ASSUME mouse_init_ends PROVE \E a2 : Expects(a2)'
      BY <1>1, <2>3, <3>1, <3>10, EndKeeps
    <3>. QED
      BY <1>2, <3>2, <3>3, <3>4, <3>5, <3>6, <3>7, <3>8, <3>9, <3>10, Zenon DEF InputNext
  <2>. QED
    BY <2>1, <2>2, <2>3, Zenon DEF InputInv
<1>3. ASSUME UNCHANGED inputVars PROVE InputInv'
  <2>1. /\ UNCHANGED <<port, ring_buffer, ring_head, ring_tail, mods, g_mouse_packet, g_mouse_cycle, pointer>>
        /\ UNCHANGED <<setup, down, caps, hand, expected, got, excuses>>
    BY <1>3 DEF inputVars, ringVars, mouseVars, deviceVars
  <2>2. InputType' /\ TwoShifts' /\ (Stray' <=> Stray)
    BY <1>1, <2>1 DEF InputType, TwoShifts, Stray
  <2>3. ASSUME Told PROVE Told'
    <3>1. PICK s, z : Present(s) /\ Meets(z) /\ Reaches(port, s, z)
      BY <2>3, Zenon DEF Told
    <3>2. Present(s)' /\ Meets(z)' /\ Reaches(port', s, z)
      BY <2>1, <3>1, PresentStays, MeetsStays
    <3>. QED
      BY <3>2, Zenon DEF Told
  <2>4. ASSUME NEW a, Expects(a) PROVE Expects(a)'
    <3>1. Answered(port', a) /\ setup' = setup
      BY <2>1, <2>4, Zenon DEF Expects
    <3>. QED
      BY <2>3, <2>4, <3>1, BytesSent
  <2>. QED
    BY <1>1, <2>2, <2>4, Zenon DEF InputInv
<1>. QED
  BY <1>2, <1>3

\* With the port empty and nothing asked, what the bytes lead to is there.
LEMMA InputQuiet ==
  ASSUME InputInv
  PROVE  InputFollows
<1>1. ASSUME Quiet, ~Stray
      PROVE  /\ ModsMeet(mods) /\ mods \in Mods /\ caps \in BOOLEAN
             /\ g_mouse_cycle = 0 /\ pointer = hand
             /\ excuses = {} => got \o RingHolds = expected
  <2>1. port = <<>> /\ setup \notin Question
    BY <1>1 DEF Quiet, Question
  <2>2. PICK a : Expects(a)
    BY <1>1, Zenon DEF InputInv
  <2>3. Told
    BY <2>1, <2>2, Zenon DEF Expects
  <2>4. PICK s, z : Present(s) /\ Meets(z) /\ Reaches(port, s, z)
    BY <2>3, Zenon DEF Told
  <2>5. s = z
    BY <2>1, <2>4, NothingLeft
  <2>6. /\ s.mods = mods /\ s.mouse = MouseNow /\ (excuses = {} => s.text = TextNow)
    BY <2>4, Zenon DEF Present
  <2>7. /\ ModsMeet(mods) /\ MouseNow.cycle = 0 /\ MouseNow.pointer = hand
        /\ excuses = {} => TextNow = expected
    BY <2>4, <2>5, <2>6 DEF Meets
  <2>8. TextNow = got \o RingHolds
    BY Zenon DEF TextNow, HeldOf, RingHolds, Size
  <2>9. mods \in Mods /\ caps \in BOOLEAN
    BY Zenon DEF InputInv, InputType
  <2>. QED
    BY <2>7, <2>8, <2>9 DEF MouseNow
<1>2. /\ excuses = {} => ~Stray
      /\ excuses \subseteq {"both", "full"} => ~Stray
  BY DEF Stray
<1>3. KeysArrive
  BY <1>1, <1>2 DEF KeysArrive
<1>4. PointerFollows
  BY <1>1, <1>2 DEF PointerFollows
<1>5. ModifiersFollow
  <2>. SUFFICES ASSUME Quiet, excuses \subseteq {"both", "full"}
                PROVE  /\ mods.shift => Shifted
                       /\ mods.ctrl = ("ctrl" \in down) /\ mods.alt = ("alt" \in down) /\ mods.caps = caps
                       /\ ~mods.e0
    BY Zenon DEF ModifiersFollow
  <2>1. ModsMeet(mods) /\ mods \in Mods /\ caps \in BOOLEAN
    BY <1>1, <1>2
  <2>2. mods.ctrl \in BOOLEAN /\ mods.alt \in BOOLEAN /\ mods.caps \in BOOLEAN
    BY <2>1, Zenon DEF Mods
  <2>3. /\ mods.shift => Shifted
        /\ mods.ctrl <=> "ctrl" \in down
        /\ mods.alt <=> "alt" \in down
        /\ mods.caps <=> caps
        /\ ~mods.e0
    BY <2>1, Zenon DEF ModsMeet
  <2>. QED
    BY <2>1, <2>2, <2>3
<1>. QED
  BY <1>3, <1>4, <1>5, Zenon DEF InputFollows

\* Bytes still in the port lead the drivers to what the devices have told.
THEOREM InputInvariant == InputSpec => []InputInv
BY InputFirst, InputStep, PTL DEF InputSpec

\* What the drivers report is what the user did with keys and mouse.
THEOREM InputStaysTrue == InputSpec => []InputFollows
BY InputInvariant, InputQuiet, PTL

=============================================================================
