------------------------------- MODULE Input -------------------------------
(***************************************************************************)
(* Keyboard and mouse (kernel/drivers/keyboard.cpp, mouse.cpp): two        *)
(* interrupt handlers that take bytes from one port.                       *)
(*                                                                         *)
(* The controller queues the bytes of both devices.  Each handler takes    *)
(* those of its own device from the front and stops at the other's; a byte *)
(* is a step here, since nothing can tell how many a call has taken.       *)
(* Scancodes and packets are the numbers on the wire.  mouse_init, which   *)
(* the gui command calls again while interrupts are on, talks to the       *)
(* controller over the same port: its answers and the handlers' bytes can  *)
(* be mistaken for each other.                                             *)
(***************************************************************************)
EXTENDS Integers, Sequences

CONSTANTS
  KEYBOARD_BUFFER_SIZE,
  Key,          \* keys that are used, of those below
  Motion,       \* packets: how far the mouse moved to the right, whether the left button is down
  g_screen_width,
  PortSize,     \* bytes the controller can hold
  MaxEvents,    \* bound on the events of the devices
  Restarts      \* bound on calls of mouse_init

ASSUME InputAssumption ==
  /\ KEYBOARD_BUFFER_SIZE \in Nat \ {0, 1} /\ g_screen_width \in Nat \ {0}
  /\ PortSize \in Nat /\ MaxEvents \in Nat /\ Restarts \in Nat /\ Motion \subseteq Int \X BOOLEAN
  /\ Key \subseteq {"c", "1", "lshift", "rshift", "ctrl", "alt", "caps", "rctrl"}

VARIABLES
  port,         \* bytes the controller holds
  ring_buffer, ring_head, ring_tail,
  mods,         \* shift_pressed, ctrl_pressed, alt_pressed, caps_locked, extended_e0
  g_mouse_packet, g_mouse_cycle,
  pointer,      \* g_mouse_state: x, left_button
  setup,        \* what mouse_init waits for
  down, caps,   \* the keys that are held, and the caps lock light
  hand,         \* where the packets have moved the pointer
  expected,     \* the characters that were typed
  got,          \* the characters that were read
  excuses,      \* what has happened that explains a difference
  events, restarts

deviceVars == <<down, caps, hand, expected, events>>
ringVars == <<ring_buffer, ring_head, ring_tail>>
mouseVars == <<g_mouse_packet, g_mouse_cycle, pointer>>
inputVars == <<port, ringVars, mods, mouseVars, setup, deviceVars, got, excuses, restarts>>

Code(k) ==
  CASE k = "c" -> 46 [] k = "1" -> 2 [] k = "lshift" -> 42 [] k = "rshift" -> 54
    [] k = "ctrl" -> 29 [] k = "alt" -> 56 [] k = "caps" -> 58 [] k = "rctrl" -> 29

\* The code sees aux and byte; nothing tells it an answer to mouse_init from what
\* a device sends.  That is what answer keeps, for excuses alone.
FromKey(b) == [aux |-> FALSE, byte |-> b, answer |-> FALSE]
FromMouse(b) == [aux |-> TRUE, byte |-> b, answer |-> FALSE]
Bit(b, mask) == (b \div mask) % 2 = 1

----------------------------------------------------------------------------
(* The devices.                                                            *)

Shifted == {"lshift", "rshift"} \cap down # {}

\* What the user means by pressing a key.
Meant(k) ==
  IF "ctrl" \in down THEN (IF k = "c" THEN <<"^C">> ELSE <<>>)
  ELSE CASE k = "c" -> IF Shifted # caps THEN <<"C">> ELSE <<"c">>
         [] k = "1" -> IF Shifted THEN <<"!">> ELSE <<"1">>
         [] OTHER -> <<>>

Sends(bytes) ==
  /\ events < MaxEvents /\ events' = events + 1
  /\ Len(port) + Len(bytes) <= PortSize
  /\ port' = port \o bytes

\* Keys that are not among the basic ones send E0 first.
Wire(k, up) ==
  LET code == Code(k) + (IF up THEN 128 ELSE 0) IN
  IF k = "rctrl" THEN <<FromKey(224), FromKey(code)>> ELSE <<FromKey(code)>>

KeyPressed(k) ==
  /\ k \notin down
  /\ Sends(Wire(k, FALSE))
  /\ down' = down \cup {k}
  /\ caps' = (caps # (k = "caps"))
  /\ expected' = expected \o Meant(k)
  /\ excuses' = excuses \cup IF {"lshift", "rshift"} \subseteq down' THEN {"both"} ELSE {}
  /\ UNCHANGED <<ringVars, mods, mouseVars, setup, hand, got, restarts>>

KeyReleased(k) ==
  /\ k \in down
  /\ Sends(Wire(k, TRUE))
  /\ down' = down \ {k}
  /\ UNCHANGED <<ringVars, mods, mouseVars, setup, caps, hand, expected, got, excuses, restarts>>

Clamp(x) == IF x < 0 THEN 0 ELSE IF x >= g_screen_width THEN g_screen_width - 1 ELSE x

\* A packet counts up to 255 to either side, and says so when there was more.
Overflows(dx) == dx < -256 \/ dx > 255

MouseMoved(dx, left) ==
  LET flags == 8 + (IF left THEN 1 ELSE 0) + (IF dx < 0 THEN 16 ELSE 0)
                 + (IF Overflows(dx) THEN 64 ELSE 0)
      steps == IF Overflows(dx) THEN (IF dx < 0 THEN -127 ELSE 127) ELSE dx
  IN  /\ Sends(<<FromMouse(flags), FromMouse(dx % 256), FromMouse(0)>>)
      /\ hand' = [x |-> Clamp(hand.x + steps), left_button |-> left]
      /\ UNCHANGED <<ringVars, mods, mouseVars, setup, down, caps, expected, got, excuses, restarts>>

----------------------------------------------------------------------------
(* The keyboard's handler.                                                 *)

Room == (ring_head + 1) % KEYBOARD_BUFFER_SIZE # ring_tail

ring_push(c) ==
  IF Room
    THEN /\ ring_buffer' = [ring_buffer EXCEPT ![ring_head] = c]
         /\ ring_head' = (ring_head + 1) % KEYBOARD_BUFFER_SIZE
         /\ UNCHANGED <<ring_tail, excuses>>
    ELSE excuses' = excuses \cup {"full"} /\ UNCHANGED ringVars

\* The character of a scancode, if it has one.
Ascii(b, m) ==
  IF m.ctrl THEN (IF b = 46 THEN "^C" ELSE IF b = 38 THEN "^L" ELSE "none")
  ELSE CASE b = 46 -> IF m.shift # m.caps THEN "C" ELSE "c"
         [] b = 2 -> IF m.shift THEN "!" ELSE "1"
         [] OTHER -> "none"

\* Faulty variant: the code after E0 is taken for a key of its own.
ModsAfterE0(b, m) ==
  CASE b = 224 -> m
    [] b >= 128 -> [m EXCEPT !.shift = @ /\ b \notin {42 + 128, 54 + 128},
                             !.ctrl = @ /\ b # 29 + 128, !.alt = @ /\ b # 56 + 128]
    [] OTHER -> [m EXCEPT !.shift = @ \/ b \in {42, 54}, !.ctrl = @ \/ b = 29,
                          !.alt = @ \/ b = 56, !.caps = @ # (b = 58)]

\* process_scancode, what it does to the modifiers.
ModsAfter(b, m) ==
  CASE b = 224 -> [m EXCEPT !.e0 = TRUE]
    [] b # 224 /\ m.e0 -> [m EXCEPT !.e0 = FALSE]
    [] b >= 128 /\ b # 224 /\ ~m.e0 ->
         [m EXCEPT !.shift = @ /\ b \notin {42 + 128, 54 + 128},
                   !.ctrl = @ /\ b # 29 + 128, !.alt = @ /\ b # 56 + 128]
    [] OTHER -> [m EXCEPT !.shift = @ \/ b \in {42, 54}, !.ctrl = @ \/ b = 29,
                          !.alt = @ \/ b = 56, !.caps = @ # (b = 58)]

process_scancode(b) ==
  /\ mods' = ModsAfter(b, mods)
  /\ IF b >= 128 \/ mods.e0 \/ Ascii(b, mods) = "none" THEN UNCHANGED <<ringVars, excuses>>
     ELSE ring_push(Ascii(b, mods))

\* A byte that is not the keyboard's own is the answer mouse_init waits for.
keyboard_irq_handler ==
  /\ port # <<>> /\ ~Head(port).aux
  /\ port' = Tail(port)
  /\ process_scancode(Head(port).byte)
  /\ UNCHANGED <<mouseVars, setup, deviceVars, got, restarts>>

ring_pop ==
  /\ ring_head # ring_tail
  /\ got' = Append(got, ring_buffer[ring_tail])
  /\ ring_tail' = (ring_tail + 1) % KEYBOARD_BUFFER_SIZE
  /\ UNCHANGED <<port, ring_buffer, ring_head, mods, mouseVars, setup, deviceVars, excuses, restarts>>

----------------------------------------------------------------------------
(* The mouse's handler.                                                    *)

Delta(flags, b) ==
  IF Bit(flags, 64) THEN (IF Bit(flags, 16) THEN -127 ELSE 127)
  ELSE IF Bit(flags, 16) THEN b - 256 ELSE b

\* The first byte of a packet has bit 3 set; any other is skipped.
process_mouse_byte(b) ==
  CASE g_mouse_cycle = 0 ->
         /\ g_mouse_cycle' = IF Bit(b, 8) THEN 1 ELSE 0
         /\ g_mouse_packet' = IF Bit(b, 8) THEN <<b, 0>> ELSE g_mouse_packet
         /\ UNCHANGED pointer
    [] g_mouse_cycle = 1 ->
         /\ g_mouse_cycle' = 2
         /\ g_mouse_packet' = [g_mouse_packet EXCEPT ![2] = b]
         /\ UNCHANGED pointer
    [] g_mouse_cycle = 2 ->
         /\ g_mouse_cycle' = 0
         /\ g_mouse_packet' = <<0, 0>>
         /\ pointer' = [x |-> Clamp(pointer.x + Delta(g_mouse_packet[1], g_mouse_packet[2])),
                        left_button |-> Bit(g_mouse_packet[1], 1)]

mouse_poll ==
  /\ port # <<>> /\ Head(port).aux
  /\ port' = Tail(port)
  /\ process_mouse_byte(Head(port).byte)
  /\ UNCHANGED <<ringVars, mods, setup, deviceVars, got, excuses, restarts>>

----------------------------------------------------------------------------
(* mouse_init: the state is reset and the port emptied, then three         *)
(* questions are asked and a byte is read after each, whatever it is; a    *)
(* handler may have taken the answer, then the wait times out.             *)

Answer(question) ==
  IF question = "config" THEN [FromKey(71) EXCEPT !.answer = TRUE]
  ELSE [FromMouse(250) EXCEPT !.answer = TRUE]

Flushed == excuses \cup (IF port = <<>> THEN {} ELSE {"flushed"})

Asks(question) == setup' = question

mouse_init ==
  /\ setup = "none" /\ restarts < Restarts /\ restarts' = restarts + 1
  /\ pointer' = [x |-> g_screen_width \div 2, left_button |-> FALSE]
  /\ hand' = [x |-> g_screen_width \div 2, left_button |-> FALSE]
  /\ g_mouse_cycle' = 0 /\ UNCHANGED g_mouse_packet
  /\ excuses' = Flushed
  /\ port' = <<Answer("config")>>
  /\ Asks("config")
  /\ UNCHANGED <<ringVars, mods, down, caps, expected, events, got>>

\* The byte that is read is the answer, another device's byte, or a handler has it.
mouse_read ==
  LET rest == IF port = <<>> THEN <<>> ELSE Tail(port)
      mine == port # <<>> /\ Head(port) = Answer(setup)
      next == CASE setup = "config" -> "defaults" [] setup = "defaults" -> "enable" [] OTHER -> "last"
  IN  /\ setup \in {"config", "defaults", "enable"}
      /\ setup' = next
      /\ port' = IF next = "last" THEN rest ELSE Append(rest, Answer(next))
      /\ excuses' = excuses \cup IF mine THEN {} ELSE {"stolen"}
      /\ UNCHANGED <<ringVars, mods, mouseVars, deviceVars, got, restarts>>

\* What is left in the port is thrown away.
mouse_init_ends ==
  /\ setup = "last" /\ setup' = "none"
  /\ port' = <<>>
  /\ excuses' = Flushed
  /\ UNCHANGED <<ringVars, mods, mouseVars, deviceVars, got, restarts>>

----------------------------------------------------------------------------
InputInit ==
  /\ port = <<>>
  /\ ring_buffer = [i \in 0..(KEYBOARD_BUFFER_SIZE - 1) |-> "none"] /\ ring_head = 0 /\ ring_tail = 0
  /\ mods = [shift |-> FALSE, ctrl |-> FALSE, alt |-> FALSE, caps |-> FALSE, e0 |-> FALSE]
  /\ g_mouse_packet = <<0, 0>> /\ g_mouse_cycle = 0
  /\ pointer = [x |-> g_screen_width \div 2, left_button |-> FALSE]
  /\ setup = "none" /\ down = {} /\ caps = FALSE /\ hand = pointer
  /\ expected = <<>> /\ got = <<>> /\ excuses = {} /\ events = 0 /\ restarts = 0

InputNext ==
  \/ \E k \in Key : KeyPressed(k) \/ KeyReleased(k)
  \/ \E m \in Motion : MouseMoved(m[1], m[2])
  \/ keyboard_irq_handler \/ mouse_poll \/ ring_pop
  \/ mouse_init \/ mouse_read \/ mouse_init_ends

InputSpec == InputInit /\ [][InputNext]_inputVars

----------------------------------------------------------------------------
Quiet == port = <<>> /\ setup = "none"
RingHolds == [i \in 1..((ring_head - ring_tail) % KEYBOARD_BUFFER_SIZE) |->
                ring_buffer[(ring_tail + i - 1) % KEYBOARD_BUFFER_SIZE]]

\* Once the handlers have caught up, what was read and what the ring holds are
\* the characters that were typed, in their order and with the case of the
\* moment, if the ring had room, no two shift keys were held together and
\* mouse_init neither threw bytes away nor lost its answers.
KeysArrive == Quiet /\ excuses = {} => got \o RingHolds = expected

\* The modifiers are those of the keys that are held: a shift key that is let
\* go does not stay pressed, not even with both (process_scancode).
ModifiersFollow ==
  Quiet /\ excuses \subseteq {"both", "full"} =>
    /\ mods.shift => Shifted
    /\ mods.ctrl = ("ctrl" \in down) /\ mods.alt = ("alt" \in down) /\ mods.caps = caps
    /\ ~mods.e0

\* The pointer is where the packets have moved it, and the next byte is taken
\* for the first of a packet, unless mouse_init's bytes went astray.
PointerFollows ==
  Quiet /\ excuses \subseteq {"both", "full"} => pointer = hand /\ g_mouse_cycle = 0

\* What the drivers report is what the user did with keys and mouse
\* (keyboard.cpp, mouse.cpp), for every order of bytes and interrupts.
InputFollows == KeysArrive /\ ModifiersFollow /\ PointerFollows

============================================================================
