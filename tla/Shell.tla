------------------------------- MODULE Shell -------------------------------
(***************************************************************************)
(* The shell (kernel/shell/shell.cpp) and the terminal on the desktop      *)
(* (gui/wm.cpp): two line editors that share shell_dispatch and its        *)
(* history, and the terminal's screen.                                     *)
(*                                                                         *)
(* Both editors can be entered again while a line of theirs is being       *)
(* executed. Where there is a display the desktop runs from the start, and *)
(* its loop feeds both; the gui command starts it anew inside itself and   *)
(* never returns, and a program's GetMessageA feeds both too. The line is  *)
(* cleared only when its command returns, and tokenize has put string ends *)
(* into it: a NUL below. Commands are told apart by that: gui, run, and    *)
(* the others, which return at once.                                       *)
(* What commands print and the redrawing are left out; shown is the part   *)
(* of the echo that is on the console after the prompt.                    *)
(***************************************************************************)
EXTENDS Integers, Sequences, SequencesExt

CONSTANTS
  Letter,                                   \* printable characters other than blanks and quotes
  Command, Gui, Run, Clear, RootName,       \* names: commands, three of them, files of the root
  MAX_LINE_LEN, MAX_ARGS, HISTORY_MAX,
  TERM_MAX_ROWS, TERM_MAX_COLS,
  TERM_CMD_MAX,                             \* TERM_MAX_COLS - 10
  MaxDepth,                                 \* bound on commands inside commands
  MaxKeys,                                  \* bound on keys
  MaxPrinted                                \* bound on characters printed in the terminal

NUL == "NUL"
Space == " "
Char == Letter \cup {Space, "quote"}
Printable == Char \cup {"[", "A", "B"}

\* TERM_CMD_MAX is 150 and MAX_LINE_LEN is 256, so that a line of the terminal
\* is never cut when it is remembered.
ASSUME ShellAssumption ==
  /\ MAX_LINE_LEN \in Nat /\ MAX_ARGS \in Nat /\ HISTORY_MAX \in Nat \ {0} /\ MAX_ARGS > 1
  /\ TERM_MAX_ROWS \in Nat \ {0} /\ TERM_MAX_COLS \in Nat /\ TERM_MAX_COLS > 1
  /\ Command \subseteq Seq(Letter) /\ \A c \in Command : Len(c) < MAX_LINE_LEN - 1
  /\ {Gui, Run, Clear} \subseteq Command /\ RootName \subseteq Seq(Printable)
  /\ TERM_CMD_MAX \in 1..MAX_LINE_LEN /\ NUL \notin Letter

VARIABLES
  line_buf, history_entries, history_view_idx, ansi_state,
  g_term_cmd, hook, desktop,
  frames,     \* commands that have not returned: which editor's line they are
  shown,      \* the console after the prompt
  typed,      \* the terminal's keys since its line was last empty
  leftover,   \* editors whose line is still the one that is being executed
  past,       \* every line that was dispatched
  keys        \* keys so far

editorVars == <<line_buf, shown>>
historyVars == <<history_entries, history_view_idx, past>>
terminalVars == <<g_term_cmd, typed, hook>>
shellVars == <<editorVars, historyVars, terminalVars, ansi_state, desktop, frames, leftover, keys>>

----------------------------------------------------------------------------
(* tokenize: the words, and the string with an end after each of them.     *)

NoToken == [argv |-> <<>>, buf |-> <<>>, mode |-> "gap"]

TokenStep(t, c) ==
  LET kept == [t EXCEPT !.buf = Append(@, c)]
      ended == [t EXCEPT !.buf = Append(@, NUL), !.mode = "gap"]
      longer == [kept EXCEPT !.argv[Len(t.argv)] = Append(@, c)]
  IN  IF t.mode = "gap"
        THEN IF c = Space \/ Len(t.argv) = MAX_ARGS - 1 THEN kept
             ELSE IF c = "quote" THEN [kept EXCEPT !.argv = Append(@, <<>>), !.mode = "quote"]
             ELSE [kept EXCEPT !.argv = Append(@, <<c>>), !.mode = "word"]
        ELSE IF c = (IF t.mode = "quote" THEN "quote" ELSE Space) THEN ended ELSE longer

tokenize(text) ==
  LET upTo[i \in 0..Len(text)] == IF i = 0 THEN NoToken ELSE TokenStep(upTo[i - 1], text[i])
  IN  upTo[Len(text)]

\* What a function of strings sees of a buffer.
CString(buf) ==
  IF \E i \in DOMAIN buf : buf[i] = NUL
    THEN SubSeq(buf, 1, (CHOOSE i \in DOMAIN buf : buf[i] = NUL /\ \A j \in 1..(i - 1) : buf[j] # NUL) - 1)
    ELSE buf

HasContent(text) == \E i \in DOMAIN text : text[i] # Space

----------------------------------------------------------------------------
(* shell_dispatch.                                                         *)

Remembered(text) ==
  IF Len(history_entries) < HISTORY_MAX THEN Append(history_entries, text)
  ELSE Append(Tail(history_entries), text)

\* The history takes the line, unless it is blank.
Remember(text) ==
  IF HasContent(text)
    THEN /\ history_entries' = Remembered(text)
         /\ history_view_idx' = -1
         /\ past' = Append(past, text)
    ELSE UNCHANGED historyVars

\* What a command leaves running: gui returns at once where there is no display.
Starts(text) ==
  LET argv == tokenize(text).argv IN
  IF argv = <<>> THEN "nothing"
  ELSE IF argv[1] = Gui /\ desktop THEN "gui"
  ELSE IF argv[1] = Run THEN "program" ELSE "nothing"

\* The line's buffer after tokenize: the string has ends in it, what follows it does not change.
Torn(buf) ==
  LET text == CString(buf) IN
  IF HasContent(text) THEN tokenize(text).buf \o SubSeq(buf, Len(text) + 1, Len(buf)) ELSE buf

----------------------------------------------------------------------------
(* shell_feed_char, from the keyboard and the serial line.                 *)

\* The text shell reads when no command runs, the desktop's loops whenever they are called.
Listens == (frames = <<>> \/ desktop) /\ keys < MaxKeys /\ keys' = keys + 1

\* Whether the character gets past the escape sequences.
Arrives(c) ==
  /\ Listens
  /\ (ansi_state = 0 /\ c # "esc") \/ (ansi_state = 1 /\ c # "[")
  /\ ansi_state' = 0

feed_escape(c) ==
  /\ Listens
  /\ \/ ansi_state = 0 /\ c = "esc" /\ ansi_state' = 1
     \/ ansi_state = 1 /\ c = "[" /\ ansi_state' = 2
     \/ ansi_state = 2 /\ c \notin {"A", "B"} /\ ansi_state' = 0
  /\ UNCHANGED <<editorVars, historyVars, terminalVars, desktop, frames, leftover>>

\* Each of the line's characters is rubbed out on the console, and another line written.
Replaced(text) ==
  /\ line_buf' = text
  /\ shown' = SubSeq(shown, 1, Len(shown) - Len(line_buf)) \o text
  /\ leftover' = leftover \ {"serial"}

handle_history_up ==
  /\ Listens /\ ansi_state = 2 /\ ansi_state' = 0
  /\ IF history_entries = <<>> THEN UNCHANGED <<editorVars, history_view_idx, leftover>>
     ELSE /\ history_view_idx' = IF history_view_idx = -1 THEN Len(history_entries) - 1
                                 ELSE IF history_view_idx > 0 THEN history_view_idx - 1 ELSE 0
          /\ Replaced(history_entries[history_view_idx' + 1])
  /\ UNCHANGED <<history_entries, past, terminalVars, desktop, frames>>

handle_history_down ==
  /\ Listens /\ ansi_state = 2 /\ ansi_state' = 0
  /\ IF history_view_idx = -1 THEN UNCHANGED <<editorVars, history_view_idx, leftover>>
     ELSE IF history_view_idx < Len(history_entries) - 1
       THEN /\ history_view_idx' = history_view_idx + 1
            /\ Replaced(history_entries[history_view_idx' + 1])
       ELSE history_view_idx' = -1 /\ Replaced(<<>>)
  /\ UNCHANGED <<history_entries, past, terminalVars, desktop, frames>>

\* The last word of the line, and whether it is the first as well.
LastSpace == Max({0} \cup {i \in DOMAIN line_buf : line_buf[i] = Space})
Prefix == SubSeq(line_buf, LastSpace + 1, Len(line_buf))

\* strncmp over the word's length ends where both strings do.
Begins(name) ==
  IF CString(Prefix) = Prefix THEN IsPrefix(Prefix, name) ELSE CString(Prefix) = name

\* A name is completed up to two characters before the end of the buffer.
Completed(name) ==
  LET rest == SubSeq(name, Len(Prefix) + 1, Len(name))
      room == Max({0, MAX_LINE_LEN - 2 - Len(line_buf)})
  IN  SubSeq(rest, 1, Min({Len(rest), room}))

\* The only name that begins like the last word is completed, a command with a
\* blank after it; several commands are listed and the line is written again.
handle_autocomplete ==
  LET first == LastSpace = 0
      names == {n \in IF first THEN Command ELSE RootName : Begins(n)}
      more == IF first THEN Append(Completed(CHOOSE n \in names : TRUE), Space)
              ELSE Completed(CHOOSE n \in names : TRUE)
  IN  /\ Arrives("tab")
      /\ IF Prefix = <<>> \/ names = {} THEN UNCHANGED editorVars
         ELSE IF Cardinality(names) = 1
           THEN line_buf' = line_buf \o more /\ shown' = shown \o more
         ELSE shown' = (IF first THEN CString(line_buf) ELSE shown) /\ UNCHANGED line_buf
      /\ UNCHANGED <<historyVars, terminalVars, desktop, frames, leftover>>

feed_interrupt ==
  /\ Arrives("ctrl_c")
  /\ line_buf' = <<>> /\ shown' = <<>> /\ leftover' = leftover \ {"serial"}
  /\ history_view_idx' = -1
  /\ UNCHANGED <<history_entries, past, terminalVars, desktop, frames>>

feed_redraw ==
  /\ Arrives("ctrl_l")
  /\ shown' = CString(line_buf)
  /\ UNCHANGED <<line_buf, historyVars, terminalVars, desktop, frames, leftover>>

\* Faulty variant: the character stays on the console.
feed_erase_silent ==
  /\ Arrives("erase")
  /\ line_buf' = IF line_buf = <<>> THEN line_buf ELSE Front(line_buf)
  /\ UNCHANGED <<shown, historyVars, terminalVars, desktop, frames, leftover>>

feed_erase ==
  /\ Arrives("erase")
  /\ IF line_buf = <<>> THEN UNCHANGED editorVars
     ELSE /\ line_buf' = Front(line_buf)
          /\ shown' = IF shown = <<>> THEN shown ELSE Front(shown)
  /\ UNCHANGED <<historyVars, terminalVars, desktop, frames, leftover>>

\* A command that returns is gone before the next key; gui and programs stay.
feed_enter ==
  LET text == CString(line_buf)
      what == IF HasContent(text) THEN Starts(text) ELSE "nothing"
  IN  /\ Arrives("enter") /\ Len(frames) < MaxDepth
      /\ Remember(text)
      /\ shown' = <<>>
      /\ line_buf' = IF what = "nothing" THEN <<>> ELSE Torn(line_buf)
      /\ frames' = IF what = "nothing" THEN frames
                   ELSE Append(frames, [editor |-> "serial", what |-> what])
      /\ leftover' = (leftover \ {IF what = "gui" THEN "terminal" ELSE "serial"})
                      \cup IF what = "nothing" THEN {} ELSE {"serial"}
      /\ UNCHANGED desktop
      /\ IF what = "gui" THEN g_term_cmd' = <<>> /\ typed' = <<>> /\ UNCHANGED hook
         ELSE UNCHANGED terminalVars

feed_char(c) ==
  /\ Arrives(c)
  /\ IF Len(line_buf) < MAX_LINE_LEN - 1
       THEN line_buf' = Append(line_buf, c) /\ shown' = Append(shown, c)
       ELSE UNCHANGED editorVars
  /\ UNCHANGED <<historyVars, terminalVars, desktop, frames, leftover>>

----------------------------------------------------------------------------
(* The terminal's keys in wm_update, when its window has the focus.        *)

Focused == desktop /\ Listens

term_char(c) ==
  /\ Focused
  /\ IF Len(g_term_cmd) + 1 < TERM_CMD_MAX
       THEN g_term_cmd' = Append(g_term_cmd, c) /\ typed' = Append(typed, c)
       ELSE UNCHANGED <<g_term_cmd, typed>>
  /\ UNCHANGED <<editorVars, historyVars, hook, ansi_state, desktop, frames, leftover>>

term_erase ==
  /\ Focused
  /\ g_term_cmd' = IF g_term_cmd = <<>> THEN g_term_cmd ELSE Front(g_term_cmd)
  /\ typed' = IF typed = <<>> THEN typed ELSE Front(typed)
  /\ UNCHANGED <<editorVars, historyVars, hook, ansi_state, desktop, frames, leftover>>

term_escape ==
  /\ Focused
  /\ g_term_cmd' = <<>> /\ typed' = <<>> /\ leftover' = leftover \ {"terminal"}
  /\ UNCHANGED <<editorVars, historyVars, hook, ansi_state, desktop, frames>>

HookAfter(what) == what # "nothing"

\* clear is not dispatched; gui clears the line itself.
term_enter ==
  LET text == CString(g_term_cmd)
      dispatched == g_term_cmd # <<>> /\ text # Clear
      what == IF dispatched /\ HasContent(text) THEN Starts(text) ELSE "nothing"
      kept == IF what = "program" THEN {"terminal"} ELSE {}
  IN  /\ Focused /\ Len(frames) < MaxDepth
      /\ IF dispatched THEN Remember(text) /\ hook' = HookAfter(what)
         ELSE UNCHANGED <<historyVars, hook>>
      /\ typed' = <<>>
      /\ g_term_cmd' = IF what = "program" THEN Torn(g_term_cmd) ELSE <<>>
      /\ leftover' = (leftover \ {"terminal"}) \cup kept
      /\ frames' = IF what = "nothing" THEN frames
                   ELSE Append(frames, [editor |-> "terminal", what |-> what])
      /\ UNCHANGED <<editorVars, ansi_state, desktop>>

\* A program returns: the line it was started by is cleared, whatever it has become.
command_returns ==
  LET f == Last(frames) IN
  /\ frames # <<>> /\ f.what = "program"
  /\ frames' = Front(frames)
  /\ IF f.editor = "serial"
       THEN line_buf' = <<>> /\ shown' = <<>> /\ UNCHANGED terminalVars
       ELSE g_term_cmd' = <<>> /\ typed' = <<>> /\ hook' = FALSE /\ UNCHANGED editorVars
  /\ leftover' = leftover \ {f.editor}
  /\ UNCHANGED <<historyVars, ansi_state, desktop, keys>>

----------------------------------------------------------------------------
ShellInit ==
  /\ line_buf = <<>> /\ shown = <<>> /\ history_entries = <<>> /\ history_view_idx = -1
  /\ past = <<>> /\ ansi_state = 0 /\ g_term_cmd = <<>> /\ typed = <<>> /\ hook = FALSE
  /\ desktop \in BOOLEAN /\ frames = <<>> /\ leftover = {} /\ keys = 0

ShellNext ==
  \/ \E c \in Printable \cup {"esc"} : feed_escape(c) \/ feed_char(c)
  \/ handle_history_up \/ handle_history_down \/ handle_autocomplete
  \/ feed_interrupt \/ feed_redraw \/ feed_erase \/ feed_enter
  \/ \E c \in Char : term_char(c)
  \/ term_erase \/ term_escape \/ term_enter \/ command_returns

ShellSpec == ShellInit /\ [][ShellNext]_shellVars

----------------------------------------------------------------------------
(* The terminal's screen: wm_term_putc.  The rows of paper are all that    *)
(* was ever printed.                                                       *)

VARIABLES g_term_lines, g_term_cur, paper, printed

screenVars == <<g_term_lines, g_term_cur, paper, printed>>

wm_term_scroll(lines) ==
  [r \in 1..TERM_MAX_ROWS |-> IF r < TERM_MAX_ROWS THEN lines[r + 1] ELSE <<>>]

\* The screen after a line feed.
Fed(s) ==
  IF s.row + 1 < TERM_MAX_ROWS THEN [s EXCEPT !.row = @ + 1, !.col = 0]
  ELSE [s EXCEPT !.lines = wm_term_scroll(@), !.col = 0]

\* A character goes to the column, and the string ends after it.
Put(s, c) ==
  LET t == IF s.col + 1 >= TERM_MAX_COLS THEN Fed(s) ELSE s IN
  [t EXCEPT !.lines[t.row + 1] = Append(SubSeq(@, 1, t.col), c), !.col = @ + 1]

wm_term_putc(c) ==
  LET s == [lines |-> g_term_lines, row |-> g_term_cur.row, col |-> g_term_cur.col]
      t == CASE c = "cr" -> [s EXCEPT !.col = 0]
             [] c = "lf" -> Fed(s)
             [] c = "erase" -> IF s.col = 0 THEN s
                               ELSE [s EXCEPT !.lines[s.row + 1] = SubSeq(@, 1, s.col - 1), !.col = @ - 1]
             [] OTHER -> Put(s, c)
  IN  /\ g_term_lines' = t.lines
      /\ g_term_cur' = [row |-> t.row, col |-> t.col]

\* Printing on paper that is long enough.
OnPaper(c) ==
  LET n == Len(paper)
      at == IF g_term_cur.col + 1 >= TERM_MAX_COLS THEN Append(paper, <<c>>)
            ELSE [paper EXCEPT ![n] = Append(SubSeq(@, 1, g_term_cur.col), c)]
  IN  CASE c = "cr" -> paper
        [] c = "lf" -> Append(paper, <<>>)
        [] c = "erase" -> IF g_term_cur.col = 0 THEN paper
                          ELSE [paper EXCEPT ![n] = SubSeq(@, 1, g_term_cur.col - 1)]
        [] OTHER -> at

Prints(c) ==
  /\ printed < MaxPrinted /\ printed' = printed + 1
  /\ wm_term_putc(c)
  /\ paper' = OnPaper(c)

ScreenInit ==
  /\ g_term_lines = [r \in 1..TERM_MAX_ROWS |-> <<>>]
  /\ g_term_cur = [row |-> 0, col |-> 0]
  /\ paper = <<<<>>>> /\ printed = 0

ScreenNext == \E c \in Letter \cup {"cr", "lf", "erase"} : Prints(c)

ScreenSpec == ScreenInit /\ [][ScreenNext]_screenVars

----------------------------------------------------------------------------
\* The line has room for its end, whatever is typed, completed or recalled.
\* The exception is a line whose command still runs: tokenize has put string
\* ends into it, so that its first word alone can be completed once more, by a
\* blank that handle_autocomplete writes without looking at the room.
LineFits ==
  /\ Len(line_buf) < MAX_LINE_LEN \/ "serial" \in leftover
  /\ Len(line_buf) <= MAX_LINE_LEN /\ Len(g_term_cmd) < TERM_CMD_MAX

\* What the console shows after the prompt is what Enter will execute, and the
\* terminal executes the keys it was sent; until its command has returned, the
\* line of a running command comes first (shell_feed_char, wm_update).
EchoMatches ==
  /\ "serial" \notin leftover => shown = line_buf /\ CString(line_buf) = line_buf
  /\ "terminal" \notin leftover => typed = g_term_cmd

\* The history is the latest lines of both editors, commands inside commands
\* included, as they were before tokenize, and the view is one of them.
HistoryKept ==
  /\ history_entries = SubSeq(past, Len(past) - Len(history_entries) + 1, Len(past))
  /\ Len(history_entries) = Min({Len(past), HISTORY_MAX})
  /\ history_view_idx \in -1..(Len(history_entries) - 1)

\* Output goes to the terminal's screen only while one of its commands runs.
HookReset == hook => \E i \in DOMAIN frames : frames[i].editor = "terminal"

\* A word of a text goes from a head to the last character before a blank.
IsBlank(text, i) == i = 0 \/ i = Len(text) + 1 \/ text[i] = Space
Running(text, i, j) == \A k \in i..j : ~IsBlank(text, k)
Heads(text) == {i \in DOMAIN text : ~IsBlank(text, i) /\ IsBlank(text, i - 1)}
Before(text, i) == {k \in Heads(text) : k < i}
Nth(text, n) == CHOOSE i \in Heads(text) : Cardinality(Before(text, i)) = n - 1
WordEnd(text, i) == CHOOSE j \in i..Len(text) : IsBlank(text, j + 1) /\ Running(text, i, j)

\* Without quotes, the arguments are the words of the line, up to the limit.
TokensAreWords ==
  LET text == CString(line_buf)
      n == Min({Cardinality(Heads(text)), MAX_ARGS - 1})
  IN  (\A i \in DOMAIN text : text[i] # "quote") =>
        tokenize(text).argv =
          [m \in 1..n |-> SubSeq(text, Nth(text, m), WordEnd(text, Nth(text, m)))]

\* The screen is the end of what was printed, each row within its array
\* (wm_term_putc, wm_term_scroll), with nothing below the cursor's row.
ScreenIsTail ==
  LET n == g_term_cur.row + 1 IN
  /\ g_term_cur.row < TERM_MAX_ROWS /\ g_term_cur.col < TERM_MAX_COLS
  /\ SubSeq(g_term_lines, 1, n) = SubSeq(paper, Len(paper) - n + 1, Len(paper))
  /\ \A r \in 1..TERM_MAX_ROWS :
       Len(g_term_lines[r]) < TERM_MAX_COLS /\ (r > n => g_term_lines[r] = <<>>)

\* Through commands that are run while others run, both editors, the history
\* they share and the terminal's screen agree with what was typed and printed
\* (shell.cpp, wm.cpp).
EditorsAgree ==
  LineFits /\ EchoMatches /\ HistoryKept /\ HookReset /\ TokensAreWords /\ ScreenIsTail

============================================================================
