----------------------------- MODULE MCConsole -----------------------------
(* The desktop, the shell, the terminal's screen and the input devices for *)
(* TLC: one of them moves in each behaviour.                               *)
EXTENDS Desktop, Shell, Input

VARIABLE part

consoleVars == <<part, desktopVars, shellVars, screenVars, inputVars>>

\* The start button, a title bar, a close button and two items of the menu.
MCPoint == {<<50, 10>>, <<300, 70>>, <<850, 70>>, <<200, 100>>, <<200, 190>>}

MCGui == <<"g", "r">>
MCRun == <<"r">>
MCClear == <<"r", "g">>
MCCommand == {MCGui, MCRun, MCClear}
MCRootName == {<<"r", "g">>}

MCMotion == {<<-3, TRUE>>, <<300, FALSE>>}

MCInit ==
  /\ part \in {"desktop", "shell", "screen", "input"}
  /\ DesktopInit /\ ShellInit /\ ScreenInit /\ InputInit
  /\ part # "shell" => desktop

MCNext ==
  \/ part = "desktop" /\ DesktopNext /\ UNCHANGED <<part, shellVars, screenVars, inputVars>>
  \/ part = "shell" /\ ShellNext /\ UNCHANGED <<part, desktopVars, screenVars, inputVars>>
  \/ part = "screen" /\ ScreenNext /\ UNCHANGED <<part, desktopVars, shellVars, inputVars>>
  \/ part = "input" /\ InputNext /\ UNCHANGED <<part, desktopVars, shellVars, screenVars>>

MCSpec ==
  /\ MCInit /\ [][MCNext]_consoleVars
  /\ WF_desktopVars(part = "desktop" /\ wm_run_loop)
  /\ WF_desktopVars(part = "desktop" /\ UpdateStep)

============================================================================
