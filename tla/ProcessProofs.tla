--------------------------- MODULE ProcessProofs ---------------------------
(***************************************************************************)
(* Proofs about Process for every table size, quantum, set of frames and   *)
(* bound on pids, as long as no tick divides process_create between        *)
(* choosing a slot and a pid and writing them into the table.              *)
(*                                                                         *)
(* PidUnique is not inductive: a new process is told apart from the ones   *)
(* in the table because every pid in use is below g_next_pid.              *)
(* UserIsRunning and Terminated rest on where the shell's thread of        *)
(* control can be: in one place at most, so that the process an exit ends, *)
(* and the process a loader starts, are still alive when that happens.     *)
(***************************************************************************)
EXTENDS Process, FiniteSetTheorems, NaturalsInduction, WellFoundedInduction, TLAPS

\* What the table t owes to the next pid n.
Pids(t, n) ==
  /\ t[Shell].pid = 0 /\ t[Shell].state # "UNUSED"
  /\ \A s \in Slot \ {Shell} : t[s].state # "UNUSED" => t[s].pid \in 1..(n - 1)
  /\ \A s \in Slot : t[s].state = "UNUSED" => t[s].pid = 0
  /\ \A s, r \in Slot : /\ t[s].state # "UNUSED" /\ t[r].state # "UNUSED"
                        /\ t[s].pid = t[r].pid
                        => s = r

\* The timer does not tick while process_create has a slot and a pid in hand
\* that the table does not show yet.
Undivided == "found" \notin TickPoints

\* The shell's thread of control is in one place at most: on the processor,
\* under a program it started, or saved in one slot.
InKernel(s) == g_process_table[s].context \in Thread

OneShellThread ==
  /\ cpu \in Thread => frame \in {NoFrame, Nested}
  /\ cpu \in Thread \/ frame \in Slot \cup {Unowned} => \A s \in Slot : ~InKernel(s)
  /\ \A s, r \in Slot : InKernel(s) /\ InKernel(r) => s = r
  /\ cpu = "user" => ~InKernel(cur)

\* The process whose loader_execute call exit would return into is alive.
FrameLive == frame \in Slot => frame # Shell /\ state(frame) \in {"READY", "RUNNING"}

\* The process under construction is still there, and still is the shell's.
NewLive == new.slot \in Slot \ {Shell} /\ state(new.slot) \in {"READY", "RUNNING"}

\* The loader starts the current process, or a program without one.
LoaderLive ==
  /\ cpu = "found" => new.slot \in Reusable /\ new.pid = g_next_pid
  /\ cpu \in {"listed", "created"} => NewLive
  /\ cpu = "loading" => \/ new.slot = NoSlot /\ state(cur) = "RUNNING"
                        \/ new.slot = cur /\ NewLive

\* The same for a loader that the timer interrupted.
SavedLive ==
  \A s \in Slot :
    /\ g_process_table[s].context # "found"
    /\ g_process_table[s].context \in {"listed", "created"} /\ cpu # "lost" => NewLive
    /\ g_process_table[s].context = "loading" => new.slot = NoSlot \/ (new.slot = s /\ s # Shell)

\* If the shell resumed by an exit is not RUNNING, a slot is free for its next program.
ShellReady == cpu = "shell" => state(cur) = "RUNNING" \/ Reusable # {}

\* Where the shell's thread is, and what that implies for the programs.
ThreadInv ==
  OneShellThread /\ FrameLive /\ LoaderLive /\ SavedLive /\ ShellReady /\ UserIsRunning

IInv == Undivided /\ TypeOK /\ Pids(g_process_table, g_next_pid) /\ ThreadInv

-----------------------------------------------------------------------------
(* Choices.                                                                *)

\* A non-empty set of naturals has a least member.
LEMMA LeastNat ==
  ASSUME NEW S \in SUBSET Nat, S # {}
  PROVE  \E x \in S : \A y \in S : x <= y
<1>. DEFINE R == {ss \in Nat \X Nat : ss[1] < ss[2]}
<1>1. IsWellFoundedOn(R, Nat)
  BY NatLessThanWellFounded, Zenon DEF OpToRel
<1>2. PICK x \in S : \A y \in S : <<y, x>> \notin R
  <2>. HIDE DEF R
  <2>. QED
    BY <1>1, WFMin
<1>3. ASSUME NEW y \in S
      PROVE  x <= y
  <2>1. <<y, x>> \in Nat \X Nat /\ ~(y < x)
    BY <1>2
  <2>. QED
    BY <2>1
<1>. QED
  BY <1>3

\* Lowest picks a member.
LEMMA LowestIn ==
  ASSUME NEW S \in SUBSET Nat, S # {}
  PROVE  Lowest(S) \in S
  BY LeastNat DEF Lowest

\* The round robin picks a READY process, or the shell, or nobody.
LEMMA PickNext ==
  ASSUME g_current_proc \in Slot
  PROVE  \/ sched_pick_next = NoSlot
         \/ sched_pick_next \in Slot /\ state(sched_pick_next) \in {"READY", "RUNNING"}
<1>1. CASE ReadySlots # {}
  <2>. DEFINE D == {Distance(s) : s \in ReadySlots}
  <2>1. D \in SUBSET Nat
    <3>. SUFFICES ASSUME NEW s \in ReadySlots
                  PROVE  Distance(s) \in Nat
      OBVIOUS
    <3>1. s - cur - 1 + MAX_PROCESSES \in Nat /\ MAX_PROCESSES \in Nat \ {0}
      BY SizesAssumption DEF ReadySlots, Slot, cur
    <3>. QED
      BY <3>1 DEF Distance
  <2>2. D # {}
    BY <1>1
  <2>3. PICK x \in D : \A y \in D : x <= y
    <3>. HIDE DEF D
    <3>. QED
      BY <2>1, <2>2, LeastNat
  <2>4. \E s \in ReadySlots : \A t \in ReadySlots : Distance(s) <= Distance(t)
    BY <2>3
  <2>5. sched_pick_next \in ReadySlots
    BY <1>1, <2>4 DEF sched_pick_next
  <2>. QED
    BY <2>5 DEF ReadySlots
<1>2. CASE ReadySlots = {}
  <2>1. Shell \in Slot
    BY SizesAssumption DEF Shell, Slot
  <2>. QED
    BY <1>2, <2>1 DEF sched_pick_next, Fallback
<1>. QED
  BY <1>1, <1>2

-----------------------------------------------------------------------------
(* Updates of the table.                                                   *)

\* Changing a slot but neither its pid nor whether it is in use.
LEMMA TouchPids ==
  ASSUME NEW t \in [Slot -> PCB], NEW n \in Nat, Pids(t, n), NEW s \in Slot, NEW p \in PCB,
         p.pid = t[s].pid, p.state = "UNUSED" <=> t[s].state = "UNUSED"
  PROVE  /\ [t EXCEPT ![s] = p] \in [Slot -> PCB]
         /\ Pids([t EXCEPT ![s] = p], n)
  BY DEF Pids

\* Ending a process.
LEMMA EndPids ==
  ASSUME NEW t \in [Slot -> PCB], NEW n \in Nat, Pids(t, n), NEW s \in Slot, t[s].state # "UNUSED"
  PROVE  /\ Ended(t, s) \in [Slot -> PCB]
         /\ Pids(Ended(t, s), n)
         /\ \A r \in Slot : t[r].state # "UNUSED" => Ended(t, s)[r].state # "UNUSED"
<1>. DEFINE p == [t[s] EXCEPT !.state = "ZOMBIE"]
<1>1. p \in PCB /\ p.pid = t[s].pid /\ p.state # "UNUSED"
  BY DEF PCB, ProcessState
<1>2. Ended(t, s) = [t EXCEPT ![s] = p]
  BY DEF Ended
<1>. HIDE DEF p
<1>3. [t EXCEPT ![s] = p] \in [Slot -> PCB] /\ Pids([t EXCEPT ![s] = p], n)
  BY <1>1, TouchPids
<1>4. \A r \in Slot : t[r].state # "UNUSED" => Ended(t, s)[r].state # "UNUSED"
  BY <1>1, <1>2
<1>. QED
  BY <1>2, <1>3, <1>4, Zenon

\* So does changing a time slice (sched_yield, sched_tick, process_waitpid).
LEMMA SlicePids ==
  ASSUME NEW t \in [Slot -> PCB], NEW n \in Nat, Pids(t, n), NEW s \in Slot,
         NEW left \in 0..SCHED_DEFAULT_QUANTUM
  PROVE  /\ [t EXCEPT ![s].time_slice = left] \in [Slot -> PCB]
         /\ Pids([t EXCEPT ![s].time_slice = left], n)
<1>. DEFINE p == [t[s] EXCEPT !.time_slice = left]
<1>1. p \in PCB /\ p.pid = t[s].pid /\ p.state = t[s].state
  BY DEF PCB
<1>2. [t EXCEPT ![s].time_slice = left] = [t EXCEPT ![s] = p]
  OBVIOUS
<1>. HIDE DEF p
<1>. QED
  BY <1>1, <1>2, TouchPids

\* Taking a slot for a new process.
LEMMA InstallPids ==
  ASSUME NEW t \in [Slot -> PCB], NEW n \in Nat \ {0}, Pids(t, n), NEW s \in Slot \ {Shell},
         NEW p \in PCB, p.pid = n, p.state # "UNUSED"
  PROVE  /\ [t EXCEPT ![s] = p] \in [Slot -> PCB]
         /\ Pids([t EXCEPT ![s] = p], n + 1)
<1>. DEFINE u == [t EXCEPT ![s] = p]
<1>1. /\ u \in [Slot -> PCB]
      /\ u[s] = p
      /\ \A r \in Slot \ {s} : u[r] = t[r]
  OBVIOUS
<1>2. Shell \in Slot /\ Shell # s
  BY SizesAssumption DEF Shell, Slot
<1>3. \A r \in Slot : t[r].state # "UNUSED" => t[r].pid \in 0..(n - 1)
  BY DEF Pids
<1>. HIDE DEF u
<1>4. \A r \in Slot \ {Shell} : u[r].state # "UNUSED" => u[r].pid \in 1..n
  BY <1>1 DEF Pids
<1>5. ASSUME NEW r1 \in Slot, NEW r2 \in Slot, u[r1].state # "UNUSED", u[r2].state # "UNUSED",
             u[r1].pid = u[r2].pid
      PROVE  r1 = r2
  BY <1>1, <1>3, <1>5 DEF Pids
<1>6. Pids(u, n + 1)
  BY <1>1, <1>2, <1>4, <1>5 DEF Pids
<1>. QED
  BY <1>1, <1>6 DEF u

\* Giving a slot back.
LEMMA ReapPids ==
  ASSUME NEW t \in [Slot -> PCB], NEW n \in Nat, Pids(t, n), NEW s \in Slot \ {Shell},
         NEW p \in PCB, p.state = "UNUSED", p.pid = 0
  PROVE  /\ [t EXCEPT ![s] = p] \in [Slot -> PCB]
         /\ Pids([t EXCEPT ![s] = p], n)
  BY DEF Pids

-----------------------------------------------------------------------------
(* The invariant.                                                          *)

\* The initial state satisfies it.
LEMMA InitInv == Undivided /\ Init => IInv
<1>. SUFFICES ASSUME Undivided, Init PROVE IInv
  OBVIOUS
<1>1. Shell \in Slot
  BY SizesAssumption DEF Shell, Slot
<1>2. TypeOK
  BY <1>1, SizesAssumption
  DEF Init, TypeOK, PCB, ProcessState, Context, Cpu, Thread, LoaderFrame, NoProcess
<1>3. Pids(g_process_table, g_next_pid)
  BY <1>1 DEF Init, Pids
<1>4. ThreadInv
  BY <1>1 DEF Init, ThreadInv, OneShellThread, InKernel, Thread, FrameLive, LoaderLive, SavedLive,
              ShellReady, UserIsRunning, LoaderFrame, NoFrame, Nested, Unowned, Slot, state, cur
<1>. QED
  BY <1>2, <1>3, <1>4 DEF IInv

\* A control block taken for a new process, ...
LEMMA ListedType ==
  ASSUME NEW p \in PCB, NEW n \in Nat, NEW st \in {"READY", "RUNNING"}
  PROVE  /\ Listed(p, n, st) \in PCB
         /\ Listed(p, n, st).pid = n
         /\ Listed(p, n, st).state = st
         /\ Listed(p, n, st).context = p.context
  BY DEF Listed, PCB, ProcessState

\* ... and what process_create then writes into it.
LEMMA FilledType ==
  ASSUME TypeOK, NEW p \in PCB, NEW context \in Context
  PROVE  /\ Filled(p, context) \in PCB
         /\ Filled(p, context).pid = p.pid
         /\ Filled(p, context).state = p.state
         /\ Filled(p, context).context = context
         /\ AfterNewCr3 \subseteq Frames
<1>1. free # {} => Lowest(free) \in free
  BY LowestIn, FramesAssumption DEF TypeOK
<1>2. NewCr3 \in Frames \cup {KernelPml4}
  BY <1>1 DEF NewCr3, TypeOK
<1>3. pid(cur) \in Nat
  BY DEF pid, cur, PCB, TypeOK
<1>4. SCHED_DEFAULT_QUANTUM \in 0..SCHED_DEFAULT_QUANTUM
  BY SizesAssumption
<1>5. AfterNewCr3 \subseteq Frames
  BY DEF AfterNewCr3, TypeOK
<1>. QED
  BY <1>2, <1>3, <1>4, <1>5 DEF Filled, PCB

\* The slot for a new process is one.
LEMMA ReusableSlot ==
  ASSUME Reusable # {}
  PROVE  Lowest(Reusable) \in Reusable /\ Lowest(Reusable) \in Slot \ {Shell}
<1>1. Reusable \in SUBSET Nat
  BY SizesAssumption DEF Reusable, Slot
<1>. QED
  BY <1>1, LowestIn DEF Reusable

\* Taking a slot, a pid and a page table for a new process.
LEMMA InstallInv ==
  ASSUME IInv, NEW st \in {"READY", "RUNNING"}, NEW context \in Context, Install(st, context)
  PROVE  /\ g_process_table' \in [Slot -> PCB]
         /\ Pids(g_process_table', g_next_pid')
         /\ g_next_pid' \in 1..(MaxPid + 1)
         /\ free' \subseteq Frames
         /\ Lowest(Reusable) \in Reusable
         /\ Lowest(Reusable) \in Slot \ {Shell}
         /\ g_process_table'[Lowest(Reusable)].state = st
         /\ g_process_table'[Lowest(Reusable)].context = context
         /\ g_process_table'[Lowest(Reusable)].pid = g_next_pid
         /\ \A s \in Slot \ {Lowest(Reusable)} : g_process_table'[s] = g_process_table[s]
<1>. DEFINE e == Lowest(Reusable)
            q == Listed(g_process_table[e], g_next_pid, st)
            p == Filled(q, context)
<1>1. e \in Reusable /\ e \in Slot \ {Shell}
  BY ReusableSlot DEF Install
<1>2. q \in PCB /\ q.pid = g_next_pid /\ q.state = st
  <2>1. g_process_table[e] \in PCB /\ g_next_pid \in Nat
    BY <1>1 DEF IInv, TypeOK
  <2>. QED
    BY <2>1, ListedType
<1>3. g_process_table' = [g_process_table EXCEPT ![e] = p] /\ free' = AfterNewCr3
  BY <1>1 DEF Install, IInv, TypeOK
<1>. HIDE DEF q, e
<1>4. /\ p \in PCB /\ p.pid = g_next_pid /\ p.state = st /\ p.context = context
      /\ free' \subseteq Frames
  BY <1>2, <1>3, FilledType DEF IInv
<1>. HIDE DEF p
<1>5. g_process_table \in [Slot -> PCB] /\ g_next_pid \in Nat \ {0} /\ g_next_pid' = g_next_pid + 1
  BY DEF IInv, TypeOK, Install, NextPid
<1>6. Pids(g_process_table', g_next_pid') /\ g_process_table' \in [Slot -> PCB]
  BY <1>1, <1>3, <1>4, <1>5, InstallPids DEF IInv
<1>7. g_next_pid' \in 1..(MaxPid + 1)
  BY SizesAssumption DEF Install, NextPid, IInv, TypeOK
<1>. QED
  BY <1>1, <1>3, <1>4, <1>5, <1>6, <1>7 DEF e

\* Every step keeps the types and the pids.
LEMMA StepType == IInv /\ [Next]_vars => TypeOK' /\ Pids(g_process_table, g_next_pid)'
<1>. SUFFICES ASSUME IInv, [Next]_vars PROVE TypeOK' /\ Pids(g_process_table, g_next_pid)'
  OBVIOUS
<1>. USE DEF IInv
<1>. DEFINE Typed == TypeOK' /\ Pids(g_process_table, g_next_pid)'
<1>0. /\ g_process_table \in [Slot -> PCB] /\ g_current_proc \in Slot
      /\ g_next_pid \in 1..(MaxPid + 1) /\ g_next_pid \in Nat \ {0} /\ free \subseteq Frames
      /\ cr3 \in Frames \cup {KernelPml4} /\ cpu \in Cpu /\ frame \in LoaderFrame
      /\ new \in [slot : Slot \cup {NoSlot}, pid : 0..(MaxPid + 1)]
  BY DEF TypeOK
<1>1. Shell \in Slot /\ "entry" \in Context
  BY SizesAssumption DEF Shell, Slot, Context
<1>2. 0 \in 0..SCHED_DEFAULT_QUANTUM /\ SCHED_DEFAULT_QUANTUM \in 0..SCHED_DEFAULT_QUANTUM
  BY SizesAssumption
<1>3. NoProcess \in [slot : Slot \cup {NoSlot}, pid : 0..(MaxPid + 1)]
  BY SizesAssumption DEF NoProcess
<1>4. CASE loader_execute
  <2>1. new' \in [slot : Slot \cup {NoSlot}, pid : 0..(MaxPid + 1)]
    BY <1>0, <1>3, <1>4, ReusableSlot DEF loader_execute
  <2>. QED
    BY <1>0, <1>4, <2>1 DEF loader_execute, TypeOK, Cpu, Thread
<1>15. CASE process_create_list
  <2>. DEFINE q == Listed(g_process_table[new.slot], g_next_pid, "READY")
  <2>1. new.slot \in Slot \ {Shell} /\ new.pid = g_next_pid
    BY <1>15 DEF process_create_list, ThreadInv, LoaderLive, Reusable
  <2>2. /\ g_process_table' = [g_process_table EXCEPT ![new.slot] = q]
        /\ g_next_pid <= MaxPid /\ g_next_pid' = g_next_pid + 1
        /\ cpu' = "listed" /\ UNCHANGED <<g_current_proc, free, cr3, new, frame>>
    <3>1. PICK n \in {new.pid, g_next_pid} :
            /\ n <= MaxPid
            /\ g_process_table' = [g_process_table EXCEPT ![new.slot] = Listed(@, n, "READY")]
            /\ g_next_pid' = NextPid(n)
      BY <1>15 DEF process_create_list
    <3>2. n = g_next_pid
      BY <2>1
    <3>3. cpu' = "listed" /\ UNCHANGED <<g_current_proc, free, cr3, new, frame>>
      BY <1>15 DEF process_create_list
    <3>. QED
      BY <1>0, <2>1, <3>1, <3>2, <3>3 DEF NextPid
  <2>3. q \in PCB /\ q.pid = g_next_pid /\ q.state # "UNUSED" /\ g_next_pid' \in 1..(MaxPid + 1)
    <3>1. g_process_table[new.slot] \in PCB /\ g_next_pid \in Nat
      BY <1>0, <2>1
    <3>2. g_next_pid' \in 1..(MaxPid + 1)
      BY <1>0, <2>2, SizesAssumption
    <3>. QED
      BY <3>1, <3>2, ListedType
  <2>. HIDE DEF q
  <2>4. g_process_table' \in [Slot -> PCB] /\ Pids(g_process_table', g_next_pid')
    BY <1>0, <2>1, <2>2, <2>3, InstallPids
  <2>. QED
    BY <1>0, <2>2, <2>3, <2>4 DEF TypeOK, Cpu, Thread
<1>16. CASE process_create_fill
  <2>. DEFINE q == Filled(g_process_table[new.slot], "entry")
  <2>1. NewLive
    BY <1>16 DEF process_create_fill, ThreadInv, LoaderLive
  <2>2. /\ g_process_table' = [g_process_table EXCEPT ![new.slot] = q] /\ free' = AfterNewCr3
        /\ cpu' = "created" /\ UNCHANGED <<g_current_proc, g_next_pid, cr3, new, frame>>
    BY <1>0, <1>16, <2>1 DEF process_create_fill, NewLive
  <2>3. /\ new.slot \in Slot /\ q \in PCB /\ q.pid = g_process_table[new.slot].pid
        /\ q.state = g_process_table[new.slot].state
        /\ free' \subseteq Frames
    BY <1>0, <1>1, <2>1, <2>2, FilledType DEF NewLive
  <2>. HIDE DEF q
  <2>4. g_process_table' \in [Slot -> PCB] /\ Pids(g_process_table', g_next_pid)
    BY <1>0, <2>2, <2>3, TouchPids
  <2>. QED
    BY <1>0, <2>2, <2>3, <2>4 DEF TypeOK, Cpu, Thread
<1>17. CASE process_set_current
  BY <1>0, <1>17 DEF process_set_current, ThreadInv, LoaderLive, NewLive, TypeOK, Cpu, Thread
<1>5. CASE enter_user_mode
  <2>1. /\ cpu = "loading" /\ cpu' = "user" /\ new' = NoProcess
        /\ UNCHANGED <<g_current_proc, g_next_pid, free, cr3>>
    BY <1>5 DEF enter_user_mode
  <2>2. CASE new.slot # NoSlot /\ g_process_table' = Entered(new.slot) /\ frame' = new.slot
    <3>. DEFINE e == new.slot
                p == [g_process_table[e] EXCEPT !.state = "RUNNING"]
    <3>1. g_process_table' = [g_process_table EXCEPT ![e] = p]
      BY <2>2 DEF Entered
    <3>2. NewLive
      BY <2>1, <2>2 DEF ThreadInv, LoaderLive
    <3>3. /\ p \in PCB /\ p.pid = g_process_table[e].pid /\ e \in Slot
          /\ p.state # "UNUSED" /\ g_process_table[e].state # "UNUSED"
      BY <1>0, <3>2 DEF NewLive, state, PCB, ProcessState
    <3>. HIDE DEF p
    <3>4. g_process_table' \in [Slot -> PCB] /\ Pids(g_process_table', g_next_pid)
      BY <1>0, <3>1, <3>3, TouchPids
    <3>. QED
      BY <1>0, <1>3, <2>1, <2>2, <3>3, <3>4 DEF TypeOK, Cpu, LoaderFrame
  <2>3. CASE frame' = Unowned /\ UNCHANGED g_process_table
    BY <1>0, <1>3, <2>1, <2>3 DEF TypeOK, Cpu, LoaderFrame
  <2>. QED
    BY <1>5, <2>2, <2>3 DEF enter_user_mode
<1>6. CASE process_fork
  <2>1. g_process_table[cur].context \in Context
    BY <1>0 DEF cur, PCB
  <2>2. Install("READY", g_process_table[cur].context) /\ UNCHANGED <<g_current_proc, cr3, new, frame>>
        /\ cpu' \in {"lost", "user"}
    BY <1>6 DEF process_fork, Return
  <2>. QED
    BY <1>0, <2>1, <2>2, InstallInv DEF TypeOK, Cpu
<1>7. CASE process_execve
  <2>1. frame' = Nested /\ UNCHANGED <<cr3, cpu, new>>
    BY <1>7 DEF process_execve
  <2>2. CASE Install("RUNNING", "entry") /\ g_current_proc' = Lowest(Reusable)
    BY <1>0, <1>1, <2>1, <2>2, InstallInv DEF TypeOK, LoaderFrame
  <2>3. CASE UNCHANGED <<g_process_table, g_current_proc, g_next_pid, free>>
    BY <1>0, <2>1, <2>3 DEF TypeOK, LoaderFrame
  <2>. QED
    BY <1>7, <2>2, <2>3 DEF process_execve
<1>8. CASE sys_exit
  <2>. DEFINE mine == IF pid(cur) # 0 THEN Ended(g_process_table, cur) ELSE g_process_table
  <2>1. /\ mine \in [Slot -> PCB] /\ Pids(mine, g_next_pid)
        /\ \A s \in Slot : g_process_table[s].state # "UNUSED" => mine[s].state # "UNUSED"
    <3>1. CASE pid(cur) # 0
      <4>1. cur \in Slot /\ g_process_table[cur].state # "UNUSED"
        BY <1>0, <3>1 DEF cur, pid, Pids
      <4>. QED
        BY <1>0, <3>1, <4>1, EndPids
    <3>2. CASE pid(cur) = 0
      BY <1>0, <3>2
    <3>. QED
      BY <3>1, <3>2
  <2>2. frame \in Slot => Ended(mine, frame) \in [Slot -> PCB] /\ Pids(Ended(mine, frame), g_next_pid)
    <3>. HIDE DEF mine
    <3>1. ASSUME frame \in Slot
          PROVE  mine[frame].state # "UNUSED"
      BY <2>1, <3>1 DEF ThreadInv, FrameLive, state
    <3>. QED
      BY <1>0, <2>1, <3>1, EndPids
  <2>3. /\ g_process_table' = mine \/ (frame \in Slot /\ g_process_table' = Ended(mine, frame))
        /\ g_current_proc' \in {cur, Shell} /\ cpu' \in {"shell", "lost"} /\ frame' = NoFrame
        /\ UNCHANGED <<g_next_pid, free, cr3, new>>
    BY <1>8 DEF sys_exit, cur
  <2>. HIDE DEF mine
  <2>. QED
    BY <1>0, <1>1, <2>1, <2>2, <2>3 DEF TypeOK, Cpu, Thread, LoaderFrame, cur
<1>9. ASSUME NEW want \in {-1} \cup 1..MaxPid, NEW nohang \in BOOLEAN, process_waitpid(want, nohang)
      PROVE  Typed
  <2>1. UNCHANGED <<g_current_proc, g_next_pid, free, cr3, new, frame>> /\ cpu' \in Cpu
    BY <1>9 DEF process_waitpid, Return, Cpu
  <2>2. CASE /\ Dead(want) # {}
             /\ g_process_table' = [g_process_table EXCEPT ![Lowest(Dead(want))] = Reaped(@)]
    <3>. DEFINE e == Lowest(Dead(want))
                p == Reaped(g_process_table[e])
    <3>1. Dead(want) \in SUBSET Nat /\ Dead(want) \subseteq Slot \ {Shell}
      BY SizesAssumption DEF Dead, Children, Used, Slot
    <3>2. e \in Slot \ {Shell}
      BY <2>2, <3>1, LowestIn
    <3>. HIDE DEF e
    <3>3. g_process_table' = [g_process_table EXCEPT ![e] = p]
      BY <1>0, <2>2, <3>2 DEF e
    <3>4. p \in PCB /\ p.state = "UNUSED" /\ p.pid = 0
      BY <1>0, <3>2 DEF Reaped, PCB, ProcessState
    <3>. HIDE DEF p
    <3>5. g_process_table' \in [Slot -> PCB] /\ Pids(g_process_table', g_next_pid)
      BY <1>0, <3>2, <3>3, <3>4, ReapPids
    <3>. QED
      BY <1>0, <2>1, <3>5 DEF TypeOK
  <2>3. CASE g_process_table' = [g_process_table EXCEPT ![cur].time_slice = 0]
    BY <1>0, <1>2, <2>1, <2>3, SlicePids DEF TypeOK, cur
  <2>. QED
    BY <1>9, <2>2, <2>3 DEF process_waitpid
<1>10. CASE sched_yield
  BY <1>0, <1>2, <1>10, SlicePids DEF sched_yield, Return, TypeOK, Cpu, cur
<1>11. CASE other_syscall
  BY <1>0, <1>11 DEF other_syscall, Return, TypeOK, Cpu
<1>12. ASSUME NEW s \in Slot, process_kill(s)
       PROVE  Typed
  <2>. DEFINE p == Detached([g_process_table[s] EXCEPT !.state = "ZOMBIE"])
  <2>1. /\ g_process_table' = [g_process_table EXCEPT ![s] = p]
        /\ UNCHANGED <<g_current_proc, g_next_pid, cr3, cpu, new, frame>>
        /\ free' \subseteq Frames
    BY <1>0, <1>12 DEF process_kill, AfterDestroy
  <2>2. /\ p \in PCB /\ p.pid = g_process_table[s].pid
        /\ p.state # "UNUSED" /\ g_process_table[s].state # "UNUSED"
    BY <1>0, <1>12, KillableAssumption, ZenonT(60) DEF process_kill, Detached, PCB, ProcessState, state
  <2>. HIDE DEF p
  <2>3. g_process_table' \in [Slot -> PCB] /\ Pids(g_process_table', g_next_pid)
    BY <1>0, <2>1, <2>2, TouchPids
  <2>. QED
    BY <1>0, <2>1, <2>3 DEF TypeOK
<1>13. CASE sched_tick
  <2>1. cur \in Slot /\ cpu \in Thread \cup {"user"} /\ UNCHANGED <<g_next_pid, free, new, frame>>
    BY <1>0, <1>13, TickPointsAssumption DEF sched_tick, cur
  <2>2. Left \in 0..SCHED_DEFAULT_QUANTUM
    <3>1. g_process_table[cur].time_slice \in 0..SCHED_DEFAULT_QUANTUM
      BY <1>0, <2>1 DEF PCB
    <3>. QED
      BY <3>1, SizesAssumption DEF Left
  <2>3. ASSUME NEW left \in 0..SCHED_DEFAULT_QUANTUM,
               g_process_table' = [g_process_table EXCEPT ![cur].time_slice = left],
               UNCHANGED <<g_current_proc, cr3, cpu>>
        PROVE  Typed
    BY <1>0, <2>1, <2>3, SlicePids DEF TypeOK
  <2>4. CASE sched_pick_next \notin {NoSlot, cur} /\ Switch(sched_pick_next)
    <3>. DEFINE next == sched_pick_next
                p == Preempted(g_process_table[cur])
                q == Dispatched(g_process_table[next])
    <3>1. next \in Slot /\ next # cur /\ state(next) \in {"READY", "RUNNING"}
      BY <1>0, <2>4, PickNext
    <3>. HIDE DEF next
    <3>2. /\ p \in PCB /\ p.pid = g_process_table[cur].pid
          /\ p.state = "UNUSED" <=> g_process_table[cur].state = "UNUSED"
      BY <1>0, <1>2, <2>1, ZenonT(60) DEF Preempted, PCB, ProcessState, Context, Thread
    <3>3. /\ q \in PCB /\ q.pid = g_process_table[next].pid
          /\ q.state # "UNUSED" /\ g_process_table[next].state # "UNUSED"
      BY <1>0, <1>2, <3>1, ZenonT(60) DEF Dispatched, PCB, ProcessState, Context, Thread, state
    <3>4. /\ g_process_table' = [g_process_table EXCEPT ![cur] = p, ![next] = q]
          /\ g_current_proc' = next
          /\ cr3' \in {g_process_table[next].cr3, cr3} \ {0}
          /\ cpu' \in Resume(g_process_table[next].context)
      BY <1>0, <2>4, <3>1, FramesAssumption DEF Switch, next
    <3>5. cr3' \in Frames \cup {KernelPml4} /\ cpu' \in Cpu
      BY <1>0, <3>1, <3>4 DEF PCB, Resume, Context, Cpu, Thread
    <3>. DEFINE t1 == [g_process_table EXCEPT ![cur] = p]
    <3>. HIDE DEF p, q
    <3>6. t1 \in [Slot -> PCB] /\ Pids(t1, g_next_pid) /\ t1[next] = g_process_table[next]
      BY <1>0, <2>1, <3>1, <3>2, TouchPids
    <3>7. g_process_table' = [t1 EXCEPT ![next] = q]
      BY <3>4
    <3>. HIDE DEF t1
    <3>8. g_process_table' \in [Slot -> PCB] /\ Pids(g_process_table', g_next_pid)
      BY <1>0, <3>1, <3>3, <3>6, <3>7, TouchPids
    <3>. QED
      BY <1>0, <2>1, <3>1, <3>4, <3>5, <3>8 DEF TypeOK
  <2>. QED
    BY <1>2, <1>13, <2>2, <2>3, <2>4 DEF sched_tick
<1>14. CASE UNCHANGED vars
  BY <1>0, <1>14 DEF vars, TypeOK
<1>. QED
  BY <1>4, <1>15, <1>16, <1>17, <1>5, <1>6, <1>7, <1>8, <1>9, <1>10, <1>11, <1>12, <1>13, <1>14 DEF Next

\* A step that changes no state and no context, and may stop.
LEMMA QuietThread ==
  ASSUME ThreadInv, g_current_proc' = g_current_proc, frame' = frame, new' = new,
         g_next_pid' = g_next_pid, Shell \in Slot,
         cpu' \in {cpu, "lost"} \/ (cpu = "user" /\ cpu' = "spin"),
         g_current_proc \in Slot,
         \A s \in Slot : /\ g_process_table'[s].state = g_process_table[s].state
                         /\ g_process_table'[s].context = g_process_table[s].context
  PROVE  ThreadInv'
<1>1. Reusable' = Reusable
  BY DEF Reusable, state
<1>2. OneShellThread'
  BY DEF ThreadInv, OneShellThread, InKernel, Thread, cur
<1>3. NewLive => NewLive'
  BY DEF NewLive, state
<1>4. LoaderLive'
  BY <1>1, <1>3 DEF ThreadInv, LoaderLive, cur, state
<1>5. SavedLive'
  BY <1>3 DEF ThreadInv, SavedLive
<1>6. FrameLive' /\ ShellReady' /\ UserIsRunning'
  BY <1>1 DEF ThreadInv, FrameLive, ShellReady, UserIsRunning, cur, state
<1>. QED
  BY <1>2, <1>4, <1>5, <1>6 DEF ThreadInv

\* A step that only changes what is left of the quantum, and may stop.
LEMMA SliceThread ==
  ASSUME ThreadInv, g_process_table \in [Slot -> PCB], g_current_proc \in Slot, NEW left,
         g_process_table' = [g_process_table EXCEPT ![g_current_proc].time_slice = left],
         g_current_proc' = g_current_proc, frame' = frame, new' = new, Shell \in Slot,
         g_next_pid' = g_next_pid, cpu' \in {cpu, "lost"} \/ (cpu = "user" /\ cpu' = "spin")
  PROVE  ThreadInv'
<1>1. \A s \in Slot : /\ g_process_table'[s].state = g_process_table[s].state
                      /\ g_process_table'[s].context = g_process_table[s].context
  BY DEF PCB
<1>. QED
  BY <1>1, QuietThread

\* Every step keeps the shell's thread of control in one place, and what
\* follows from it.
LEMMA StepThread == IInv /\ [Next]_vars => ThreadInv'
<1>. SUFFICES ASSUME IInv, [Next]_vars PROVE ThreadInv'
  OBVIOUS
<1>0. /\ g_process_table \in [Slot -> PCB] /\ g_current_proc \in Slot
      /\ g_process_table' \in [Slot -> PCB] /\ g_current_proc' \in Slot
      /\ Shell \in Slot /\ NoSlot \notin Slot
      /\ NoFrame \notin Slot /\ Unowned \notin Slot /\ Nested \notin Slot
      /\ NoFrame # Unowned /\ Nested # Unowned
      /\ frame \in {NoFrame, Nested, Unowned} \cup Slot
  BY StepType, SizesAssumption
  DEF IInv, TypeOK, Shell, Slot, NoSlot, NoFrame, Unowned, Nested, LoaderFrame
<1>. HIDE DEF NoSlot, NoFrame, Unowned, Nested, Shell
<1>1. OneShellThread /\ FrameLive /\ LoaderLive /\ SavedLive /\ ShellReady /\ UserIsRunning
  BY DEF IInv, ThreadInv
<1>2. /\ {"shell", "found", "listed", "created", "loading"} = Thread
      /\ "user" \notin Thread /\ "lost" \notin Thread /\ "entry" \notin Thread /\ "stale" \notin Thread
  BY DEF Thread
<1>3. cpu \in Thread => \A s \in Slot : g_process_table[s].context \notin Thread
  BY <1>1 DEF OneShellThread, InKernel
<1>4. CASE loader_execute
  <2>1. /\ cpu = "shell" /\ UNCHANGED <<g_process_table, g_current_proc, g_next_pid, frame>>
        /\ \/ Reusable # {} /\ new' = [slot |-> Lowest(Reusable), pid |-> g_next_pid] /\ cpu' = "found"
           \/ Reusable = {} /\ new' = NoProcess /\ cpu' = "loading"
    BY <1>4 DEF loader_execute
  <2>2. OneShellThread' /\ FrameLive' /\ ShellReady' /\ UserIsRunning'
    BY <1>1, <1>2, <2>1
    DEF OneShellThread, InKernel, FrameLive, ShellReady, UserIsRunning, state, Reusable
  <2>3. LoaderLive'
    <3>1. CASE Reusable # {} /\ new' = [slot |-> Lowest(Reusable), pid |-> g_next_pid] /\ cpu' = "found"
      <4>1. new'.slot \in Reusable /\ new'.pid = g_next_pid
        BY <3>1, ReusableSlot
      <4>2. Reusable' = Reusable
        BY <2>1 DEF Reusable, state
      <4>. QED
        BY <2>1, <3>1, <4>1, <4>2 DEF LoaderLive
    <3>2. CASE Reusable = {} /\ new' = NoProcess /\ cpu' = "loading"
      BY <1>1, <2>1, <3>2 DEF LoaderLive, ShellReady, NoProcess, state, cur
    <3>. QED
      BY <2>1, <3>1, <3>2
  <2>4. SavedLive'
    BY <1>2, <1>3, <2>1 DEF SavedLive
  <2>. QED
    BY <2>2, <2>3, <2>4 DEF ThreadInv
<1>15. CASE process_create_list
  <2>1. /\ cpu = "found" /\ cpu' = "listed" /\ UNCHANGED <<g_current_proc, new, frame>>
        /\ new.slot \in Slot \ {Shell}
        /\ \E n : g_process_table' = [g_process_table EXCEPT ![new.slot] = Listed(@, n, "READY")]
    BY <1>1, <1>15 DEF process_create_list, LoaderLive, Reusable
  <2>2. /\ g_process_table'[new.slot].state = "READY"
        /\ \A s \in Slot : g_process_table'[s].context = g_process_table[s].context
    BY <1>0, <2>1 DEF Listed, PCB
  <2>3. OneShellThread' /\ FrameLive' /\ ShellReady' /\ UserIsRunning'
    BY <1>0, <1>1, <1>2, <2>1, <2>2 DEF OneShellThread, InKernel, FrameLive, ShellReady, UserIsRunning
  <2>4. LoaderLive'
    BY <2>1, <2>2 DEF LoaderLive, NewLive, state
  <2>5. SavedLive'
    BY <1>2, <1>3, <2>1, <2>2 DEF SavedLive
  <2>. QED
    BY <2>3, <2>4, <2>5 DEF ThreadInv
<1>16. CASE process_create_fill
  <2>1. /\ cpu = "listed" /\ cpu' = "created" /\ UNCHANGED <<g_current_proc, new, frame>>
        /\ NewLive
        /\ g_process_table' = [g_process_table EXCEPT ![new.slot] = Filled(@, "entry")]
    BY <1>1, <1>16 DEF process_create_fill, LoaderLive
  <2>2. /\ g_process_table'[new.slot].state = g_process_table[new.slot].state
        /\ g_process_table'[new.slot].context = "entry"
        /\ \A s \in Slot \ {new.slot} : g_process_table'[s] = g_process_table[s]
    BY <1>0, <2>1 DEF Filled, PCB, NewLive
  <2>3. OneShellThread' /\ FrameLive' /\ ShellReady' /\ UserIsRunning'
    BY <1>0, <1>1, <1>2, <2>1, <2>2 DEF OneShellThread, InKernel, FrameLive, ShellReady, UserIsRunning
  <2>4. LoaderLive'
    BY <2>1, <2>2 DEF LoaderLive, NewLive, state
  <2>5. SavedLive'
    BY <1>2, <1>3, <2>1, <2>2 DEF SavedLive
  <2>. QED
    BY <2>3, <2>4, <2>5 DEF ThreadInv
<1>17. CASE process_set_current
  <2>1. /\ cpu = "created" /\ cpu' = "loading" /\ UNCHANGED <<g_process_table, new, frame>>
        /\ g_current_proc' = new.slot /\ NewLive
    BY <1>1, <1>17 DEF process_set_current, LoaderLive
  <2>2. OneShellThread' /\ FrameLive' /\ ShellReady' /\ UserIsRunning'
    BY <1>0, <1>1, <1>2, <2>1 DEF OneShellThread, InKernel, FrameLive, ShellReady, UserIsRunning
  <2>3. LoaderLive'
    BY <2>1 DEF LoaderLive, NewLive, state, cur
  <2>4. SavedLive'
    BY <1>2, <1>3, <2>1 DEF SavedLive
  <2>. QED
    BY <2>2, <2>3, <2>4 DEF ThreadInv
<1>5. CASE enter_user_mode
  <2>1. cpu = "loading" /\ cpu' = "user" /\ g_current_proc' = g_current_proc
    BY <1>5 DEF enter_user_mode
  <2>2. CASE new.slot # NoSlot /\ g_process_table' = Entered(new.slot) /\ frame' = new.slot
    <3>1. new.slot = cur /\ new.slot \in Slot \ {Shell}
      BY <1>1, <2>1, <2>2 DEF LoaderLive, NewLive
    <3>2. /\ g_process_table'[cur].state = "RUNNING"
          /\ \A s \in Slot : g_process_table'[s].context = g_process_table[s].context
      BY <1>0, <2>2, <3>1 DEF Entered, PCB
    <3>3. SavedLive' /\ LoaderLive'
      BY <1>2, <1>3, <2>1, <3>2 DEF SavedLive, LoaderLive
    <3>. QED
      BY <1>0, <1>1, <1>2, <2>1, <2>2, <3>1, <3>2, <3>3
      DEF ThreadInv, OneShellThread, InKernel, FrameLive, ShellReady, UserIsRunning, cur, state
  <2>3. CASE new.slot = NoSlot /\ frame' = Unowned /\ UNCHANGED g_process_table
    <3>1. state(cur) = "RUNNING"
      BY <1>0, <1>1, <2>1, <2>3 DEF LoaderLive, cur
    <3>2. SavedLive' /\ LoaderLive'
      BY <1>2, <1>3, <2>1, <2>3 DEF SavedLive, LoaderLive
    <3>. QED
      BY <1>0, <1>1, <1>2, <2>1, <2>3, <3>1, <3>2
      DEF ThreadInv, OneShellThread, InKernel, FrameLive, ShellReady, UserIsRunning, cur, state
  <2>. QED
    BY <1>5, <2>2, <2>3 DEF enter_user_mode
<1>6. CASE process_fork
  <2>. DEFINE e == Lowest(Reusable)
              context == g_process_table[cur].context
  <2>1. /\ Install("READY", context) /\ g_current_proc' = g_current_proc /\ frame' = frame
        /\ new' = new /\ cpu = "user" /\ cpu' \in {"lost", "user"}
    BY <1>6 DEF process_fork, Return
  <2>2. context \in Context /\ context \notin Thread
    BY <1>0, <1>1, <2>1 DEF OneShellThread, InKernel, cur, PCB
  <2>3. /\ e \in Reusable /\ e \in Slot \ {Shell}
        /\ g_process_table'[e].state = "READY" /\ g_process_table'[e].context = context
        /\ \A s \in Slot \ {e} : g_process_table'[s] = g_process_table[s]
    BY <2>1, <2>2, InstallInv
  <2>. HIDE DEF e, context
  <2>4. e # cur
    BY <1>1, <2>1, <2>3 DEF UserIsRunning, Reusable, state
  <2>5. OneShellThread'
    BY <1>0, <1>1, <1>2, <2>1, <2>2, <2>3, <2>4 DEF OneShellThread, InKernel, cur
  <2>6. FrameLive'
    BY <1>0, <1>1, <2>1, <2>3 DEF FrameLive, Reusable, state
  <2>7. LoaderLive' /\ ShellReady' /\ UserIsRunning'
    BY <1>0, <1>1, <2>1, <2>3, <2>4 DEF LoaderLive, ShellReady, UserIsRunning, cur, state
  <2>8. SavedLive'
    <3>1. NewLive => NewLive'
      BY <2>1, <2>3 DEF NewLive, Reusable, state
    <3>. QED
      BY <1>1, <1>2, <2>1, <2>2, <2>3, <3>1 DEF SavedLive
  <2>. QED
    BY <2>5, <2>6, <2>7, <2>8 DEF ThreadInv
<1>7. CASE process_execve
  <2>1. cpu = "user" /\ cpu' = "user" /\ frame' = Nested /\ new' = new
    BY <1>7 DEF process_execve
  <2>2. CASE Install("RUNNING", "entry") /\ g_current_proc' = Lowest(Reusable)
    <3>1. "entry" \in Context
      BY DEF Context
    <3>2. /\ g_current_proc' \in Reusable /\ g_current_proc' \in Slot \ {Shell}
          /\ g_process_table'[g_current_proc'].state = "RUNNING"
          /\ g_process_table'[g_current_proc'].context = "entry"
          /\ \A s \in Slot \ {g_current_proc'} : g_process_table'[s] = g_process_table[s]
      BY <2>2, <3>1, InstallInv
    <3>3. NewLive => NewLive'
      BY <2>1, <3>2 DEF NewLive, Reusable, state
    <3>4. SavedLive'
      BY <1>1, <1>2, <2>1, <3>2, <3>3 DEF SavedLive
    <3>. QED
      BY <1>0, <1>1, <1>2, <2>1, <3>2, <3>4
      DEF ThreadInv, OneShellThread, InKernel, FrameLive, LoaderLive, ShellReady, UserIsRunning,
          cur, state
  <2>3. CASE UNCHANGED <<g_process_table, g_current_proc>>
    <3>1. NewLive => NewLive'
      BY <2>1, <2>3 DEF NewLive, state
    <3>2. SavedLive'
      BY <1>1, <2>1, <2>3, <3>1 DEF SavedLive
    <3>. QED
      BY <1>0, <1>1, <1>2, <2>1, <2>3, <3>2
      DEF ThreadInv, OneShellThread, InKernel, FrameLive, LoaderLive, ShellReady, UserIsRunning,
          cur, state
  <2>. QED
    BY <1>7, <2>2, <2>3 DEF process_execve
<1>8. CASE sys_exit
  <2>. DEFINE mine == IF pid(cur) # 0 THEN Ended(g_process_table, cur) ELSE g_process_table
  <2>0. \A s \in Slot : mine[s] \in {g_process_table[s], [g_process_table[s] EXCEPT !.state = "ZOMBIE"]}
    BY <1>0 DEF Ended, cur
  <2>1. cpu = "user" /\ frame' = NoFrame /\ new' = new
    BY <1>8 DEF sys_exit
  <2>2. CASE /\ frame \in Slot /\ g_process_table' = Ended(mine, frame)
             /\ g_current_proc' = Shell /\ cpu' = "shell"
    <3>1. /\ g_process_table'[frame].state = "ZOMBIE"
          /\ \A s \in Slot : g_process_table'[s].context = g_process_table[s].context
      BY <1>0, <2>0, <2>2 DEF Ended, PCB
    <3>2. frame \in Reusable'
      BY <1>0, <1>1, <2>2, <3>1 DEF Reusable, state, FrameLive
    <3>3. SavedLive'
      BY <1>1, <1>2, <2>2, <3>1 DEF SavedLive, OneShellThread, InKernel
    <3>. QED
      BY <1>0, <1>1, <1>2, <2>1, <2>2, <3>1, <3>2, <3>3
      DEF ThreadInv, OneShellThread, InKernel, FrameLive, LoaderLive, ShellReady, UserIsRunning,
          cur, state
  <2>3. CASE /\ frame \notin Slot /\ g_process_table' = mine
             /\ cpu' = (IF frame = Unowned THEN "shell" ELSE "lost") /\ UNCHANGED g_current_proc
    <3>1. \A s \in Slot : g_process_table'[s].context = g_process_table[s].context
      BY <1>0, <2>0, <2>3 DEF PCB
    <3>2. ShellReady'
      <4>1. CASE pid(cur) = 0
        BY <1>0, <1>1, <2>1, <2>3, <4>1 DEF ShellReady, UserIsRunning, state, cur
      <4>2. CASE pid(cur) # 0
        <5>1. cur # Shell /\ cur \in Slot
          BY <1>0, <4>2 DEF IInv, Pids, pid, cur
        <5>2. g_process_table'[cur].state = "ZOMBIE"
          BY <1>0, <2>3, <4>2, <5>1 DEF Ended, PCB
        <5>. QED
          BY <5>1, <5>2 DEF ShellReady, Reusable, state
      <4>. QED
        BY <4>1, <4>2
    <3>3. SavedLive'
      BY <1>1, <1>2, <2>1, <2>3, <3>1 DEF SavedLive, OneShellThread, InKernel
    <3>. QED
      BY <1>0, <1>1, <1>2, <2>1, <2>3, <3>1, <3>2, <3>3
      DEF ThreadInv, OneShellThread, InKernel, FrameLive, LoaderLive, UserIsRunning, cur, state
  <2>. QED
    BY <1>8, <2>2, <2>3 DEF sys_exit
<1>9. ASSUME NEW want \in {-1} \cup 1..MaxPid, NEW nohang \in BOOLEAN, process_waitpid(want, nohang)
      PROVE  ThreadInv'
  <2>1. /\ cpu = "user" /\ UNCHANGED <<g_current_proc, g_next_pid, new, frame>>
        /\ cpu' \in {"lost", "user", "spin"}
    BY <1>9 DEF process_waitpid, Return
  <2>2. CASE /\ Dead(want) # {}
             /\ g_process_table' = [g_process_table EXCEPT ![Lowest(Dead(want))] = Reaped(@)]
    <3>. DEFINE e == Lowest(Dead(want))
    <3>1. Dead(want) \in SUBSET Nat
      BY SizesAssumption DEF Dead, Children, Used, Slot
    <3>2. e \in Slot /\ state(e) = "ZOMBIE"
      BY <2>2, <3>1, LowestIn DEF Dead, Children, Used
    <3>. HIDE DEF e
    <3>3. /\ \A s \in Slot \ {e} : g_process_table'[s] = g_process_table[s]
          /\ g_process_table'[e].context = g_process_table[e].context
      BY <1>0, <2>2, <3>2 DEF e, Reaped, PCB
    <3>4. OneShellThread'
      BY <1>0, <1>1, <1>2, <2>1, <3>2, <3>3, Zenon DEF OneShellThread, InKernel, cur
    <3>5. NewLive => NewLive'
      BY <2>1, <3>2, <3>3 DEF NewLive, state
    <3>6. SavedLive'
      BY <1>1, <2>1, <3>3, <3>5 DEF SavedLive
    <3>. QED
      BY <1>0, <1>1, <2>1, <3>2, <3>3, <3>4, <3>6
      DEF ThreadInv, FrameLive, LoaderLive, ShellReady, UserIsRunning, cur, state
  <2>3. CASE g_process_table' = [g_process_table EXCEPT ![cur].time_slice = 0]
    BY <1>0, <2>1, <2>3, SliceThread DEF cur, IInv
  <2>. QED
    BY <1>9, <2>2, <2>3 DEF process_waitpid
<1>10. CASE sched_yield
  BY <1>0, <1>10, SliceThread DEF sched_yield, Return, cur, IInv
<1>11. CASE other_syscall
  BY <1>0, <1>11, QuietThread DEF other_syscall, Return, IInv
<1>12. ASSUME NEW s \in Slot, process_kill(s)
       PROVE  ThreadInv'
  <2>1. /\ cpu = "shell" /\ UNCHANGED <<g_current_proc, cpu, new, frame>>
        /\ pid(s) # 0
        /\ g_process_table' = [g_process_table EXCEPT ![s] = Detached([@ EXCEPT !.state = "ZOMBIE"])]
    BY <1>12 DEF process_kill
  <2>2. /\ g_process_table'[s].state = "ZOMBIE"
        /\ \A r \in Slot : g_process_table'[r].context = g_process_table[r].context
    BY <1>0, <2>1 DEF Detached, PCB
  <2>3. s # Shell
    BY <2>1 DEF IInv, Pids, pid
  <2>4. Reusable' # {}
    BY <2>2, <2>3 DEF Reusable, state
  <2>5. OneShellThread' /\ SavedLive'
    BY <1>0, <1>1, <1>2, <1>3, <2>1, <2>2 DEF OneShellThread, SavedLive, InKernel, cur
  <2>6. FrameLive'
    BY <1>0, <1>1, <1>2, <2>1 DEF FrameLive, OneShellThread
  <2>7. LoaderLive' /\ ShellReady' /\ UserIsRunning'
    BY <2>1, <2>4 DEF LoaderLive, ShellReady, UserIsRunning
  <2>. QED
    BY <2>5, <2>6, <2>7 DEF ThreadInv
<1>13. CASE sched_tick
  <2>1. cur \in Slot /\ cpu \in TickPoints /\ UNCHANGED <<g_next_pid, new, frame>>
    BY <1>0, <1>13 DEF sched_tick, cur
  <2>2. ASSUME NEW left,
               g_process_table' = [g_process_table EXCEPT ![cur].time_slice = left],
               UNCHANGED <<g_current_proc, cr3, cpu>>
        PROVE  ThreadInv'
    BY <1>0, <2>1, <2>2, SliceThread DEF cur, IInv
  <2>3. CASE sched_pick_next \notin {NoSlot, cur} /\ Switch(sched_pick_next)
    <3>. DEFINE next == sched_pick_next
    <3>0. cpu \in Thread \cup {"user"} /\ cpu # "found"
      BY <2>1, TickPointsAssumption DEF IInv, Undivided
    <3>1. next \in Slot /\ next # cur /\ state(next) \in {"READY", "RUNNING"}
      BY <1>0, <2>3, PickNext
    <3>2. /\ g_process_table' = [g_process_table EXCEPT ![cur] = Preempted(@), ![next] = Dispatched(@)]
          /\ g_current_proc' = next /\ cpu' \in Resume(g_process_table[next].context)
      BY <2>3 DEF Switch
    <3>. HIDE DEF next
    <3>3. /\ g_process_table'[cur] = Preempted(g_process_table[cur])
          /\ g_process_table'[next] = Dispatched(g_process_table[next])
          /\ \A s \in Slot \ {cur, next} : g_process_table'[s] = g_process_table[s]
      BY <1>0, <2>1, <3>1, <3>2
    <3>4. /\ g_process_table'[cur].context = cpu
          /\ g_process_table[cur].state \in {"READY", "RUNNING"}
             => g_process_table'[cur].state \in {"READY", "RUNNING"}
      BY <1>0, <2>1, <3>3 DEF Preempted, PCB
    <3>5. /\ g_process_table'[next].context \notin Thread
          /\ g_process_table'[next].state = "RUNNING"
      BY <1>0, <1>2, <3>1, <3>3 DEF Dispatched, PCB
    <3>6. cpu' \in Thread => g_process_table[next].context = cpu'
      BY <1>2, <3>2 DEF Resume, Thread
    <3>7. OneShellThread'
      <4>1. CASE cpu \in Thread
        BY <1>0, <1>1, <1>2, <2>1, <3>1, <3>2, <3>3, <3>4, <3>5, <3>6, <4>1
        DEF OneShellThread, InKernel, cur
      <4>2. CASE cpu = "user"
        BY <1>0, <1>1, <1>2, <2>1, <3>1, <3>2, <3>3, <3>4, <3>5, <3>6, <4>2
        DEF OneShellThread, InKernel, cur
      <4>. QED
        BY <3>0, <4>1, <4>2
    <3>8. FrameLive'
      BY <1>0, <1>1, <2>1, <3>1, <3>3, <3>4, <3>5 DEF FrameLive, state
    <3>9. NewLive => NewLive'
      BY <2>1, <3>1, <3>3, <3>4, <3>5 DEF NewLive, state
    <3>10. cpu # "lost" /\ cpu \in {"listed", "created"} => NewLive
      BY <1>1 DEF LoaderLive
    <3>11. SavedLive'
      BY <1>1, <1>2, <2>1, <3>0, <3>1, <3>3, <3>4, <3>5, <3>9, <3>10 DEF SavedLive, LoaderLive, NewLive
    <3>12. LoaderLive'
      BY <1>1, <1>2, <2>1, <3>0, <3>1, <3>2, <3>5, <3>6, <3>9 DEF LoaderLive, SavedLive, NewLive, cur, state
    <3>13. ShellReady' /\ UserIsRunning'
      BY <3>2, <3>5 DEF ShellReady, UserIsRunning, cur, state
    <3>. QED
      BY <3>7, <3>8, <3>11, <3>12, <3>13 DEF ThreadInv
  <2>. QED
    BY <1>13, <2>2, <2>3 DEF sched_tick
<1>14. CASE UNCHANGED vars
  BY <1>0, <1>14, QuietThread DEF vars, IInv
<1>. QED
  BY <1>4, <1>15, <1>16, <1>17, <1>5, <1>6, <1>7, <1>8, <1>9, <1>10, <1>11, <1>12, <1>13, <1>14 DEF Next

-----------------------------------------------------------------------------
(* The theorems.                                                           *)

\* The invariant holds in every reachable state.
THEOREM Invariance == Undivided /\ Spec => []IInv
<1>1. IInv /\ [Next]_vars => IInv'
  <2>1. Undivided => Undivided'
    BY DEF Undivided
  <2>. QED
    BY <2>1, StepType, StepThread DEF IInv
<1>. QED
  BY <1>1, InitInv, PTL DEF Spec

\* Every field stays in its range; a time slice never goes below 0.
THEOREM TypeCorrect == Undivided /\ Spec => []TypeOK
<1>1. IInv => TypeOK
  BY DEF IInv
<1>. QED
  BY <1>1, Invariance, PTL

\* A pid names one process at most, for any number of processes created and
\* reaped: process_get_by_pid and the round robin find the right one.
THEOREM PidUniqueHolds == Undivided /\ Spec => []PidUnique
<1>1. IInv => PidUnique
  BY DEF IInv, Pids, PidUnique, Used, pid, state
<1>. QED
  BY <1>1, Invariance, PTL

\* While user code executes, the current process is marked RUNNING.
THEOREM UserIsRunningHolds == Undivided /\ Spec => []UserIsRunning
<1>1. IInv => UserIsRunning
  BY DEF IInv, ThreadInv
<1>. QED
  BY <1>1, Invariance, PTL

\* A process that exited or was killed never gets a live state again.
THEOREM TerminatedHolds == Undivided /\ Spec => Terminated
<1>. DEFINE A == \A s \in Slot : state(s) = "ZOMBIE" /\ g_process_table'[s].pid = pid(s)
                   => g_process_table'[s].state = "ZOMBIE"
<1>1. IInv /\ [Next]_vars => [A]_vars
  <2>. SUFFICES ASSUME IInv, Next, NEW s \in Slot, state(s) = "ZOMBIE",
                       g_process_table'[s].pid = pid(s)
                PROVE  g_process_table'[s].state = "ZOMBIE"
    OBVIOUS
  <2>0. /\ g_process_table \in [Slot -> PCB] /\ g_current_proc \in Slot
        /\ s # Shell => pid(s) \in 1..(g_next_pid - 1)
        /\ g_next_pid \in Nat
    BY DEF IInv, TypeOK, Pids, state, pid
  <2>1. ASSUME NEW st \in {"READY", "RUNNING"}, NEW context \in Context, Install(st, context)
        PROVE  g_process_table'[s].state = "ZOMBIE"
    <3>1. s # Lowest(Reusable)
      BY <2>0, <2>1, InstallInv
    <3>. QED
      BY <2>1, <3>1, InstallInv DEF state
  <2>2. CASE loader_execute \/ process_set_current
    BY <2>2 DEF loader_execute, process_set_current, state
  <2>3. CASE process_execve
    <3>1. "entry" \in Context
      BY DEF Context
    <3>. QED
      BY <2>1, <2>3, <3>1 DEF process_execve, state
  <2>4. CASE enter_user_mode
    <3>1. /\ cpu = "loading"
          /\ \/ new.slot # NoSlot /\ g_process_table' = Entered(new.slot)
             \/ g_process_table' = g_process_table
      BY <2>4 DEF enter_user_mode
    <3>2. new.slot # NoSlot => new.slot # s
      BY <3>1 DEF IInv, ThreadInv, LoaderLive, NewLive, state
    <3>. QED
      BY <2>0, <3>1, <3>2 DEF Entered, state
  <2>11. CASE process_create_list
    <3>1. new.slot \in Slot \ {Shell} /\ new.pid = g_next_pid
      BY <2>11 DEF process_create_list, IInv, ThreadInv, LoaderLive, Reusable
    <3>2. g_process_table' = [g_process_table EXCEPT ![new.slot] = Listed(@, g_next_pid, "READY")]
      BY <2>11, <3>1 DEF process_create_list
    <3>3. new.slot # s
      BY <2>0, <3>1, <3>2 DEF Listed, PCB
    <3>. QED
      BY <2>0, <3>2, <3>3 DEF state
  <2>12. CASE process_create_fill
    <3>1. NewLive
      BY <2>12 DEF process_create_fill, IInv, ThreadInv, LoaderLive
    <3>2. new.slot # s
      BY <3>1 DEF NewLive, state
    <3>. QED
      BY <2>0, <2>12, <3>2 DEF process_create_fill, state
  <2>5. CASE process_fork
    <3>1. g_process_table[cur].context \in Context
      BY <2>0 DEF cur, PCB
    <3>. QED
      BY <2>1, <2>5, <3>1 DEF process_fork
  <2>6. CASE sys_exit
    BY <2>0, <2>6 DEF sys_exit, Ended, state, PCB
  <2>7. ASSUME NEW want \in {-1} \cup 1..MaxPid, NEW nohang \in BOOLEAN, process_waitpid(want, nohang)
        PROVE  g_process_table'[s].state = "ZOMBIE"
    <3>1. CASE /\ Dead(want) # {}
               /\ g_process_table' = [g_process_table EXCEPT ![Lowest(Dead(want))] = Reaped(@)]
      <4>1. Dead(want) \in SUBSET Nat
        BY SizesAssumption DEF Dead, Children, Used, Slot
      <4>2. Lowest(Dead(want)) \in Slot \ {Shell}
        BY <3>1, <4>1, LowestIn DEF Dead, Children, Used
      <4>3. s # Lowest(Dead(want))
        BY <2>0, <3>1, <4>2 DEF Reaped, PCB
      <4>. QED
        BY <2>0, <3>1, <4>3 DEF state
    <3>2. CASE g_process_table' = [g_process_table EXCEPT ![cur].time_slice = 0]
      BY <2>0, <3>2 DEF state, PCB
    <3>. QED
      BY <2>7, <3>1, <3>2 DEF process_waitpid
  <2>8. CASE sched_yield \/ other_syscall
    BY <2>0, <2>8 DEF sched_yield, other_syscall, state, PCB
  <2>9. ASSUME NEW r \in Slot, process_kill(r)
        PROVE  g_process_table'[s].state = "ZOMBIE"
    BY <2>0, <2>9 DEF process_kill, Detached, state, PCB
  <2>10. CASE sched_tick
    <3>1. ASSUME NEW left, g_process_table' = [g_process_table EXCEPT ![cur].time_slice = left]
          PROVE  g_process_table'[s].state = "ZOMBIE"
      BY <2>0, <3>1 DEF state, PCB
    <3>2. CASE sched_pick_next \notin {NoSlot, cur} /\ Switch(sched_pick_next)
      <4>1. sched_pick_next \in Slot /\ sched_pick_next # s
        BY <2>0, <3>2, PickNext
      <4>. QED
        BY <2>0, <3>2, <4>1 DEF Switch, Preempted, state, PCB, cur
    <3>. QED
      BY <2>10, <3>1, <3>2 DEF sched_tick
  <2>. QED
    BY <2>2, <2>3, <2>4, <2>5, <2>6, <2>7, <2>8, <2>9, <2>10, <2>11, <2>12 DEF Next
<1>. QED
  BY <1>1, Invariance, PTL DEF Spec, Terminated

-----------------------------------------------------------------------------
(* Page tables.                                                            *)

\* No tick before a process has its own table, kill on live processes only, and
\* as many frames as processes are created.
Sheltered ==
  /\ TickPoints \cap {"found", "listed"} = {} /\ "ZOMBIE" \notin Killable
  /\ IsFiniteSet(Frames) /\ Cardinality(Frames) >= MaxPid

\* The slots S of table t have a page table each that is not among the frames f.
OwnTables(t, f, S) ==
  /\ \A s \in S : t[s].cr3 \notin f
  /\ \A s, r \in S : s # r => t[s].cr3 # t[r].cr3

\* A frame for each pid that is left, and one for the process being created.
FramesLeft(f, n, c) ==
  Cardinality(f) + n >= MaxPid + 1 + (IF c = "listed" THEN 1 ELSE 0)

\* TablesSafe is not inductive: it takes that frames do not run out, and that a
\* process without its own table is never one the timer can switch to.
TablesInv ==
  /\ Sheltered /\ cr3 \notin free /\ OwnTables(g_process_table, free, Complete)
  /\ FramesLeft(free, g_next_pid, cpu)
  /\ \A s \in Slot : g_process_table[s].context # "listed"

\* A step that gives and frees no table and makes nobody live.
LEMMA QuietTables ==
  ASSUME TablesInv, UNCHANGED <<free, g_next_pid>>, cr3' \notin free, cpu # "listed",
         cpu' # "listed",
         \A s \in Slot : /\ g_process_table'[s].cr3 = g_process_table[s].cr3
                         /\ g_process_table'[s].context # "listed"
                         /\ g_process_table'[s].state \in {"READY", "RUNNING"}
                            => g_process_table[s].state \in {"READY", "RUNNING"}
  PROVE  TablesInv'
<1>1. Complete' \subseteq Complete /\ Complete \subseteq Slot
  BY DEF Complete, Live, state
<1>2. OwnTables(g_process_table, free, Complete)'
  BY <1>1 DEF TablesInv, OwnTables
<1>. QED
  BY <1>2 DEF TablesInv, Sheltered, FramesLeft

\* A step that gives a new process the lowest free frame.
LEMMA GivenTable ==
  ASSUME TablesInv, TypeOK, NEW e \in Slot, free # {}, free' = AfterNewCr3, cr3' = cr3,
         g_process_table'[e].cr3 = NewCr3, cpu' # "listed", FramesLeft(free', g_next_pid', cpu'),
         \A s \in Slot : g_process_table'[s].context # "listed",
         \A s \in Slot \ {e} : /\ g_process_table'[s].cr3 = g_process_table[s].cr3
                               /\ s \in Live' => s \in Complete
  PROVE  TablesInv'
<1>. DEFINE x == Lowest(free)
<1>1. x \in free
  BY LowestIn, FramesAssumption DEF TypeOK
<1>2. free' = free \ {x} /\ g_process_table'[e].cr3 = x
  BY DEF AfterNewCr3, NewCr3
<1>. HIDE DEF x
<1>3. Complete' \subseteq Slot /\ Complete' \subseteq Live'
  BY DEF Complete, Live
<1>4. \A s \in Complete' \ {e} :
        /\ g_process_table'[s].cr3 = g_process_table[s].cr3 /\ s \in Complete
        /\ g_process_table[s].cr3 \notin free
  BY <1>3 DEF TablesInv, OwnTables
<1>5. OwnTables(g_process_table', free', Complete')
  <2>1. ASSUME NEW s \in Complete' PROVE g_process_table'[s].cr3 \notin free'
    BY <1>2, <1>4
  <2>2. ASSUME NEW s \in Complete', NEW r \in Complete', s # r
        PROVE  g_process_table'[s].cr3 # g_process_table'[r].cr3
    BY <1>1, <1>2, <1>4, <2>2 DEF TablesInv, OwnTables
  <2>. QED
    BY <2>1, <2>2 DEF OwnTables
<1>. QED
  BY <1>2, <1>5 DEF TablesInv, Sheltered

\* There is a frame for a process with a pid of its own.
LEMMA FrameFree ==
  ASSUME TablesInv, TypeOK, g_next_pid <= MaxPid \/ cpu = "listed"
  PROVE  /\ free # {} /\ Cardinality(free) \in Nat
         /\ Cardinality(AfterNewCr3) = Cardinality(free) - 1
<1>1. IsFiniteSet(free) /\ Cardinality(free) \in Nat
  BY FS_Subset, FS_CardinalityType DEF TablesInv, Sheltered, TypeOK
<1>2. g_next_pid \in Nat /\ g_next_pid <= MaxPid + 1 /\ MaxPid \in Nat
  BY SizesAssumption DEF TypeOK
<1>3. Cardinality(free) >= 1
  BY <1>1, <1>2 DEF TablesInv, FramesLeft
<1>4. free # {}
  BY <1>3, FS_EmptySet
<1>5. Lowest(free) \in free
  BY <1>4, LowestIn, FramesAssumption DEF TypeOK
<1>. QED
  BY <1>1, <1>4, <1>5, FS_RemoveElement DEF AfterNewCr3

\* Install does it, for a fork or an execve.
LEMMA InstalledTable ==
  ASSUME IInv, TablesInv, cpu = "user", cpu' # "listed", cr3' = cr3,
         NEW st \in {"READY", "RUNNING"}, NEW context \in Context, context # "listed",
         Install(st, context)
  PROVE  TablesInv'
<1>. DEFINE e == Lowest(Reusable)
<1>0. TypeOK
  BY DEF IInv
<1>1. /\ e \in Slot /\ g_process_table'[e].context = context
      /\ \A s \in Slot \ {e} : g_process_table'[s] = g_process_table[s]
  BY InstallInv
<1>2. g_process_table'[e].cr3 = NewCr3 /\ free' = AfterNewCr3
  BY <1>0, <1>1 DEF Install, Filled, Listed, PCB, TypeOK
<1>3. free # {} /\ g_next_pid <= MaxPid /\ g_next_pid' = g_next_pid + 1
      /\ Cardinality(free') = Cardinality(free) - 1 /\ Cardinality(free) \in Nat
  BY <1>0, <1>2, FrameFree DEF Install, NextPid
<1>4. FramesLeft(free', g_next_pid', cpu')
  <2>1. g_next_pid \in Nat /\ MaxPid \in Nat
    BY <1>0, SizesAssumption DEF TypeOK
  <2>2. Cardinality(free) + g_next_pid >= MaxPid + 1
    BY <1>3, <2>1 DEF TablesInv, FramesLeft
  <2>. QED
    BY <1>3, <2>1, <2>2 DEF FramesLeft
<1>. HIDE DEF e
<1>5. \A s \in Slot \ {e} : s \in Live' => s \in Complete
  BY <1>1 DEF Live, Complete, state
<1>6. \A s \in Slot : g_process_table'[s].context # "listed"
  BY <1>1 DEF TablesInv
<1>. QED
  BY <1>0, <1>1, <1>2, <1>3, <1>4, <1>5, <1>6, GivenTable

\* Every step keeps the tables apart.
LEMMA StepTables == IInv /\ TablesInv /\ [Next]_vars => TablesInv'
<1>. SUFFICES ASSUME IInv, TablesInv, [Next]_vars PROVE TablesInv'
  OBVIOUS
<1>0. /\ TypeOK /\ g_process_table \in [Slot -> PCB] /\ cur \in Slot
      /\ cr3 \notin free /\ \A s \in Slot : g_process_table[s].context # "listed"
  BY DEF IInv, TypeOK, TablesInv, cur
<1>1. LoaderLive /\ FrameLive
  BY DEF IInv, ThreadInv
<1>2. CASE loader_execute \/ process_set_current \/ other_syscall
  <2>1. /\ UNCHANGED <<g_process_table, free, g_next_pid, cr3>> /\ cpu # "listed" /\ cpu' # "listed"
    BY <1>2 DEF loader_execute, process_set_current, other_syscall, Return
  <2>. QED
    BY <1>0, <2>1, QuietTables
<1>3. CASE process_create_list
  <2>1. /\ cpu = "found" /\ cpu' = "listed" /\ UNCHANGED <<free, cr3, new>>
        /\ new.slot \in Reusable /\ new.pid = g_next_pid
    BY <1>1, <1>3 DEF process_create_list, LoaderLive
  <2>2. /\ g_next_pid' = g_next_pid + 1 /\ g_next_pid <= MaxPid
        /\ g_process_table' = [g_process_table EXCEPT ![new.slot] = Listed(@, g_next_pid, "READY")]
    BY <1>3, <2>1 DEF process_create_list, NextPid
  <2>3. /\ new.slot \in Slot
        /\ \A s \in Slot \ {new.slot} : g_process_table'[s] = g_process_table[s]
        /\ g_process_table'[new.slot].context = g_process_table[new.slot].context
    BY <1>0, <2>1, <2>2 DEF Listed, PCB, Reusable
  <2>4. Complete' \subseteq Complete \ {new.slot} /\ Complete \subseteq Slot
    BY <2>1, <2>3 DEF Complete, Live, state
  <2>5. OwnTables(g_process_table', free', Complete')
    BY <2>1, <2>3, <2>4 DEF TablesInv, OwnTables
  <2>6. FramesLeft(free', g_next_pid', cpu')
    <3>1. g_next_pid \in Nat /\ MaxPid \in Nat /\ Cardinality(free) \in Nat
      BY <1>0, <2>2, FrameFree, SizesAssumption DEF TypeOK
    <3>2. Cardinality(free) + g_next_pid >= MaxPid + 1
      BY <2>1, <3>1 DEF TablesInv, FramesLeft
    <3>. QED
      BY <2>1, <2>2, <3>1, <3>2 DEF FramesLeft
  <2>. QED
    BY <1>0, <2>1, <2>3, <2>5, <2>6 DEF TablesInv, Sheltered
<1>4. CASE process_create_fill
  <2>1. /\ cpu = "listed" /\ cpu' = "created" /\ UNCHANGED <<g_next_pid, cr3, new>>
        /\ free' = AfterNewCr3 /\ new.slot \in Slot
        /\ g_process_table' = [g_process_table EXCEPT ![new.slot] = Filled(@, "entry")]
    BY <1>1, <1>4 DEF process_create_fill, LoaderLive, NewLive
  <2>2. /\ \A s \in Slot \ {new.slot} : g_process_table'[s] = g_process_table[s]
        /\ g_process_table'[new.slot].cr3 = NewCr3
        /\ g_process_table'[new.slot].context = "entry"
    BY <1>0, <2>1 DEF Filled, PCB
  <2>3. free # {} /\ Cardinality(free') = Cardinality(free) - 1 /\ Cardinality(free) \in Nat
    BY <1>0, <2>1, FrameFree
  <2>4. FramesLeft(free', g_next_pid', cpu')
    <3>1. g_next_pid \in Nat /\ MaxPid \in Nat
      BY <1>0, SizesAssumption DEF TypeOK
    <3>2. Cardinality(free) + g_next_pid >= MaxPid + 1 + 1
      BY <2>1 DEF TablesInv, FramesLeft
    <3>. QED
      BY <2>1, <2>3, <3>1, <3>2 DEF FramesLeft
  <2>5. \A s \in Slot \ {new.slot} : s \in Live' => s \in Complete
    BY <2>1, <2>2 DEF Live, Complete, state
  <2>6. \A s \in Slot : g_process_table'[s].context # "listed"
    BY <1>0, <2>2
  <2>. QED
    BY <1>0, <2>1, <2>2, <2>3, <2>4, <2>5, <2>6, GivenTable
<1>5. CASE enter_user_mode
  <2>1. /\ cpu = "loading" /\ cpu' = "user" /\ UNCHANGED <<free, g_next_pid, cr3>>
        /\ \/ new.slot # NoSlot /\ g_process_table' = Entered(new.slot)
           \/ g_process_table' = g_process_table
    BY <1>5 DEF enter_user_mode
  <2>2. new.slot # NoSlot => NewLive
    BY <1>1, <2>1 DEF LoaderLive
  <2>3. \A s \in Slot : /\ g_process_table'[s].cr3 = g_process_table[s].cr3
                        /\ g_process_table'[s].context = g_process_table[s].context
                        /\ g_process_table'[s].state \in {"READY", "RUNNING"}
                           => g_process_table[s].state \in {"READY", "RUNNING"}
    BY <1>0, <2>1, <2>2 DEF Entered, PCB, NewLive, state
  <2>. QED
    BY <1>0, <2>1, <2>3, QuietTables
<1>6. CASE process_fork
  <2>1. g_process_table[cur].context \in Context
    BY <1>0 DEF PCB
  <2>. QED
    BY <1>0, <1>6, <2>1, InstalledTable DEF process_fork, Return
<1>7. CASE process_execve
  <2>1. "entry" \in Context
    BY DEF Context
  <2>2. cpu = "user" /\ cpu' = "user" /\ cr3' = cr3
    BY <1>7 DEF process_execve
  <2>3. CASE Install("RUNNING", "entry")
    BY <2>1, <2>2, <2>3, InstalledTable
  <2>4. CASE UNCHANGED <<g_process_table, g_current_proc, g_next_pid, free>>
    BY <1>0, <2>2, <2>4, QuietTables
  <2>. QED
    BY <1>7, <2>3, <2>4 DEF process_execve
<1>8. CASE sys_exit
  <2>. DEFINE mine == IF pid(cur) # 0 THEN Ended(g_process_table, cur) ELSE g_process_table
  <2>1. /\ cpu = "user" /\ cpu' \in {"shell", "lost"} /\ UNCHANGED <<free, g_next_pid, cr3>>
        /\ \/ frame \in Slot /\ g_process_table' = Ended(mine, frame)
           \/ g_process_table' = mine
    BY <1>8 DEF sys_exit
  <2>2. /\ mine \in [Slot -> PCB]
        /\ \A s \in Slot : /\ mine[s].cr3 = g_process_table[s].cr3
                           /\ mine[s].context = g_process_table[s].context
                           /\ mine[s].state \in {g_process_table[s].state, "ZOMBIE"}
    BY <1>0 DEF Ended, PCB, ProcessState
  <2>. HIDE DEF mine
  <2>3. \A s \in Slot : /\ g_process_table'[s].cr3 = g_process_table[s].cr3
                        /\ g_process_table'[s].context = g_process_table[s].context
                        /\ g_process_table'[s].state \in {g_process_table[s].state, "ZOMBIE"}
    BY <2>1, <2>2 DEF Ended, PCB
  <2>. QED
    BY <1>0, <2>1, <2>3, QuietTables
<1>9. ASSUME NEW left, g_process_table' = [g_process_table EXCEPT ![cur].time_slice = left],
             UNCHANGED <<free, g_next_pid, cr3>>, cpu # "listed", cpu' # "listed"
      PROVE  TablesInv'
  <2>1. \A s \in Slot : /\ g_process_table'[s].cr3 = g_process_table[s].cr3
                        /\ g_process_table'[s].context = g_process_table[s].context
                        /\ g_process_table'[s].state = g_process_table[s].state
    BY <1>0, <1>9 DEF PCB
  <2>. QED
    BY <1>0, <1>9, <2>1, QuietTables
<1>10. ASSUME NEW want \in {-1} \cup 1..MaxPid, NEW nohang \in BOOLEAN, process_waitpid(want, nohang)
       PROVE  TablesInv'
  <2>1. /\ cpu = "user" /\ UNCHANGED <<g_next_pid, free, cr3>> /\ cpu' \in {"lost", "user", "spin"}
    BY <1>10 DEF process_waitpid, Return
  <2>2. ASSUME NEW e, g_process_table' = [g_process_table EXCEPT ![e] = Reaped(@)]
        PROVE  TablesInv'
    <3>1. \A s \in Slot : /\ g_process_table'[s].cr3 = g_process_table[s].cr3
                          /\ g_process_table'[s].context = g_process_table[s].context
                          /\ g_process_table'[s].state \in {g_process_table[s].state, "UNUSED"}
      BY <1>0, <2>2 DEF Reaped, PCB
    <3>. QED
      BY <1>0, <2>1, <3>1, QuietTables
  <2>. QED
    BY <1>9, <1>10, <2>1, <2>2 DEF process_waitpid
<1>11. CASE sched_yield
  BY <1>9, <1>11 DEF sched_yield, Return
<1>12. ASSUME NEW s \in Slot, process_kill(s)
       PROVE  TablesInv'
  <2>1. /\ cpu = "shell" /\ UNCHANGED <<g_next_pid, cr3, cpu>> /\ state(s) \in Killable
        /\ g_process_table' = [g_process_table EXCEPT ![s] = Detached([@ EXCEPT !.state = "ZOMBIE"])]
        /\ free' = AfterDestroy(g_process_table[s])
    BY <1>12 DEF process_kill
  <2>2. s \in Complete
    BY <2>1, KillableAssumption DEF TablesInv, Sheltered, ProcessState, Complete, Live
  <2>3. /\ g_process_table'[s].state = "ZOMBIE"
        /\ g_process_table'[s].context = g_process_table[s].context
        /\ \A r \in Slot \ {s} : g_process_table'[r] = g_process_table[r]
    BY <1>0, <2>1 DEF Detached, PCB
  <2>4. Complete' \subseteq Complete \ {s} /\ Complete \subseteq Slot
    BY <2>1, <2>3 DEF Complete, Live, state
  <2>5. /\ free \subseteq free' /\ free' \subseteq free \cup {g_process_table[s].cr3}
        /\ cr3 \notin free' /\ free' \subseteq Frames
    BY <1>0, <2>1 DEF AfterDestroy, TypeOK
  <2>6. OwnTables(g_process_table', free', Complete')
    BY <2>2, <2>3, <2>4, <2>5 DEF TablesInv, OwnTables
  <2>7. FramesLeft(free', g_next_pid', cpu')
    <3>1. IsFiniteSet(free') /\ IsFiniteSet(free)
      BY <2>5, FS_Subset DEF TablesInv, Sheltered
    <3>2. Cardinality(free) <= Cardinality(free') /\ Cardinality(free) \in Nat
          /\ Cardinality(free') \in Nat
      BY <2>5, <3>1, FS_Subset, FS_CardinalityType
    <3>3. g_next_pid \in Nat /\ MaxPid \in Nat
      BY <1>0, SizesAssumption DEF TypeOK
    <3>4. Cardinality(free) + g_next_pid >= MaxPid + 1
      BY <2>1, <3>2, <3>3 DEF TablesInv, FramesLeft
    <3>. QED
      BY <2>1, <3>2, <3>3, <3>4 DEF FramesLeft
  <2>. QED
    BY <1>0, <2>1, <2>3, <2>5, <2>6, <2>7 DEF TablesInv, Sheltered
<1>13. CASE sched_tick
  <2>1. /\ cpu \in TickPoints /\ cpu # "listed" /\ UNCHANGED <<g_next_pid, free>>
    BY <1>13 DEF sched_tick, TablesInv, Sheltered
  <2>2. ASSUME NEW left, g_process_table' = [g_process_table EXCEPT ![cur].time_slice = left],
               UNCHANGED <<g_current_proc, cr3, cpu>>
        PROVE  TablesInv'
    BY <1>9, <2>1, <2>2
  <2>3. CASE sched_pick_next \notin {NoSlot, cur} /\ Switch(sched_pick_next)
    <3>. DEFINE next == sched_pick_next
    <3>1. next \in Slot /\ next # cur /\ state(next) \in {"READY", "RUNNING"}
      BY <1>0, <2>3, PickNext DEF cur
    <3>2. /\ g_process_table' = [g_process_table EXCEPT ![cur] = Preempted(@), ![next] = Dispatched(@)]
          /\ cpu' \in Resume(g_process_table[next].context)
          /\ cr3' \in {cr3, g_process_table[next].cr3}
      BY <2>3 DEF Switch
    <3>. HIDE DEF next
    <3>3. /\ g_process_table'[cur] = Preempted(g_process_table[cur])
          /\ g_process_table'[next] = Dispatched(g_process_table[next])
          /\ \A s \in Slot \ {cur, next} : g_process_table'[s] = g_process_table[s]
      BY <1>0, <3>1, <3>2
    <3>4. /\ g_process_table'[cur].context = cpu
          /\ g_process_table'[cur].cr3 = g_process_table[cur].cr3
          /\ g_process_table'[cur].state \in {"READY", "RUNNING"}
             => g_process_table[cur].state \in {"READY", "RUNNING"}
      BY <1>0, <3>3 DEF Preempted, PCB
    <3>5. /\ g_process_table'[next].context \in {g_process_table[next].context, "stale"}
          /\ g_process_table'[next].cr3 = g_process_table[next].cr3
      BY <1>0, <3>1, <3>3 DEF Dispatched, PCB
    <3>6. cpu' # "listed"
      BY <1>0, <3>1, <3>2 DEF Resume
    <3>7. cr3' \notin free
      <4>1. next \in Complete
        BY <2>1, <3>1 DEF Complete, Live
      <4>. QED
        BY <1>0, <3>2, <4>1 DEF TablesInv, OwnTables
    <3>8. \A s \in Slot : /\ g_process_table'[s].cr3 = g_process_table[s].cr3
                          /\ g_process_table'[s].context # "listed"
                          /\ g_process_table'[s].state \in {"READY", "RUNNING"}
                             => g_process_table[s].state \in {"READY", "RUNNING"}
      BY <1>0, <2>1, <3>1, <3>3, <3>4, <3>5 DEF state
    <3>. QED
      BY <2>1, <3>6, <3>7, <3>8, QuietTables
  <2>. QED
    BY <1>13, <2>2, <2>3 DEF sched_tick
<1>14. CASE UNCHANGED vars
  BY <1>14
  DEF vars, TablesInv, OwnTables, FramesLeft, Sheltered, Complete, Live, state
<1>. QED
  BY <1>2, <1>3, <1>4, <1>5, <1>6, <1>7, <1>8, <1>10, <1>11, <1>12, <1>13, <1>14 DEF Next

\* The page table in use and those of live processes are never free for reuse, and no
\* two live processes share one, for any number of processes and frames, under the
\* conditions Sheltered names: without any of them the code breaks it.
THEOREM TablesSafeHolds == Sheltered /\ Spec => []TablesSafe
<1>1. Sheltered => Undivided
  BY DEF Sheltered, Undivided
<1>2. Sheltered /\ Init => TablesInv
  <2>. SUFFICES ASSUME Sheltered, Init PROVE TablesInv
    OBVIOUS
  <2>1. /\ free = Frames /\ cr3 = KernelPml4 /\ cpu = "shell" /\ g_next_pid = 1
        /\ \A s \in Slot : /\ g_process_table[s].context = "zero"
                           /\ s \in Live => s = Shell
        /\ Shell \in Slot /\ g_process_table[Shell].cr3 = KernelPml4
    BY SizesAssumption DEF Init, Live, state, Shell, Slot
  <2>2. Complete \subseteq {Shell}
    BY <2>1 DEF Complete, Live
  <2>3. OwnTables(g_process_table, free, Complete)
    BY <2>1, <2>2, FramesAssumption DEF OwnTables
  <2>4. FramesLeft(free, g_next_pid, cpu)
    <3>1. Cardinality(Frames) \in Nat /\ MaxPid \in Nat /\ Cardinality(Frames) >= MaxPid
      BY FS_CardinalityType, SizesAssumption DEF Sheltered
    <3>. QED
      BY <2>1, <3>1 DEF FramesLeft
  <2>. QED
    BY <2>1, <2>3, <2>4, FramesAssumption DEF TablesInv
<1>3. TablesInv => TablesSafe
  BY DEF TablesInv, OwnTables, TablesSafe
<1>. QED
  BY <1>1, <1>2, <1>3, StepTables, Invariance, PTL DEF Spec

=============================================================================
