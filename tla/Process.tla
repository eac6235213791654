------------------------------ MODULE Process ------------------------------
(***************************************************************************)
(* Processes and the scheduler: kernel/proc/process.cpp, kernel/proc/      *)
(* sched.cpp, the process part of loader_execute (ELF branch), the return  *)
(* path of system calls and the page-table frames of kernel/mm/vmm.cpp.    *)
(*                                                                         *)
(* One processor.  The kernel shell is slot 0.  A program started by the   *)
(* shell runs on top of the shell's own call of loader_execute, and the    *)
(* exit system call returns into that call, whoever makes it.  System      *)
(* calls run with interrupts masked, so each is one step.  The shell, the  *)
(* loader and user code run with interrupts enabled: creating a process    *)
(* from the shell is one step per point where a tick makes a difference.   *)
(*                                                                         *)
(* A saved register set is abstracted to what it would resume.  Memory     *)
(* contents, kernel stacks, names, exit codes and tick totals are left out.*)
(***************************************************************************)
EXTENDS Integers, FiniteSets

CONSTANTS
  MAX_PROCESSES,          \* size of g_process_table
  SCHED_DEFAULT_QUANTUM,  \* ticks a process runs before it is preempted
  Frames,                 \* physical frames for page tables
  KernelPml4,             \* the page table the kernel booted with
  Killable,               \* states of the processes the kill command is used on
  TickPoints,             \* what the processor may be doing when the timer ticks
  MaxPid                  \* bound on the pids handed out

ASSUME SizesAssumption ==
  /\ MAX_PROCESSES \in Nat \ {0, 1}
  /\ SCHED_DEFAULT_QUANTUM \in Nat \ {0}
  /\ MaxPid \in Nat

ASSUME FramesAssumption ==
  Frames \subseteq Nat \ {0} /\ KernelPml4 \in Nat \ {0} /\ KernelPml4 \notin Frames

VARIABLES
  g_process_table,  \* slot -> process control block
  g_current_proc,   \* the slot of the current process
  g_next_pid,
  free,             \* frames the physical allocator has free
  cr3,              \* the page table register
  cpu,              \* what the processor is doing
  new,              \* loader_execute's process: its slot, the next pid it read
  frame             \* the loader_execute call that exit returns into

vars == <<g_process_table, g_current_proc, g_next_pid, free, cr3, cpu, new, frame>>

Slot == 0..(MAX_PROCESSES - 1)
Shell == 0
NoSlot == -1

ProcessState == {"UNUSED", "READY", "RUNNING", "ZOMBIE"}

\* The shell's thread: at its prompt, in process_create (a slot was found,
\* the process is listed as READY, its control block is complete), or in the
\* rest of loader_execute.
Thread == {"shell", "found", "listed", "created", "loading"}

\* What a saved context resumes: nothing (zeroed memory), a program at its
\* entry point, a program or the shell's thread where the timer interrupted
\* it, or a point of that thread that was already resumed once.
Context == {"zero", "entry", "user", "stale"} \cup Thread

\* "spin": waitpid polls for a live child.  "lost": control went to a call
\* frame that no longer exists.  "halted": the fault handler stopped the machine.
Cpu == {"user", "spin", "lost", "halted"} \cup Thread

NoProcess == [slot |-> NoSlot, pid |-> 0]

\* The call exit returns into (user_mode_kernel_rsp): loader_execute for a
\* slot, or for no slot (process_create had found the table full), or one
\* made inside execve on the system call stack.  NoFrame: it has returned,
\* and syscall_exit_requested is still set.
NoFrame == -1
Unowned == -2
Nested == -3
LoaderFrame == {NoFrame, Unowned, Nested} \cup Slot

ASSUME KillableAssumption == Killable \subseteq ProcessState \ {"UNUSED"}
ASSUME TickPointsAssumption == TickPoints \subseteq Thread \cup {"user"}

PCB == [pid : Nat, state : ProcessState, parent_pid : Nat,
        cr3 : Frames \cup {KernelPml4, 0}, time_slice : 0..SCHED_DEFAULT_QUANTUM,
        context : Context]

state(s) == g_process_table[s].state
pid(s) == g_process_table[s].pid
Used == {s \in Slot : state(s) # "UNUSED"}
Live == {s \in Slot : state(s) \in {"READY", "RUNNING"}}
cur == g_current_proc

-----------------------------------------------------------------------------
(* Page tables.                                                            *)

Lowest(S) == CHOOSE x \in S : \A y \in S : x <= y

\* vmm_create_user_pml4, and the fallback of its callers to the table in use.
NewCr3 == IF free = {} THEN cr3 ELSE Lowest(free)
AfterNewCr3Kept == free  \* the frame stays free
AfterNewCr3 == IF free = {} THEN free ELSE free \ {Lowest(free)}

\* vmm_get_kernel_pml4 reads the register: a table is freed unless in use.
AfterDestroy(p) ==
  IF p.cr3 # 0 /\ p.cr3 # cr3 THEN free \cup ({p.cr3} \cap Frames) ELSE free
Detached(p) == [p EXCEPT !.cr3 = IF @ # 0 THEN cr3 ELSE @]

-----------------------------------------------------------------------------
(* Creation.                                                               *)

\* The slots process_create and process_fork may take: a zombie's will do.
Reusable == {s \in Slot \ {Shell} : state(s) \in {"UNUSED", "ZOMBIE"}}

NextPidKept(n) == n  \* the pid is not consumed
NextPid(n) == n + 1

\* A control block as it is taken for pid n, and as it is then filled in.
Listed(p, n, st) == [p EXCEPT !.pid = n, !.state = st]
Filled(p, context) ==
  [p EXCEPT !.parent_pid = pid(cur), !.cr3 = NewCr3,
            !.time_slice = SCHED_DEFAULT_QUANTUM, !.context = context]

\* Both at once, in a system call.
Install(st, context) ==
  /\ Reusable # {} /\ g_next_pid <= MaxPid
  /\ g_process_table' = [g_process_table EXCEPT ![Lowest(Reusable)] =
                           Filled(Listed(@, g_next_pid, st), context)]
  /\ g_next_pid' = NextPid(g_next_pid)
  /\ free' = AfterNewCr3

\* loader_execute, called from the shell.  process_create looks for a slot (a
\* full table makes a program without a process), ...
loader_execute ==
  /\ cpu = "shell"
  /\ \/ /\ Reusable # {}
        /\ new' = [slot |-> Lowest(Reusable), pid |-> g_next_pid]
        /\ cpu' = "found"
     \/ /\ Reusable = {}
        /\ new' = NoProcess
        /\ cpu' = "loading"
  /\ UNCHANGED <<g_process_table, g_current_proc, g_next_pid, free, cr3, frame>>

\* ... takes the next pid, read before or after a tick, and lists the process
\* as READY, ...
process_create_list ==
  /\ cpu = "found"
  /\ \E n \in {new.pid, g_next_pid} :
       /\ n <= MaxPid
       /\ g_process_table' = [g_process_table EXCEPT ![new.slot] = Listed(@, n, "READY")]
       /\ g_next_pid' = NextPid(n)
  /\ cpu' = "listed"
  /\ UNCHANGED <<g_current_proc, free, cr3, new, frame>>

\* ... and fills in the rest.
process_create_fill ==
  /\ cpu = "listed"
  /\ g_process_table' = [g_process_table EXCEPT ![new.slot] = Filled(@, "entry")]
  /\ free' = AfterNewCr3
  /\ cpu' = "created"
  /\ UNCHANGED <<g_current_proc, g_next_pid, cr3, new, frame>>

process_set_current ==
  /\ cpu = "created"
  /\ g_current_proc' = new.slot
  /\ cpu' = "loading"
  /\ UNCHANGED <<g_process_table, g_next_pid, free, cr3, new, frame>>

EnteredUnmarked(s) == g_process_table  \* the process stays READY
Entered(s) == [g_process_table EXCEPT ![s].state = "RUNNING"]

\* The end of loader_execute; the page table register keeps its value.
enter_user_mode ==
  /\ cpu = "loading"
  /\ cpu' = "user"
  /\ new' = NoProcess
  /\ \/ /\ new.slot # NoSlot
        /\ g_process_table' = Entered(new.slot)
        /\ frame' = new.slot
     \/ /\ new.slot = NoSlot
        /\ frame' = Unowned
        /\ UNCHANGED g_process_table
  /\ UNCHANGED <<g_current_proc, g_next_pid, free, cr3>>

-----------------------------------------------------------------------------
(* System calls.                                                           *)

\* The return path: once exit was requested and its frame is gone, every
\* system call goes the way of exit.
Return == cpu' = IF frame = NoFrame THEN "lost" ELSE "user"

\* process_fork copies the parent's saved context, not its registers.
process_fork ==
  /\ cpu = "user"
  /\ Install("READY", g_process_table[cur].context)
  /\ Return
  /\ UNCHANGED <<g_current_proc, cr3, new, frame>>

\* process_execve runs the new image from a loader_execute of its own, on the
\* stack that every later system call starts over on.
process_execve ==
  /\ cpu = "user"
  /\ \/ Install("RUNNING", "entry") /\ g_current_proc' = Lowest(Reusable)
     \/ Reusable = {} /\ UNCHANGED <<g_process_table, g_current_proc, g_next_pid, free>>
  /\ frame' = Nested
  /\ UNCHANGED <<cr3, cpu, new>>

\* SYS_EXIT and its return path: the loader_execute call that is live marks
\* its own process and makes the shell current.
Ended(table, s) == [table EXCEPT ![s].state = "ZOMBIE"]

sys_exit ==
  LET mine == IF pid(cur) # 0 THEN Ended(g_process_table, cur) ELSE g_process_table
  IN  /\ cpu = "user"
      /\ \/ /\ frame \in Slot
            /\ g_process_table' = Ended(mine, frame)
            /\ g_current_proc' = Shell
            /\ cpu' = "shell"
         \/ /\ frame \notin Slot
            /\ g_process_table' = mine
            /\ cpu' = IF frame = Unowned THEN "shell" ELSE "lost"
            /\ UNCHANGED g_current_proc
      /\ frame' = NoFrame
      /\ UNCHANGED <<g_next_pid, free, cr3, new>>

\* process_waitpid(want, ...): reap the first dead child that matches.  With a
\* live match and no WNOHANG it polls for ever: interrupts stay masked.
Children(want) ==
  {s \in Used \ {Shell} : /\ g_process_table[s].parent_pid = pid(cur) \/ pid(cur) = 0
                          /\ want = -1 \/ pid(s) = want}
Dead(want) == {s \in Children(want) : state(s) = "ZOMBIE"}

Reaped(p) == [p EXCEPT !.state = "UNUSED", !.pid = 0]

process_waitpid(want, nohang) ==
  /\ cpu = "user"
  /\ \/ /\ Dead(want) # {}
        /\ g_process_table' = [g_process_table EXCEPT ![Lowest(Dead(want))] = Reaped(@)]
        /\ Return
     \/ /\ Dead(want) = {} /\ Children(want) # {} /\ ~nohang
        /\ g_process_table' = [g_process_table EXCEPT ![cur].time_slice = 0]
        /\ cpu' = "spin"
  /\ UNCHANGED <<g_current_proc, g_next_pid, free, cr3, new, frame>>

\* SYS_SCHED_YIELD: the next tick ends the quantum.
sched_yield ==
  /\ cpu = "user"
  /\ g_process_table' = [g_process_table EXCEPT ![cur].time_slice = 0]
  /\ Return
  /\ UNCHANGED <<g_current_proc, g_next_pid, free, cr3, new, frame>>

\* Any other call, or one of the above that fails.
other_syscall ==
  /\ cpu = "user"
  /\ Return
  /\ UNCHANGED <<g_process_table, g_current_proc, g_next_pid, free, cr3, new, frame>>

\* process_kill, from the shell's kill command.
process_kill(s) ==
  /\ cpu = "shell" /\ state(s) \in Killable /\ pid(s) # 0
  /\ g_process_table' = [g_process_table EXCEPT ![s] = Detached([@ EXCEPT !.state = "ZOMBIE"])]
  /\ free' = AfterDestroy(g_process_table[s])
  /\ UNCHANGED <<g_current_proc, g_next_pid, cr3, cpu, new, frame>>

-----------------------------------------------------------------------------
(* The scheduler.                                                          *)

\* sched_pick_next: the first READY process after the current one in table
\* order, itself last; else the shell if it is READY or RUNNING.
Distance(s) == (s - cur - 1 + MAX_PROCESSES) % MAX_PROCESSES
ReadySlots == {s \in Slot : state(s) = "READY"}
Fallback == IF state(Shell) \in {"READY", "RUNNING"} THEN Shell ELSE NoSlot

\* Always from the start of the table.
sched_pick_first == IF ReadySlots # {} THEN Lowest(ReadySlots) ELSE Fallback

sched_pick_next ==
  IF ReadySlots # {}
  THEN CHOOSE s \in ReadySlots : \A t \in ReadySlots : Distance(s) <= Distance(t)
  ELSE Fallback

\* What loading a context leads to.  At its entry point a program is resumed
\* only in a forked copy, with the stack pointer its slot had before.
Resume(context) ==
  CASE context = "zero"  -> {"halted"}
    [] context = "stale" -> {"lost"}
    [] context = "entry" -> {"user", "halted"}
    [] OTHER             -> {context}

\* The rest of the current quantum after this tick.
LeftUnchecked == g_process_table[cur].time_slice - 1
Left == IF g_process_table[cur].time_slice > 0 THEN g_process_table[cur].time_slice - 1 ELSE 0

\* The current process as the scheduler leaves it.
PreemptedAny(p) ==
  [p EXCEPT !.context = cpu, !.time_slice = SCHED_DEFAULT_QUANTUM, !.state = "READY"]
Preempted(p) ==
  [p EXCEPT !.context = cpu, !.time_slice = SCHED_DEFAULT_QUANTUM,
            !.state = IF @ = "RUNNING" THEN "READY" ELSE @]

\* A context in the kernel is good for one use.
Dispatched(p) ==
  [p EXCEPT !.state = "RUNNING", !.time_slice = SCHED_DEFAULT_QUANTUM,
            !.context = IF @ \in Thread THEN "stale" ELSE @]

Switch(next) ==
  LET p == g_process_table[next]
  IN  /\ g_process_table' = [g_process_table EXCEPT ![cur] = Preempted(@), ![next] = Dispatched(@)]
      /\ g_current_proc' = next
      /\ cr3' = IF p.cr3 # 0 /\ p.cr3 # g_process_table[cur].cr3 THEN p.cr3 ELSE cr3
      /\ cpu' \in Resume(p.context)

sched_tick ==
  /\ cpu \in TickPoints
  /\ \/ /\ Left # 0
        /\ g_process_table' = [g_process_table EXCEPT ![cur].time_slice = Left]
        /\ UNCHANGED <<g_current_proc, cr3, cpu>>
     \/ /\ Left = 0 /\ sched_pick_next \in {NoSlot, cur}
        /\ g_process_table' = [g_process_table EXCEPT ![cur].time_slice = SCHED_DEFAULT_QUANTUM]
        /\ UNCHANGED <<g_current_proc, cr3, cpu>>
     \/ /\ Left = 0 /\ sched_pick_next \notin {NoSlot, cur}
        /\ Switch(sched_pick_next)
  /\ UNCHANGED <<g_next_pid, free, new, frame>>

-----------------------------------------------------------------------------
Init ==
  /\ g_process_table = [s \in Slot |->
       [pid |-> 0, state |-> IF s = Shell THEN "RUNNING" ELSE "UNUSED", parent_pid |-> 0,
        cr3 |-> IF s = Shell THEN KernelPml4 ELSE 0,
        time_slice |-> SCHED_DEFAULT_QUANTUM, context |-> "zero"]]
  /\ g_current_proc = Shell
  /\ g_next_pid = 1
  /\ free = Frames
  /\ cr3 = KernelPml4
  /\ cpu = "shell"
  /\ new = NoProcess
  /\ frame = NoFrame

Next ==
  \/ loader_execute
  \/ process_create_list
  \/ process_create_fill
  \/ process_set_current
  \/ enter_user_mode
  \/ process_fork
  \/ process_execve
  \/ sys_exit
  \/ \E want \in {-1} \cup 1..MaxPid, nohang \in BOOLEAN : process_waitpid(want, nohang)
  \/ sched_yield
  \/ other_syscall
  \/ \E s \in Slot : process_kill(s)
  \/ sched_tick

Spec == Init /\ [][Next]_vars

\* The timer keeps ticking whenever interrupts are enabled.
FairSpec == Spec /\ WF_vars(sched_tick)

-----------------------------------------------------------------------------
(* Properties.                                                             *)

\* Every field of the process table, the current process, the allocator and
\* the page table register stays in its range; a time slice never goes below 0.
TypeOK ==
  /\ g_process_table \in [Slot -> PCB]
  /\ g_current_proc \in Slot
  /\ g_next_pid \in 1..(MaxPid + 1)
  /\ free \subseteq Frames
  /\ cr3 \in Frames \cup {KernelPml4}
  /\ cpu \in Cpu
  /\ new \in [slot : Slot \cup {NoSlot}, pid : 0..(MaxPid + 1)]
  /\ frame \in LoaderFrame

\* process_get_by_pid and the round robin both look processes up by pid: no
\* two slots in use have the same one, zombies whose slot was taken included.
\* It takes that no tick separates process_create's read of g_next_pid from its
\* write (process.cpp 62): a process created in between would share its pid.
PidUnique == \A s, t \in Used : s # t => pid(s) # pid(t)

\* While a program executes, the process table says that the current process
\* is RUNNING: that is what the next tick turns into READY, and a process in
\* any other state would not be requeued.
UserIsRunning == cpu = "user" => state(cur) = "RUNNING"

\* "Process %u terminated.": no step gives a process that exited or was killed
\* a live state again under the same pid, whatever the scheduler, the loader
\* and wait do with its slot.
Terminated ==
  [][\A s \in Slot : state(s) = "ZOMBIE" /\ g_process_table'[s].pid = pid(s)
       => g_process_table'[s].state = "ZOMBIE"]_vars

\* As long as the kernel is in control, the page table in use and those of the
\* live processes are not free for reuse, and no two live processes have one
\* table.  It takes enough frames, kill used on live processes only, and no
\* tick before process_create has given the new process its own table.
Complete == Live \ (IF cpu = "listed" THEN {new.slot} ELSE {})

TablesSafe ==
  cpu \notin {"lost", "halted"} =>
    /\ cr3 \notin free
    /\ \A s \in Complete : g_process_table[s].cr3 \notin free
    /\ \A s, t \in Complete : s # t => g_process_table[s].cr3 # g_process_table[t].cr3

\* Round robin: a process that is READY becomes the current one (or stops being
\* READY) unless the machine stops or wait polls with interrupts masked.
NoStarvation ==
  \A s \in Slot : state(s) = "READY"
                    ~> (s = cur \/ state(s) # "READY" \/ cpu \in {"spin", "lost", "halted"})

\* "Preemptive round-robin scheduler initialized": the context a preemption
\* switches to is one that was saved or set up before.
DispatchesSaved == cpu = "halted" => g_process_table[cur].context # "zero"
=============================================================================
