------------------------------- MODULE Calls -------------------------------
(***************************************************************************)
(* What the numbers programs hold lead to: descriptors, sockets and Win32   *)
(* handles (kernel/syscall/syscall.cpp, win32/win32.cpp, and the tables of  *)
(* fs/vfs.cpp and net/socket.cpp they look numbers up in).                  *)
(*                                                                         *)
(* Linux and Windows programs use the same two tables; a handle is a        *)
(* descriptor's number, or one of three numbers for the console.  Programs  *)
(* keep to the rules: they use and close what they were given, once, and    *)
(* they neither close nor duplicate the console's handles.  Modules FdTable *)
(* and Sockets have the rest of the tables' state; here an object is a file, *)
(* an end of a pipe or a socket, and lives as long as an entry has it.      *)
(***************************************************************************)
EXTENDS Integers, Sequences, FiniteSets, FiniteSetsExt

CONSTANTS
  MAX_FDS,            \* MAX_OPEN_FILES
  FD_SOCKET_OFFSET,
  MAX_SOCKETS,
  PSEUDO_STDIN_HANDLE, PSEUDO_STDOUT_HANDLE, PSEUDO_STDERR_HANDLE,
  MaxObjects          \* bound on objects at a time

\* Descriptors come before sockets, the console's three before the others.
ASSUME CallsAssumption ==
  /\ MAX_FDS \in Nat /\ MAX_FDS >= 3 /\ FD_SOCKET_OFFSET \in Nat /\ FD_SOCKET_OFFSET >= MAX_FDS
  /\ MAX_SOCKETS \in Nat /\ MaxObjects \in Nat

VARIABLES
  fd_table,      \* for every descriptor what it leads to
  socket_table,
  given,         \* the numbers programs hold, and what for
  process_open,  \* CreateProcessA has given a handle for the process
  stray          \* CloseHandle of such a handle has closed descriptor 1

callVars == <<fd_table, socket_table, given, process_open, stray>>

NoObject == 0
Console == -1
Closed == NoObject
FdNumbers == 0..(MAX_FDS - 1)
SocketSlots == 0..(MAX_SOCKETS - 1)
Numbers == 0..(FD_SOCKET_OFFSET + MAX_SOCKETS)
ProcessHandle == 1

Held(n, object) == [number |-> n, object |-> object]
HeldObjects == {g.object : g \in given}
Fresh == Min((1..MaxObjects) \ HeldObjects)
\* What programs do with descriptor 1 after CloseHandle has closed it under them
\* is not followed.
Theirs == {g \in given : g.number # ProcessHandle \/ ~stray}
RoomFor(k) == Cardinality(HeldObjects \ {Console}) + k <= MaxObjects

----------------------------------------------------------------------------
(* Where a call on a number leads.                                         *)

sock_is_socket(n) ==
  /\ n >= FD_SOCKET_OFFSET /\ n < FD_SOCKET_OFFSET + MAX_SOCKETS
  /\ socket_table[n - FD_SOCKET_OFFSET] # Closed

SocketOf(n) == IF sock_is_socket(n) THEN socket_table[n - FD_SOCKET_OFFSET] ELSE NoObject

\* An entry without a node is the console, but only at the console's numbers.
VfsReaches(n, consoles) ==
  IF n \notin FdNumbers \/ fd_table[n] = Closed THEN NoObject
  ELSE IF fd_table[n] = Console /\ n \notin consoles THEN NoObject ELSE fd_table[n]

vfs_read_reaches(n) == VfsReaches(n, {0})
vfs_write_reaches(n) == VfsReaches(n, {1, 2})

sys_read(n) == IF sock_is_socket(n) THEN SocketOf(n) ELSE vfs_read_reaches(n)

Streams == {1, 2}

\* The console's numbers print even when they are closed.
sys_write(n) ==
  IF sock_is_socket(n) THEN SocketOf(n)
  ELSE IF n \in Streams /\ fd_table[n] \in {Closed, Console} THEN Console
  ELSE vfs_write_reaches(n)

WriteFile(h) ==
  IF h \in {PSEUDO_STDOUT_HANDLE, PSEUDO_STDERR_HANDLE} THEN Console ELSE vfs_write_reaches(h)

ReadFile(h) == vfs_read_reaches(h)

----------------------------------------------------------------------------
(* Calls that give numbers.                                                *)

FreeFds(from) == {n \in FdNumbers : n >= from /\ fd_table[n] = Closed}

\* open, openat and CreateFileA of a file that is there or is created.
open ==
  /\ FreeFds(3) # {} /\ RoomFor(1)
  /\ fd_table' = [fd_table EXCEPT ![Min(FreeFds(3))] = Fresh]
  /\ given' = given \cup {Held(Min(FreeFds(3)), Fresh)}
  /\ UNCHANGED <<socket_table, process_open, stray>>

\* pipe, pipe2 and CreatePipe.
pipe ==
  LET r == Min(FreeFds(3))
      w == Min(FreeFds(3) \ {r})
      other == Min((1..MaxObjects) \ (HeldObjects \cup {Fresh}))
  IN  /\ Cardinality(FreeFds(3)) >= 2 /\ RoomFor(2)
      /\ fd_table' = [fd_table EXCEPT ![r] = Fresh, ![w] = other]
      /\ given' = given \cup {Held(r, Fresh), Held(w, other)}
      /\ UNCHANGED <<socket_table, process_open, stray>>

\* socket, accept and WinSock's socket.
sock_create ==
  LET free == {i \in SocketSlots : socket_table[i] = Closed}
  IN  /\ free # {} /\ RoomFor(1)
      /\ socket_table' = [socket_table EXCEPT ![Min(free)] = Fresh]
      /\ given' = given \cup {Held(FD_SOCKET_OFFSET + Min(free), Fresh)}
      /\ UNCHANGED <<fd_table, process_open, stray>>

\* Faulty variant: the lowest number is taken, free or not.
DupNumbers_any == FdNumbers

DupNumbers == FreeFds(0)

\* dup and DuplicateHandle, from the lowest number on; sockets are not found.
dup(g) ==
  /\ g.number \in FdNumbers /\ fd_table[g.number] # Closed /\ DupNumbers # {}
  /\ fd_table' = [fd_table EXCEPT ![Min(DupNumbers)] = fd_table[g.number]]
  /\ given' = given \cup {Held(Min(DupNumbers), g.object)}
  /\ UNCHANGED <<socket_table, process_open, stray>>

dup2(g, n) ==
  /\ g.number \in FdNumbers /\ fd_table[g.number] # Closed /\ n # g.number
  /\ fd_table' = [fd_table EXCEPT ![n] = fd_table[g.number]]
  /\ given' = {h \in given : h.number # n} \cup {Held(n, g.object)}
  /\ UNCHANGED <<socket_table, process_open, stray>>

----------------------------------------------------------------------------
(* Calls that take them back.                                              *)

VfsClosed(n) == IF n \in FdNumbers THEN [fd_table EXCEPT ![n] = Closed] ELSE fd_table
SocketClosed(n) == [socket_table EXCEPT ![n - FD_SOCKET_OFFSET] = Closed]

CloseRoute(n) ==
  IF sock_is_socket(n) THEN [fds |-> fd_table, sockets |-> SocketClosed(n)]
  ELSE [fds |-> VfsClosed(n), sockets |-> socket_table]

sys_close(g) ==
  /\ fd_table' = CloseRoute(g.number).fds /\ socket_table' = CloseRoute(g.number).sockets
  /\ given' = given \ {g}
  /\ UNCHANGED <<process_open, stray>>

CloseHandle(g) ==
  /\ g.number \in FdNumbers
  /\ fd_table' = VfsClosed(g.number)
  /\ given' = given \ {g}
  /\ UNCHANGED <<socket_table, process_open, stray>>

closesocket(g) ==
  /\ sock_is_socket(g.number)
  /\ socket_table' = SocketClosed(g.number)
  /\ given' = given \ {g}
  /\ UNCHANGED <<fd_table, process_open, stray>>

\* The handles for process and thread are 1, whatever descriptor 1 is.
CreateProcessA ==
  /\ ~process_open /\ process_open' = TRUE
  /\ UNCHANGED <<fd_table, socket_table, given, stray>>

CloseHandle_process ==
  /\ process_open /\ process_open' = FALSE
  /\ fd_table' = VfsClosed(ProcessHandle)
  /\ stray' = TRUE
  /\ UNCHANGED <<socket_table, given>>

----------------------------------------------------------------------------
CallsInit ==
  /\ fd_table = [n \in FdNumbers |-> IF n \in 0..2 THEN Console ELSE Closed]
  /\ socket_table = [i \in SocketSlots |-> Closed]
  /\ given = {Held(n, Console) : n \in 0..2}
  /\ process_open = FALSE /\ stray = FALSE

CallsNext ==
  \/ open \/ pipe \/ sock_create
  \/ \E g \in Theirs : dup(g) \/ sys_close(g) \/ CloseHandle(g) \/ closesocket(g)
  \/ \E g \in Theirs : \E n \in FdNumbers : dup2(g, n)
  \/ CreateProcessA \/ CloseHandle_process

CallsSpec == CallsInit /\ [][CallsNext]_callVars

----------------------------------------------------------------------------
(* Properties.                                                             *)

Meant(n) == IF \E g \in given : g.number = n THEN (CHOOSE g \in given : g.number = n).object
            ELSE NoObject
Pseudo == {PSEUDO_STDIN_HANDLE, PSEUDO_STDOUT_HANDLE, PSEUDO_STDERR_HANDLE}

\* No call on a number leads to anything but what the number was given for, and
\* on a number that was closed to nothing, also when the number has been given
\* again since.  Two exceptions: writes to 1 and 2 print when these are closed,
\* and Win32 handles with the numbers of the console's.  After CloseHandle of a
\* process descriptor 1 is anybody's.
NeverMisrouted ==
  \A n \in Numbers : n # ProcessHandle \/ ~stray =>
    /\ {sys_read(n), vfs_read_reaches(n), vfs_write_reaches(n), SocketOf(n)} \subseteq {Meant(n), NoObject}
    /\ sys_write(n) \in {Meant(n), NoObject} \/ (n \in {1, 2} /\ sys_write(n) = Console)
    /\ n \notin Pseudo => {ReadFile(n), WriteFile(n)} \subseteq {Meant(n), NoObject}

\* read and write reach what the number was given for, be it a file, a pipe or
\* a socket; readv, writev and the Win32 calls on files do for descriptors.
\* The console is reached by its own numbers only, not by duplicates of them.
ReachesOwn ==
  \A g \in Theirs : g.object # Console =>
    /\ sys_read(g.number) = g.object /\ sys_write(g.number) = g.object
    /\ g.number \in FdNumbers =>
         vfs_read_reaches(g.number) = g.object /\ vfs_write_reaches(g.number) = g.object

\* When its last number has been closed an object is in no table any more, by
\* whichever of the three calls, and no number has two owners.
NothingLeft ==
  /\ \A n \in FdNumbers : fd_table[n] # Closed => fd_table[n] \in HeldObjects
  /\ \A i \in SocketSlots : socket_table[i] # Closed => socket_table[i] \in HeldObjects
  /\ ~stray => \A g, h \in given : g # h => g.number # h.number

\* A number leads to what it was given for, by every call and in every order of
\* opening, duplicating and closing (syscall.cpp, win32.cpp).
NumbersLead == NeverMisrouted /\ ReachesOwn /\ NothingLeft

=============================================================================
