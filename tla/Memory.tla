------------------------------- MODULE Memory -------------------------------
(***************************************************************************)
(* Page frames, the kernel heap and the memory of programs                 *)
(* (kernel/mm/pmm.cpp, heap.cpp, and mmap and brk of syscall/syscall.cpp).  *)
(*                                                                         *)
(* Frames and heap know nothing of owners: `owned` and the fields `wanted` *)
(* and `live` of a block are what callers remember.  Callers free what     *)
(* they own; the heap is also given blocks a second time.  Mapping a page  *)
(* only flushes the TLB, so mmap and brk change nothing but their counters, *)
(* which all programs share.  Sizes near 2^64, whose rounding would wrap    *)
(* around, are not asked for.                                              *)
(***************************************************************************)
EXTENDS Integers, Sequences, FiniteSets, FiniteSetsExt, SequencesExt

CONSTANTS
  TOTAL_FRAMES,
  FirstFree,        \* 3584: the frames below are the kernel's
  MaxRun,           \* frames a caller asks for at once
  Align,            \* 16
  Overhead,         \* 48: header and footer
  HEAP_INIT_SIZE,
  FirstOffset,      \* 512 K: where the heap's blocks start
  FirstBytes,       \* 342 K: the bytes its counters start with
  FirstBlocks,      \* 85: the blocks they start with
  Sizes,            \* sizes callers ask for
  MaxBlocks,        \* bound on blocks
  PAGE_SIZE,
  Lengths,          \* lengths given to mmap, and programs' ends of image
  FirstBrk,         \* 0x500000: the lowest first break
  MaxCalls          \* bound on calls of programs

ASSUME MemoryAssumption ==
  /\ TOTAL_FRAMES \in Nat /\ FirstFree \in 1..TOTAL_FRAMES /\ MaxRun \in Nat
  /\ Align \in Nat \ {0} /\ Overhead \in Nat /\ Overhead % Align = 0
  /\ HEAP_INIT_SIZE \in Nat /\ FirstOffset \in Nat /\ FirstOffset % Align = 0
  /\ FirstBytes \in 0..FirstOffset /\ FirstBlocks \in Nat /\ Sizes \subseteq Nat
  /\ PAGE_SIZE \in Nat \ {0} /\ FirstBrk \in Nat /\ FirstBrk % PAGE_SIZE = 0
  /\ Lengths \subseteq Nat

VARIABLES
  frame_bitmap, used_frames_count,
  owned,         \* the frames callers have
  blocks,        \* the headers of the heap, by address
  dynamic_offset, allocated_bytes_count, allocated_blocks_count, free_bytes_count,
  current_process_brk, current_mmap_vaddr,
  programs,      \* the programs that run, the one started last at the end
  maps,          \* what mmap has returned, with the lengths asked for
  calls

frameVars == <<frame_bitmap, used_frames_count, owned>>
heapVars == <<blocks, dynamic_offset, allocated_bytes_count, allocated_blocks_count, free_bytes_count>>
programVars == <<current_process_brk, current_mmap_vaddr, programs, maps, calls>>
memoryVars == <<frameVars, heapVars, programVars>>

RoundUp(n, unit) == ((n + unit - 1) \div unit) * unit

----------------------------------------------------------------------------
(* Frames.  Frame 0 is never free, so address 0 is a failure.              *)

AllFrames == 0..(TOTAL_FRAMES - 1)
Unused == AllFrames \ frame_bitmap

\* Faulty variant: a used frame in between does not end a run.
Runs_loose(n) ==
  {f \in Unused : f + n <= TOTAL_FRAMES /\ f + n - 1 \in Unused}

Runs(n) == {f \in Unused : f..(f + n - 1) \subseteq Unused}

pmm_alloc_frame ==
  /\ Unused # {}
  /\ frame_bitmap' = frame_bitmap \cup {Min(Unused)}
  /\ used_frames_count' = used_frames_count + 1
  /\ owned' = Append(owned, Min(Unused))
  /\ UNCHANGED <<heapVars, programVars>>

pmm_alloc_contiguous_frames(n) ==
  /\ n > 1 /\ Runs(n) # {}
  /\ LET first == Min(Runs(n))
     IN  /\ frame_bitmap' = frame_bitmap \cup first..(first + n - 1)
         /\ owned' = owned \o [k \in 1..n |-> first + k - 1]
  /\ used_frames_count' = used_frames_count + n
  /\ UNCHANGED <<heapVars, programVars>>

pmm_free_frame(i) ==
  /\ frame_bitmap' = frame_bitmap \ {owned[i]}
  /\ used_frames_count' = IF owned[i] \in frame_bitmap THEN used_frames_count - 1 ELSE used_frames_count
  /\ owned' = RemoveAt(owned, i)
  /\ UNCHANGED <<heapVars, programVars>>

----------------------------------------------------------------------------
(* The heap: a bump allocator.  A block is never used again.               *)

Payload(size) == RoundUp(IF size = 0 THEN Align ELSE size, Align)

Total(size) == Payload(size) + Overhead

HeapRoom(size) == dynamic_offset + Total(size) < HEAP_INIT_SIZE

NewBlock(size) ==
  [start |-> dynamic_offset, size |-> Total(size), is_allocated |-> TRUE, wanted |-> size]

\* A counter that is too low for what is taken from it stays as it is.
Less(counter, n) == IF counter >= n THEN counter - n ELSE counter

kmalloc(size) ==
  /\ Len(blocks) < MaxBlocks /\ HeapRoom(size)
  /\ blocks' = Append(blocks, NewBlock(size))
  /\ dynamic_offset' = dynamic_offset + Total(size)
  /\ free_bytes_count' = Less(free_bytes_count, Total(size))
  /\ allocated_bytes_count' = allocated_bytes_count + Payload(size)
  /\ allocated_blocks_count' = allocated_blocks_count + 1
  /\ UNCHANGED <<frameVars, programVars>>

Freed(b) == [b EXCEPT !.is_allocated = FALSE]

\* A block that is free already is left alone.
kfree(i) ==
  /\ IF blocks[i].is_allocated
     THEN /\ allocated_bytes_count' = Less(allocated_bytes_count, blocks[i].size - Overhead)
          /\ allocated_blocks_count' = Less(allocated_blocks_count, 1)
          /\ free_bytes_count' = free_bytes_count + blocks[i].size
          /\ blocks' = [blocks EXCEPT ![i] = Freed(@)]
     ELSE UNCHANGED <<blocks, allocated_bytes_count, allocated_blocks_count, free_bytes_count>>
  /\ UNCHANGED <<dynamic_offset, frameVars, programVars>>

FitsIn(b, size) == b.size - Overhead >= size

\* Grows in place as far as the block has room, else moves; without memory the
\* block stays as it is.
krealloc(i, size) ==
  /\ blocks[i].is_allocated /\ size # 0
  /\ IF FitsIn(blocks[i], size)
     THEN /\ blocks' = [blocks EXCEPT ![i].wanted = size]
          /\ UNCHANGED <<dynamic_offset, allocated_bytes_count, allocated_blocks_count, free_bytes_count>>
     ELSE /\ Len(blocks) < MaxBlocks /\ HeapRoom(size)
          /\ blocks' = Append([blocks EXCEPT ![i] = Freed(@)], NewBlock(size))
          /\ dynamic_offset' = dynamic_offset + Total(size)
          /\ free_bytes_count' = Less(free_bytes_count, Total(size)) + blocks[i].size
          /\ allocated_bytes_count' =
               Less(allocated_bytes_count + Payload(size), blocks[i].size - Overhead)
          /\ UNCHANGED allocated_blocks_count
  /\ UNCHANGED <<frameVars, programVars>>

----------------------------------------------------------------------------
(* Programs.  One may start another and wait for it (execve, CreateProcess). *)

Call == calls < MaxCalls /\ calls' = calls + 1

set_process_brk(end) ==
  LET brk == RoundUp(Max({FirstBrk, end}), PAGE_SIZE)
  IN  /\ Call /\ Len(programs) < 2
      /\ current_process_brk' = brk
      /\ programs' = Append([i \in DOMAIN programs |-> [programs[i] EXCEPT !.disturbed = TRUE]],
                            [brk |-> brk, disturbed |-> FALSE])
      /\ UNCHANGED <<current_mmap_vaddr, maps, frameVars, heapVars>>

program_ends ==
  /\ programs # <<>>
  /\ programs' = Front(programs)
  /\ UNCHANGED <<current_process_brk, current_mmap_vaddr, maps, calls, frameVars, heapVars>>

sys_brk(brk) ==
  /\ Call /\ programs # <<>> /\ brk # 0
  /\ current_process_brk' = brk
  /\ programs' = Front(programs) \o <<[brk |-> brk, disturbed |-> FALSE]>>
  /\ UNCHANGED <<current_mmap_vaddr, maps, frameVars, heapVars>>

MapNext(length) == current_mmap_vaddr + RoundUp(length, PAGE_SIZE)

\* Without an address of the program's choice; munmap does nothing.
sys_mmap(length) ==
  /\ Call /\ programs # <<>> /\ length # 0
  /\ maps' = Append(maps, [start |-> current_mmap_vaddr, length |-> length])
  /\ current_mmap_vaddr' = MapNext(length)
  /\ UNCHANGED <<current_process_brk, programs, frameVars, heapVars>>

----------------------------------------------------------------------------
MemoryInit ==
  /\ frame_bitmap = 0..(FirstFree - 1) /\ used_frames_count = FirstFree /\ owned = <<>>
  /\ blocks = <<>> /\ dynamic_offset = FirstOffset
  /\ allocated_bytes_count = FirstBytes /\ allocated_blocks_count = FirstBlocks
  /\ free_bytes_count = HEAP_INIT_SIZE - FirstBytes
  /\ current_process_brk = FirstBrk + PAGE_SIZE /\ current_mmap_vaddr = 0
  /\ programs = <<>> /\ maps = <<>> /\ calls = 0

FramesNext ==
  \/ pmm_alloc_frame
  \/ \E n \in 2..MaxRun : pmm_alloc_contiguous_frames(n)
  \/ \E i \in DOMAIN owned : pmm_free_frame(i)

HeapNext ==
  \/ \E n \in Sizes : kmalloc(n) \/ (\E i \in DOMAIN blocks : krealloc(i, n))
  \/ \E i \in DOMAIN blocks : kfree(i)

ProgramsNext ==
  \/ \E n \in Lengths : set_process_brk(n) \/ sys_brk(n) \/ sys_mmap(n)
  \/ program_ends

MemorySpec == MemoryInit /\ [][FramesNext \/ HeapNext \/ ProgramsNext]_memoryVars

----------------------------------------------------------------------------
(* Properties.                                                             *)

\* No frame is handed out twice or by the kernel's part of memory, runs of
\* frames included, and what pmm_get_stats reports is what is in use.
FramesOwned ==
  /\ IsInjective(owned)
  /\ Range(owned) = frame_bitmap \ 0..(FirstFree - 1)
  /\ used_frames_count = Cardinality(frame_bitmap)

\* Blocks of the heap do not overlap and end before the heap does, and each
\* holds what was asked for beside its header and footer, also after krealloc.
BlocksApart ==
  \A i \in DOMAIN blocks :
    LET b == blocks[i]
        end == IF i = Len(blocks) THEN dynamic_offset ELSE blocks[i + 1].start
    IN  /\ b.start + b.size <= end /\ end < HEAP_INIT_SIZE
        /\ b.start % Align = 0 /\ b.wanted + Overhead <= b.size

\* The counters heap_get_stats reports are those of the blocks in use, beyond
\* what they start with and whatever was freed twice: their number, and together
\* with header and footer of each the whole heap.
HeapCounted ==
  LET used == Cardinality({i \in DOMAIN blocks : blocks[i].is_allocated})
  IN  /\ allocated_blocks_count = FirstBlocks + used
      /\ allocated_bytes_count + free_bytes_count + used * Overhead = HEAP_INIT_SIZE

\* brk answers with the break the program has set, unless another program was
\* started since: there is one break for all.
BreakOwn ==
  programs # <<>> /\ ~Last(programs).disturbed => current_process_brk = Last(programs).brk

\* Areas mmap chooses never overlap, those of different programs included.
MapsApart ==
  \A i, j \in DOMAIN maps : i < j => maps[i].start + maps[i].length <= maps[j].start

\* Nothing that pmm.cpp, heap.cpp, mmap and brk hand out overlaps anything else
\* in use, and their counters agree with what is in use.
MemoryApart == FramesOwned /\ BlocksApart /\ HeapCounted /\ BreakOwn /\ MapsApart

============================================================================
