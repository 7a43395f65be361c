------------------------------- MODULE Paging -------------------------------
(***************************************************************************)
(* kernel/mem/paging.c and the boot half of kmalloc_int (kheap.c): the     *)
(* placement allocator, init_paging, and the frame allocator that the heap *)
(* calls to grow (expand) and to shrink (contract).                        *)
(*                                                                         *)
(* Virtual addresses that are multiples of FRAME_SIZE are written as page  *)
(* numbers, page tables as the number of the table (page / PAGE_TABLE_SIZE)*)
(* and the frame bitmap as the set of the frames whose bit is set.  The    *)
(* access bits of page_t are left out: the kernel runs in ring 0 with      *)
(* write protection off, where only the present bit matters.               *)
(*                                                                         *)
(* init_paging allocates nframes/32 BYTES for a bitmap of nframes/32       *)
(* WORDS.  The bits behind the allocation live in memory that was never    *)
(* cleared and in the page directory, so first_frame may read anything     *)
(* there, and set_frame destroys what is there.  The model ends with the   *)
(* first such write (overrun).                                             *)
(***************************************************************************)
EXTENDS Integers, FiniteSets

CONSTANTS
  FRAME_SIZE,             \* bytes in a frame; a page table is as large
  PAGE_TABLE_SIZE,        \* pages mapped by one table
  WORD_BITS,              \* FRAME_ALLOCATIONS_SECTION_SIZE
  BYTE_BITS,              \* bits in a byte of the bitmap
  nframes,                \* PHYSICAL_MEM_SIZE / FRAME_SIZE
  kernel_ends,            \* where the linker may put the image's end, &end
  KHEAP_START,            \* first page of the heap
  KHEAP_INITIAL_SIZE,     \* pages of the heap mapped by init_paging
  HEAP_MIN_SIZE,          \* pages of the heap that contract never gives back
  max_page,               \* first page the heap may not use (max_address)
  sizeof_heap_t

ASSUME PagingAssumption ==
  /\ FRAME_SIZE \in Nat \ {0} /\ PAGE_TABLE_SIZE \in Nat \ {0}
  /\ WORD_BITS \in Nat \ {0} /\ BYTE_BITS \in Nat \ {0}
  /\ KHEAP_START \in Nat \ {0} /\ KHEAP_INITIAL_SIZE \in Nat \ {0}
  /\ HEAP_MIN_SIZE \in Nat /\ max_page \in Nat /\ nframes \in Nat
  /\ kernel_ends \subseteq Nat
  /\ WORD_BITS <= nframes
  /\ sizeof_heap_t \in 0 .. FRAME_SIZE
  /\ KHEAP_START + KHEAP_INITIAL_SIZE <= max_page

VARIABLES
  pc,               \* where init_paging is
  i,                \* its loop variable, as a page number
  placement_addr,   \* first byte the placement allocator has not given away
  tables,           \* page tables that exist (page_tables_virtual # 0)
  present,          \* pages whose entry has pr = 1
  fr,               \* fr[p]: the frame field of the entry of page p
  frames,           \* frame_allocations: frames whose bit is set
  heap_end,         \* heap->end_address, as a page number
  shrunk            \* history: contract has freed a page

vars == <<pc, i, placement_addr, tables, present, fr, frames, heap_end, shrunk>>

Pages == 0 .. (max_page - 1)

bitmap_bytes == nframes \div WORD_BITS

\* Frames whose bit is inside what kmalloc returned for the bitmap
bitmap_frames == 0 .. (bitmap_bytes * BYTE_BITS - 1)

\* set_frame has written behind that allocation
overrun == ~ (frames \subseteq bitmap_frames)

\* What first_frame returns when it finds no clear bit
frame_limit == (nframes \div WORD_BITS) * WORD_BITS

heap_initial_end == KHEAP_START + KHEAP_INITIAL_SIZE

-----------------------------------------------------------------------------
(***************************************************************************)
(* The frame allocator                                                     *)
(***************************************************************************)
first_clear_bit(f) ==
  /\ f \in bitmap_frames \ frames
  /\ \A g \in bitmap_frames : g < f => g \in frames

\* The sentinel of first_frame is frame_limit, not -1, so the PANIC of
\* alloc_frame is unreachable.
first_frame(f) ==
  \/ first_clear_bit(f)
  \/ /\ bitmap_frames \subseteq frames
     /\ f \in 0 .. frame_limit /\ f \notin bitmap_frames

set_frame_forgotten(f) == UNCHANGED frames

set_frame_next_bit(f) == frames' = frames \cup {f + 1}

set_frame(f) == frames' = frames \cup {f}

alloc_frame(p) ==
  \/ fr[p] # 0 /\ UNCHANGED <<present, fr, frames>>
  \/ /\ fr[p] = 0
     /\ \E f \in 0 .. frame_limit :
          /\ first_frame(f)
          /\ present' = present \cup {p}
          /\ fr' = [fr EXCEPT ![p] = f]
          /\ set_frame(f)

free_frames_kept(P) ==
  /\ frames' = frames \ { fr[p] : p \in P }
  /\ UNCHANGED fr

(***************************************************************************)
(* free_frame on the pages of a set.  clear_frame divides its argument by  *)
(* FRAME_SIZE, but free_frame passes the frame's number and not its        *)
(* address.  The entry loses its frame and stays present.                  *)
(***************************************************************************)
free_frames(P) ==
  /\ frames' = frames \ { fr[p] \div FRAME_SIZE : p \in { q \in P : fr[q] # 0 } }
  /\ fr' = [p \in Pages |-> IF p \in P THEN 0 ELSE fr[p]]

-----------------------------------------------------------------------------
(***************************************************************************)
(* The placement allocator, kmalloc_int before the heap exists.  A request *)
(* for alignment skips to the next page even when the address is aligned.  *)
(***************************************************************************)
page_aligned(addr) ==
  IF addr \div FRAME_SIZE = 0 THEN addr
  ELSE (addr \div FRAME_SIZE) * FRAME_SIZE + FRAME_SIZE

kmalloc(sz) == placement_addr' = placement_addr + sz

kmalloc_a(sz) == placement_addr' = page_aligned(placement_addr) + sz

table_of(p) == p \div PAGE_TABLE_SIZE

get_page_unrecorded(p) ==
  \/ table_of(p) \in tables /\ UNCHANGED <<tables, placement_addr>>
  \/ /\ table_of(p) \notin tables
     /\ kmalloc_a(FRAME_SIZE)
     /\ UNCHANGED tables

\* get_page(p, 1): make the table if there is none, during boot
get_page(p) ==
  \/ table_of(p) \in tables /\ UNCHANGED <<tables, placement_addr>>
  \/ /\ table_of(p) \notin tables
     /\ kmalloc_a(FRAME_SIZE)
     /\ tables' = tables \cup {table_of(p)}

-----------------------------------------------------------------------------
(***************************************************************************)
(* init_paging, one action per statement or loop iteration                 *)
(***************************************************************************)
SetupBitmap ==
  /\ pc = "bitmap"
  /\ kmalloc(bitmap_bytes)
  /\ pc' = "directory"
  /\ UNCHANGED <<i, tables, present, fr, frames, heap_end, shrunk>>

\* page_directory_t holds two arrays of pointers, a frame each
SetupDirectory ==
  /\ pc = "directory"
  /\ kmalloc_a(2 * FRAME_SIZE)
  /\ pc' = "heap_tables"
  /\ i' = KHEAP_START
  /\ UNCHANGED <<tables, present, fr, frames, heap_end, shrunk>>

MapHeapTables ==
  /\ pc = "heap_tables"
  /\ \/ /\ i < heap_initial_end
        /\ get_page(i)
        /\ i' = i + 1
        /\ pc' = pc
     \/ /\ i >= heap_initial_end
        /\ pc' = "identity"
        /\ i' = 0
        /\ UNCHANGED <<tables, placement_addr>>
  /\ UNCHANGED <<present, fr, frames, heap_end, shrunk>>

IdentityMap_no_slack ==
  /\ pc = "identity"
  /\ \/ /\ i * FRAME_SIZE < placement_addr
        /\ i < KHEAP_START
        /\ get_page(i)
        /\ alloc_frame(i)
        /\ i' = i + 1
        /\ pc' = pc
     \/ /\ i * FRAME_SIZE >= placement_addr
        /\ pc' = "heap_pages"
        /\ i' = KHEAP_START
        /\ UNCHANGED <<tables, placement_addr, present, fr, frames>>
  /\ UNCHANGED <<heap_end, shrunk>>

(***************************************************************************)
(* The bound of this loop moves: get_page takes memory for its tables from *)
(* placement_addr.  Bound: the identity map ends below the heap.           *)
(***************************************************************************)
IdentityMap ==
  /\ pc = "identity"
  /\ \/ /\ i * FRAME_SIZE < placement_addr + FRAME_SIZE
        /\ i < KHEAP_START
        /\ get_page(i)
        /\ alloc_frame(i)
        /\ i' = i + 1
        /\ pc' = pc
     \/ /\ i * FRAME_SIZE >= placement_addr + FRAME_SIZE
        /\ pc' = "heap_pages"
        /\ i' = KHEAP_START
        /\ UNCHANGED <<tables, placement_addr, present, fr, frames>>
  /\ UNCHANGED <<heap_end, shrunk>>

AllocHeapPages ==
  /\ pc = "heap_pages"
  /\ \/ /\ i < heap_initial_end
        /\ get_page(i)
        /\ alloc_frame(i)
        /\ i' = i + 1
        /\ pc' = pc
     \/ /\ i >= heap_initial_end
        /\ pc' = "paging_on"
        /\ UNCHANGED <<i, tables, placement_addr, present, fr, frames>>
  /\ UNCHANGED <<heap_end, shrunk>>

CreateHeap_length ==
  /\ pc = "paging_on"
  /\ kmalloc(sizeof_heap_t)
  /\ heap_end' = KHEAP_INITIAL_SIZE
  /\ pc' = "done"
  /\ UNCHANGED <<i, tables, present, fr, frames, shrunk>>

\* enable_paging; create_heap then takes heap_t from the placement allocator
CreateHeap ==
  /\ pc = "paging_on"
  /\ kmalloc(sizeof_heap_t)
  /\ heap_end' = heap_initial_end
  /\ pc' = "done"
  /\ UNCHANGED <<i, tables, present, fr, frames, shrunk>>

Boot ==
  \/ SetupBitmap \/ SetupDirectory \/ MapHeapTables \/ IdentityMap
  \/ AllocHeapPages \/ CreateHeap

-----------------------------------------------------------------------------
(***************************************************************************)
(* The heap afterwards.  One iteration of the loop of expand; a table that *)
(* get_page has to make now comes from the heap, not from placement_addr.  *)
(***************************************************************************)
ExpandPage ==
  /\ pc = "done"
  /\ heap_end < max_page
  /\ alloc_frame(heap_end)
  /\ tables' = tables \cup {table_of(heap_end)}
  /\ heap_end' = heap_end + 1
  /\ UNCHANGED <<pc, i, placement_addr, shrunk>>

(***************************************************************************)
(* contract: the loop over "new_size < it" leaves the page at the new end  *)
(* mapped.                                                                 *)
(***************************************************************************)
Contract(new_end) ==
  /\ pc = "done"
  /\ new_end >= KHEAP_START + HEAP_MIN_SIZE
  /\ free_frames((new_end + 1) .. (heap_end - 1))
  /\ heap_end' = new_end
  /\ shrunk' = (shrunk \/ new_end + 1 < heap_end)
  /\ UNCHANGED <<pc, i, placement_addr, tables, present>>

Init ==
  /\ pc = "bitmap"
  /\ i = 0
  /\ placement_addr \in kernel_ends
  /\ tables = {} /\ present = {} /\ frames = {}
  /\ fr = [p \in Pages |-> 0]
  /\ heap_end = KHEAP_START /\ shrunk = FALSE

Next ==
  /\ ~ overrun
  /\ \/ Boot
     \/ ExpandPage
     \/ \E new_end \in 0 .. (heap_end - 1) : Contract(new_end)

\* kernel_main runs on; whether the heap changes is up to its clients
Spec == Init /\ [][Next]_vars /\ WF_vars(~ overrun /\ Boot)

-----------------------------------------------------------------------------
\* Frame numbers, page numbers and addresses stay in their ranges, and the
\* heap's end between KHEAP_START and its maximum, whatever init_paging,
\* expand and contract do.
TypeOK ==
  /\ pc \in {"bitmap", "directory", "heap_tables", "identity", "heap_pages",
             "paging_on", "done"}
  /\ i \in 0 .. max_page
  /\ placement_addr \in Nat
  /\ tables \subseteq Nat
  /\ present \subseteq Pages
  /\ fr \in [Pages -> 0 .. frame_limit]
  /\ frames \subseteq 0 .. frame_limit
  /\ heap_end \in KHEAP_START .. max_page
  /\ shrunk \in BOOLEAN

\* Once paging is on, every byte the kernel got from the linker or from the
\* placement allocator (bitmap, directory, page tables and the heap_t that
\* create_heap takes afterwards) is still reached at its physical address.
IdentityMapped ==
  (pc \in {"paging_on", "done"} /\ ~ overrun) =>
    \A p \in Pages :
      p * FRAME_SIZE < placement_addr => p \in present /\ fr[p] = p

\* "Bitset of frames, used or free" (paging.c:11): a bit is set if and only
\* if some page is mapped to that frame, until contract frees a page and with
\* it the wrong bit.
BitsetTruthful ==
  shrunk \/ frames = { fr[p] : p \in present }

\* No two pages are mapped to one frame, until contract frees a page.
NoSharedFrame ==
  shrunk \/ \A p, q \in present : p # q => fr[p] # fr[q]

\* The frames whose bit free_frame can clear by mistake: the lowest ones,
\* four of them with the constants of paging.h
low_frames == { f \div FRAME_SIZE : f \in bitmap_frames }

\* Even when the heap shrinks and free_frame clears wrong bits, two pages
\* share a frame only if it is one of the lowest ones: a frame above them is
\* never given out twice, by any sequence of expand and contract.
HighFramesExclusive ==
  \A p, q \in present :
    (p # q /\ fr[p] = fr[q]) => fr[p] \in low_frames

\* init_paging ends, although its identity loop chases a bound that it moves
\* itself.
BootCompletes == <>(pc = "done")
=============================================================================
