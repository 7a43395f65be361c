---------------------------- MODULE PagingProofs ----------------------------
(***************************************************************************)
(* Boot and the frame allocator, for every machine size, image size and    *)
(* heap layout.                                                            *)
(***************************************************************************)
EXTENDS Paging, TLAPS

-----------------------------------------------------------------------------
(***************************************************************************)
(* Arithmetic                                                              *)
(***************************************************************************)

\* Numbering by division stays within the naturals.
LEMMA DivNat == \A a \in Nat, b \in Nat \ {0} : a \div b \in Nat
  OBVIOUS

\* Multiplication by a natural is monotonic.
LEMMA MulMono ==
  \A a, b, c \in Nat : a <= b => a * c <= b * c
  OBVIOUS

\* The sizes derived from the machine's constants.
LEMMA ConstFacts ==
  /\ bitmap_bytes \in Nat \ {0}
  /\ frame_limit \in Nat
  /\ bitmap_frames \subseteq Nat
  /\ 0 \in bitmap_frames
  /\ heap_initial_end \in 1 .. max_page
<1> USE PagingAssumption
<1>1. bitmap_bytes \in Nat \ {0}
  BY DivNat DEF bitmap_bytes
<1>2. frame_limit \in Nat
  BY <1>1 DEF frame_limit, bitmap_bytes
<1>3. bitmap_bytes * BYTE_BITS \in Nat \ {0}
  BY <1>1
<1>4. bitmap_frames \subseteq Nat /\ 0 \in bitmap_frames
  BY <1>3 DEF bitmap_frames
<1> QED
  BY <1>1, <1>2, <1>4 DEF heap_initial_end

\* kmalloc_a returns a natural address.
LEMMA AlignedNat == \A a \in Nat : page_aligned(a) \in Nat
  BY PagingAssumption, DivNat DEF page_aligned

-----------------------------------------------------------------------------
(***************************************************************************)
(* Types                                                                   *)
(***************************************************************************)

\* What get_page does to the boot memory keeps its type.
LEMMA GetPageType ==
  ASSUME TypeOK, NEW p \in Nat, get_page(p)
  PROVE  tables' \subseteq Nat /\ placement_addr' \in Nat
<1>1. placement_addr \in Nat /\ tables \subseteq Nat
  BY DEF TypeOK
<1>2. page_aligned(placement_addr) \in Nat
  BY <1>1, AlignedNat
<1>3. table_of(p) \in Nat
  BY PagingAssumption, DivNat DEF table_of
<1>4. page_aligned(placement_addr) + FRAME_SIZE \in Nat
  BY <1>2, PagingAssumption
<1> QED
  BY <1>1, <1>3, <1>4 DEF get_page, kmalloc_a

\* What alloc_frame does to a page's entry and to the bitmap keeps its type.
LEMMA AllocFrameType ==
  ASSUME TypeOK, NEW p \in Pages, alloc_frame(p)
  PROVE  /\ present' \subseteq Pages
         /\ fr' \in [Pages -> 0 .. frame_limit]
         /\ frames' \subseteq 0 .. frame_limit
  BY DEF TypeOK, alloc_frame, set_frame

\* Every step keeps the fields of the page tables, the bitmap and the boot
\* loops within their types.
LEMMA TypeStep == TypeOK /\ [Next]_vars => TypeOK'
<1> USE PagingAssumption, ConstFacts
<1> SUFFICES ASSUME TypeOK, [Next]_vars PROVE TypeOK'
  OBVIOUS
<1>1. CASE SetupBitmap
  BY <1>1 DEF TypeOK, SetupBitmap, kmalloc
<1>2. CASE SetupDirectory
  BY <1>2, AlignedNat DEF TypeOK, SetupDirectory, kmalloc_a
<1>3. CASE MapHeapTables
  <2>1. CASE i < heap_initial_end /\ get_page(i) /\ i' = i + 1 /\ pc' = pc
    BY <1>3, <2>1, GetPageType DEF TypeOK, MapHeapTables
  <2>2. CASE /\ pc' = "identity" /\ i' = 0
             /\ UNCHANGED <<tables, placement_addr>>
    BY <1>3, <2>2 DEF TypeOK, MapHeapTables
  <2> QED
    BY <1>3, <2>1, <2>2 DEF MapHeapTables
<1>4. CASE IdentityMap
  <2>1. CASE /\ i < KHEAP_START /\ get_page(i) /\ alloc_frame(i)
             /\ i' = i + 1 /\ pc' = pc
    <3>1. i \in Pages
      BY <2>1 DEF TypeOK, Pages
    <3>2. tables' \subseteq Nat /\ placement_addr' \in Nat
      BY <2>1, GetPageType DEF TypeOK
    <3>3. /\ present' \subseteq Pages
          /\ fr' \in [Pages -> 0 .. frame_limit]
          /\ frames' \subseteq 0 .. frame_limit
      BY <2>1, <3>1, AllocFrameType
    <3>4. i' \in 0 .. max_page /\ UNCHANGED <<pc, heap_end, shrunk>>
      BY <1>4, <2>1, <3>1 DEF IdentityMap, Pages
    <3> QED
      BY <3>2, <3>3, <3>4 DEF TypeOK
  <2>2. CASE /\ pc' = "heap_pages" /\ i' = KHEAP_START
             /\ UNCHANGED <<tables, placement_addr, present, fr, frames>>
    BY <1>4, <2>2 DEF TypeOK, IdentityMap
  <2> QED
    BY <1>4, <2>1, <2>2 DEF IdentityMap
<1>5. CASE AllocHeapPages
  <2>1. CASE /\ i < heap_initial_end /\ get_page(i) /\ alloc_frame(i)
             /\ i' = i + 1 /\ pc' = pc
    <3>1. i \in Pages
      BY <2>1 DEF TypeOK, Pages
    <3>2. tables' \subseteq Nat /\ placement_addr' \in Nat
      BY <2>1, GetPageType DEF TypeOK
    <3>3. /\ present' \subseteq Pages
          /\ fr' \in [Pages -> 0 .. frame_limit]
          /\ frames' \subseteq 0 .. frame_limit
      BY <2>1, <3>1, AllocFrameType
    <3>4. i' \in 0 .. max_page /\ UNCHANGED <<pc, heap_end, shrunk>>
      BY <1>5, <2>1, <3>1 DEF AllocHeapPages, Pages
    <3> QED
      BY <3>2, <3>3, <3>4 DEF TypeOK
  <2>2. CASE /\ pc' = "paging_on"
             /\ UNCHANGED <<i, tables, placement_addr, present, fr, frames>>
    BY <1>5, <2>2 DEF TypeOK, AllocHeapPages
  <2> QED
    BY <1>5, <2>1, <2>2 DEF AllocHeapPages
<1>6. CASE CreateHeap
  BY <1>6 DEF TypeOK, CreateHeap, kmalloc, heap_initial_end
<1>7. CASE ExpandPage
  <2>1. heap_end \in Pages /\ table_of(heap_end) \in Nat
    BY <1>7, DivNat DEF TypeOK, ExpandPage, Pages, table_of
  <2>2. /\ present' \subseteq Pages
        /\ fr' \in [Pages -> 0 .. frame_limit]
        /\ frames' \subseteq 0 .. frame_limit
    BY <1>7, <2>1, AllocFrameType DEF ExpandPage
  <2>3. heap_end' \in KHEAP_START .. max_page
    BY <1>7 DEF TypeOK, ExpandPage
  <2> QED
    BY <1>7, <2>1, <2>2, <2>3 DEF TypeOK, ExpandPage
<1>8. ASSUME NEW new_end \in 0 .. (heap_end - 1), Contract(new_end)
      PROVE  TypeOK'
  <2>1. heap_end' \in KHEAP_START .. max_page
    BY <1>8 DEF TypeOK, Contract
  <2>2. fr' \in [Pages -> 0 .. frame_limit] /\ frames' \subseteq 0 .. frame_limit
    <3>1. \A p \in Pages : fr[p] \in 0 .. frame_limit /\ 0 \in 0 .. frame_limit
      BY DEF TypeOK
    <3>2. fr' = [p \in Pages |-> IF p \in (new_end + 1) .. (heap_end - 1)
                                 THEN 0 ELSE fr[p]]
      BY <1>8 DEF Contract, free_frames
    <3>3. frames' \subseteq frames
      BY <1>8 DEF Contract, free_frames
    <3> QED
      BY <3>1, <3>2, <3>3 DEF TypeOK
  <2> QED
    BY <1>8, <2>1, <2>2 DEF TypeOK, Contract
<1>9. CASE UNCHANGED vars
  BY <1>9 DEF TypeOK, vars
<1> QED
  BY <1>1, <1>2, <1>3, <1>4, <1>5, <1>6, <1>7, <1>8, <1>9 DEF Next, Boot

-----------------------------------------------------------------------------
(***************************************************************************)
(* The frame allocator under growth and shrinking                          *)
(***************************************************************************)

\* Until the bitmap overflows, every frame known to the allocator has its
\* bit inside the allocation.
WithinBitmap ==
  ~ overrun => \A p \in Pages : fr[p] \in bitmap_frames

\* A frame in use above the low ones keeps its bit: free_frame cannot clear
\* it, so first_frame cannot find it.
HighBitsKept ==
  \A p \in present : fr[p] \notin low_frames => fr[p] \in frames

FrameInv == TypeOK /\ WithinBitmap /\ HighBitsKept /\ HighFramesExclusive

\* alloc_frame preserves FrameInv: the frame it takes is not in use, or low.
LEMMA AllocFrameInv ==
  ASSUME FrameInv, ~ overrun, NEW p \in Pages, alloc_frame(p)
  PROVE  (WithinBitmap /\ HighBitsKept /\ HighFramesExclusive)'
<1> USE ConstFacts
<1>1. CASE UNCHANGED <<present, fr, frames>>
  BY <1>1 DEF FrameInv, WithinBitmap, HighBitsKept, HighFramesExclusive,
              low_frames, bitmap_frames, Pages, overrun
<1>2. ASSUME NEW f \in 0 .. frame_limit, first_frame(f),
             present' = present \cup {p},
             fr' = [fr EXCEPT ![p] = f], set_frame(f)
      PROVE  (WithinBitmap /\ HighBitsKept /\ HighFramesExclusive)'
  <2>1. /\ fr \in [Pages -> 0 .. frame_limit]
        /\ present \subseteq Pages
        /\ frames \subseteq bitmap_frames
        /\ \A q \in Pages : fr[q] \in bitmap_frames
    BY DEF FrameInv, TypeOK, WithinBitmap, overrun
  <2>2. f \notin frames
    BY <1>2, <2>1 DEF first_frame, first_clear_bit
  <2>3. \A q \in Pages : fr'[q] = IF q = p THEN f ELSE fr[q]
    BY <1>2, <2>1
  <2>4. WithinBitmap'
    BY <1>2, <2>1, <2>3 DEF WithinBitmap, overrun, set_frame
  <2>5. HighBitsKept'
    <3>1. ASSUME NEW q \in present', fr'[q] \notin low_frames
          PROVE  fr'[q] \in frames'
      <4>1. CASE q = p
        BY <4>1, <1>2, <2>3 DEF set_frame
      <4>2. CASE q # p
        BY <4>2, <3>1, <1>2, <2>1, <2>3 DEF set_frame, FrameInv, HighBitsKept
      <4> QED
        BY <4>1, <4>2
    <3> QED
      BY <3>1 DEF HighBitsKept, low_frames
  <2>6. HighFramesExclusive'
    <3>1. \A q \in present : q # p /\ fr[q] = f => f \in low_frames
      BY <2>1, <2>2 DEF FrameInv, HighBitsKept
    <3>2. ASSUME NEW q \in present', NEW r \in present', q # r,
                 fr'[q] = fr'[r]
          PROVE  fr'[q] \in low_frames
      <4>1. CASE q = p
        BY <4>1, <3>1, <3>2, <1>2, <2>1, <2>3
      <4>2. CASE r = p
        BY <4>2, <3>1, <3>2, <1>2, <2>1, <2>3
      <4>3. CASE q # p /\ r # p
        BY <4>3, <3>2, <1>2, <2>1, <2>3 DEF FrameInv, HighFramesExclusive
      <4> QED
        BY <4>1, <4>2, <4>3
    <3> QED
      BY <3>2 DEF HighFramesExclusive, low_frames
  <2> QED
    BY <2>4, <2>5, <2>6
<1> QED
  BY <1>1, <1>2 DEF alloc_frame

\* contract preserves FrameInv: the bits its free_frame calls clear belong to
\* low frames, and the entries it changes get frame 0.
LEMMA ContractInv ==
  ASSUME FrameInv, ~ overrun, NEW new_end \in 0 .. (heap_end - 1),
         Contract(new_end)
  PROVE  (WithinBitmap /\ HighBitsKept /\ HighFramesExclusive)'
<1> USE ConstFacts
<1> DEFINE P == (new_end + 1) .. (heap_end - 1)
<1>1. /\ fr \in [Pages -> 0 .. frame_limit]
      /\ present \subseteq Pages /\ present' = present
      /\ frames \subseteq bitmap_frames
      /\ \A q \in Pages : fr[q] \in bitmap_frames
  BY DEF FrameInv, TypeOK, WithinBitmap, overrun, Contract
<1>2. P \subseteq Pages
  BY PagingAssumption DEF Pages, Contract, FrameInv, TypeOK
<1>3. /\ frames' = frames \ { fr[p] \div FRAME_SIZE : p \in { q \in P : fr[q] # 0 } }
      /\ fr' = [p \in Pages |-> IF p \in P THEN 0 ELSE fr[p]]
  BY DEF Contract, free_frames
<1>4. \A q \in P : fr[q] \div FRAME_SIZE \in low_frames
  BY <1>1, <1>2 DEF low_frames
<1>5. 0 \in low_frames
  <2>1. 0 \div FRAME_SIZE = 0
    BY PagingAssumption
  <2> QED
    BY <2>1 DEF low_frames
<1>6. \A q \in Pages : fr'[q] = IF q \in P THEN 0 ELSE fr[q]
  BY <1>3
<1>7. WithinBitmap'
  BY <1>1, <1>3, <1>6 DEF WithinBitmap, overrun
<1>8. HighBitsKept'
  <2>1. ASSUME NEW q \in present, fr'[q] \notin low_frames
        PROVE  fr'[q] \in frames'
    <3>1. q \notin P /\ fr'[q] = fr[q] /\ fr[q] \in frames
      BY <2>1, <1>1, <1>5, <1>6 DEF FrameInv, HighBitsKept
    <3>2. fr[q] \notin { fr[p] \div FRAME_SIZE : p \in { r \in P : fr[r] # 0 } }
      BY <2>1, <3>1, <1>4
    <3> QED
      BY <3>1, <3>2, <1>3
  <2> QED
    BY <2>1, <1>1 DEF HighBitsKept, low_frames
<1>9. HighFramesExclusive'
  BY <1>1, <1>5, <1>6 DEF FrameInv, HighFramesExclusive, low_frames
<1> QED
  BY <1>7, <1>8, <1>9

\* Every step preserves FrameInv.
LEMMA FrameStep == FrameInv /\ [Next]_vars => FrameInv'
<1> SUFFICES ASSUME FrameInv, [Next]_vars PROVE FrameInv'
  OBVIOUS
<1>1. TypeOK'
  BY TypeStep DEF FrameInv
<1> SUFFICES (WithinBitmap /\ HighBitsKept /\ HighFramesExclusive)'
  BY <1>1 DEF FrameInv
<1>2. CASE UNCHANGED <<present, fr, frames>>
  BY <1>2 DEF FrameInv, WithinBitmap, HighBitsKept, HighFramesExclusive,
              low_frames, bitmap_frames, Pages, overrun
<1>3. ASSUME NEW p \in Pages, ~ overrun, alloc_frame(p)
      PROVE  (WithinBitmap /\ HighBitsKept /\ HighFramesExclusive)'
  BY <1>3, AllocFrameInv
<1>4. CASE ~ overrun /\ Boot
  <2>1. CASE SetupBitmap \/ SetupDirectory \/ MapHeapTables \/ CreateHeap
    BY <2>1, <1>2 DEF SetupBitmap, SetupDirectory, MapHeapTables, CreateHeap
  <2>2. CASE IdentityMap
    <3>1. i < KHEAP_START => i \in Pages
      BY PagingAssumption DEF FrameInv, TypeOK, Pages
    <3> QED
      BY <2>2, <3>1, <1>2, <1>3, <1>4 DEF IdentityMap
  <2>3. CASE AllocHeapPages
    <3>1. i < heap_initial_end => i \in Pages
      BY PagingAssumption, ConstFacts DEF FrameInv, TypeOK, Pages
    <3> QED
      BY <2>3, <3>1, <1>2, <1>3, <1>4 DEF AllocHeapPages
  <2> QED
    BY <2>1, <2>2, <2>3, <1>4 DEF Boot
<1>5. CASE ~ overrun /\ ExpandPage
  <2>1. heap_end \in Pages
    BY <1>5, PagingAssumption DEF ExpandPage, FrameInv, TypeOK, Pages
  <2> QED
    BY <2>1, <1>3, <1>5 DEF ExpandPage
<1>6. ASSUME ~ overrun, NEW new_end \in 0 .. (heap_end - 1), Contract(new_end)
      PROVE  (WithinBitmap /\ HighBitsKept /\ HighFramesExclusive)'
  BY <1>6, ContractInv
<1>7. CASE UNCHANGED vars
  BY <1>7, <1>2 DEF vars
<1> QED
  BY <1>4, <1>5, <1>6, <1>7 DEF Next

\* The initial state satisfies FrameInv.
LEMMA FrameInit == Init => FrameInv
<1> SUFFICES ASSUME Init PROVE FrameInv
  OBVIOUS
<1>1. shrunk \in BOOLEAN
  BY Zenon DEF Init
<1> QED
  BY <1>1, PagingAssumption, ConstFacts
     DEF Init, FrameInv, TypeOK, WithinBitmap, HighBitsKept,
         HighFramesExclusive, Pages

\* FrameInv holds however the heap grows and shrinks.
LEMMA FrameInvariance == Spec => []FrameInv
  BY FrameInit, FrameStep, PTL DEF Spec

\* The fields keep their types however the heap grows and shrinks.
THEOREM TypeCorrect == Spec => []TypeOK
  BY FrameInvariance, PTL DEF FrameInv

\* A frame above the low ones is never mapped by two pages, by any sequence
\* of alloc_frame and free_frame, on every machine.
THEOREM HighFramesAreExclusive == Spec => []HighFramesExclusive
  BY FrameInvariance, PTL DEF FrameInv

-----------------------------------------------------------------------------
(***************************************************************************)
(* The identity map                                                        *)
(***************************************************************************)

\* Nothing is mapped before the identity loop.
NothingMapped ==
  pc \in {"bitmap", "directory", "heap_tables"} =>
    present = {} /\ frames = {} /\ \A p \in Pages : fr[p] = 0

\* The loop has mapped pages 0..i-1 to themselves and used no other frame:
\* the tables made by get_page cost placement memory but no frames.
LoopMapped ==
  (pc = "identity" /\ ~ overrun) =>
    /\ i <= KHEAP_START
    /\ present = 0 .. (i - 1)
    /\ frames = 0 .. (i - 1)
    /\ \A p \in Pages : fr[p] = IF p < i THEN p ELSE 0

\* The loop went one frame further than placement_addr, which leaves room for
\* the heap_t that is allocated when paging is already on.
SlackMapped ==
  (pc \in {"heap_pages", "paging_on"} /\ ~ overrun) =>
    \A p \in Pages : p * FRAME_SIZE < placement_addr + FRAME_SIZE =>
      p < KHEAP_START /\ p \in present /\ fr[p] = p

\* The same afterwards, without the slack.
BootMapped ==
  (pc = "done" /\ ~ overrun) =>
    \A p \in Pages : p * FRAME_SIZE < placement_addr =>
      p < KHEAP_START /\ p \in present /\ fr[p] = p

\* The tables of the initial heap exist before the identity loop, so that
\* mapping the heap's pages moves placement_addr no more.
HeapTables ==
  /\ pc \in {"heap_tables", "heap_pages"} => KHEAP_START <= i
  /\ pc = "heap_tables" => \A p \in KHEAP_START .. (i - 1) : table_of(p) \in tables
  /\ pc \in {"identity", "heap_pages"} =>
       \A p \in KHEAP_START .. (heap_initial_end - 1) : table_of(p) \in tables

MapInv ==
  /\ TypeOK /\ NothingMapped /\ LoopMapped /\ SlackMapped /\ BootMapped
  /\ HeapTables

\* The initial state satisfies MapInv.
LEMMA MapInit == Init => MapInv
<1> SUFFICES ASSUME Init PROVE MapInv
  OBVIOUS
<1>1. TypeOK
  BY FrameInit DEF FrameInv
<1> QED
  BY <1>1 DEF Init, MapInv, NothingMapped, LoopMapped, SlackMapped, BootMapped,
              HeapTables, Pages

\* get_page only ever adds tables, and makes the one it is asked for.
LEMMA GetPageTables ==
  ASSUME NEW p, get_page(p)
  PROVE  /\ tables \subseteq tables' /\ table_of(p) \in tables'
         /\ table_of(p) \in tables => placement_addr' = placement_addr
  BY DEF get_page

\* alloc_frame changes the entry of p alone, and only if it has no frame.
LEMMA AllocFrameFrame ==
  ASSUME TypeOK, NEW p \in Pages, alloc_frame(p)
  PROVE  /\ \A q \in Pages : fr[q] # 0 \/ q # p => fr'[q] = fr[q]
         /\ present \subseteq present'
         /\ frames \subseteq frames'
  BY DEF TypeOK, alloc_frame, set_frame

\* An iteration of the identity loop maps page i to frame i.
LEMMA IdentityStep ==
  ASSUME MapInv, pc = "identity", ~ overrun, ~ overrun', i < KHEAP_START,
         alloc_frame(i)
  PROVE  /\ present' = 0 .. i
         /\ frames' = 0 .. i
         /\ fr' = [fr EXCEPT ![i] = i]
<1> USE PagingAssumption
<1>1. /\ i \in Pages
      /\ frames = 0 .. (i - 1) /\ present = 0 .. (i - 1) /\ fr[i] = 0
      /\ frames' \subseteq bitmap_frames
  BY DEF MapInv, TypeOK, LoopMapped, Pages, overrun
<1>2. PICK f \in 0 .. frame_limit :
        /\ first_frame(f)
        /\ present' = present \cup {i}
        /\ fr' = [fr EXCEPT ![i] = f]
        /\ frames' = frames \cup {f}
  BY <1>1 DEF alloc_frame, set_frame
<1>3. f \in bitmap_frames \ frames /\ \A g \in bitmap_frames : g < f => g \in frames
  BY <1>1, <1>2 DEF first_frame, first_clear_bit
<1>4. f = i
  <2>1. f >= i
    BY <1>1, <1>3, ConstFacts DEF Pages
  <2>2. ~ (f > i)
    <3> SUFFICES ASSUME f > i PROVE FALSE
      OBVIOUS
    <3>1. i \in bitmap_frames
      BY <1>1, <1>3, ConstFacts DEF bitmap_frames, Pages
    <3> QED
      BY <1>1, <1>3, <3>1 DEF Pages
  <2> QED
    BY <2>1, <2>2, <1>1, <1>3, ConstFacts DEF Pages
<1> QED
  BY <1>1, <1>2, <1>4 DEF Pages

\* When a heap page p gets a frame, the pages mapped by the identity loop
\* keep theirs.
LEMMA HeapAllocKeeps ==
  ASSUME TypeOK, NEW p \in Pages, p >= KHEAP_START, alloc_frame(p),
         NEW q \in Pages, q < KHEAP_START, q \in present, fr[q] = q
  PROVE  q \in present' /\ fr'[q] = q
  BY AllocFrameFrame, PagingAssumption DEF Pages

\* A step that fills or leaves a loop of init_paging, or runs the heap,
\* preserves MapInv.
LEMMA MapStep == MapInv /\ [Next]_vars => MapInv'
<1> USE PagingAssumption
<1> SUFFICES ASSUME MapInv, [Next]_vars PROVE MapInv'
  OBVIOUS
<1>0. TypeOK /\ TypeOK'
  BY TypeStep DEF MapInv
<1>1. CASE ~ overrun /\ SetupBitmap
  BY <1>0, <1>1 DEF MapInv, SetupBitmap, NothingMapped, LoopMapped, SlackMapped,
       BootMapped, HeapTables
<1>2. CASE ~ overrun /\ SetupDirectory
  BY <1>0, <1>2 DEF MapInv, SetupDirectory, NothingMapped, LoopMapped,
       SlackMapped, BootMapped, HeapTables, TypeOK
<1>3. CASE ~ overrun /\ MapHeapTables
  <2>1. CASE i < heap_initial_end /\ get_page(i) /\ i' = i + 1 /\ pc' = pc
    <3>1. ASSUME NEW p \in KHEAP_START .. i
          PROVE  table_of(p) \in tables'
      <4>1. CASE p = i
        BY <4>1, <2>1, GetPageTables
      <4>2. CASE p < i
        <5>1. p \in KHEAP_START .. (i - 1)
          BY <4>2, <1>0 DEF TypeOK
        <5>2. table_of(p) \in tables
          BY <5>1, <1>3 DEF MapInv, HeapTables, MapHeapTables
        <5> QED
          BY <5>2, <2>1, GetPageTables
      <4> QED
        BY <4>1, <4>2, <1>0 DEF TypeOK
    <3>2. HeapTables'
      BY <3>1, <2>1, <1>0, <1>3 DEF MapInv, HeapTables, TypeOK, MapHeapTables, table_of
    <3> QED
      BY <3>2, <2>1, <1>0, <1>3 DEF MapInv, MapHeapTables, NothingMapped,
           LoopMapped, SlackMapped, BootMapped
  <2>2. CASE /\ i >= heap_initial_end /\ pc' = "identity" /\ i' = 0
             /\ UNCHANGED <<tables, placement_addr>>
    <3>1. HeapTables'
      <4>1. ASSUME NEW p \in KHEAP_START .. (heap_initial_end - 1)
            PROVE  table_of(p) \in tables
        <5>1. p \in KHEAP_START .. (i - 1)
          BY <2>2, <1>0, ConstFacts DEF TypeOK
        <5> QED
          BY <5>1, <1>3 DEF MapInv, HeapTables, MapHeapTables
      <4> QED
        BY <4>1, <2>2 DEF HeapTables, table_of, heap_initial_end
    <3>2. LoopMapped'
      BY <2>2, <1>0, <1>3
         DEF MapInv, NothingMapped, LoopMapped, MapHeapTables, Pages
    <3> QED
      BY <3>1, <3>2, <2>2, <1>0 DEF MapInv, NothingMapped, SlackMapped, BootMapped
  <2> QED
    BY <1>3, <2>1, <2>2 DEF MapHeapTables
<1>4. CASE ~ overrun /\ IdentityMap
  <2>1. CASE /\ i < KHEAP_START /\ get_page(i) /\ alloc_frame(i)
             /\ i' = i + 1 /\ pc' = pc
    <3>1. LoopMapped'
      <4> SUFFICES ASSUME ~ overrun' PROVE LoopMapped'
        BY DEF LoopMapped
      <4>1. /\ present' = 0 .. i /\ frames' = 0 .. i
            /\ fr' = [fr EXCEPT ![i] = i]
        BY <1>4, <2>1, IdentityStep DEF IdentityMap
      <4>2. \A p \in Pages : fr[p] = IF p < i THEN p ELSE 0
        BY <1>4 DEF MapInv, LoopMapped, IdentityMap
      <4>3. i \in 0 .. (KHEAP_START - 1) /\ fr \in [Pages -> 0 .. frame_limit]
        BY <2>1, <1>0 DEF TypeOK
      <4>4. \A p \in Pages : fr'[p] = IF p < i + 1 THEN p ELSE 0
        BY <4>1, <4>2, <4>3 DEF Pages
      <4> QED
        BY <4>1, <4>3, <4>4, <2>1 DEF LoopMapped
    <3>2. HeapTables'
      BY <2>1, <1>4, GetPageTables
         DEF MapInv, HeapTables, IdentityMap, table_of, heap_initial_end
    <3> QED
      BY <3>1, <3>2, <2>1, <1>0, <1>4
         DEF MapInv, NothingMapped, SlackMapped, BootMapped, IdentityMap
  <2>2. CASE /\ i * FRAME_SIZE >= placement_addr + FRAME_SIZE
             /\ pc' = "heap_pages" /\ i' = KHEAP_START
             /\ UNCHANGED <<tables, placement_addr, present, fr, frames>>
    <3>1. i <= KHEAP_START /\ present = 0 .. (i - 1)
          /\ \A p \in Pages : fr[p] = IF p < i THEN p ELSE 0
      BY <1>4 DEF MapInv, LoopMapped, IdentityMap
    <3>2. ASSUME NEW p \in Pages, p * FRAME_SIZE < placement_addr + FRAME_SIZE
          PROVE  p < KHEAP_START /\ p \in present /\ fr[p] = p
      <4>1. p \in Nat /\ i \in Nat /\ placement_addr \in Nat
        BY <1>0 DEF Pages, TypeOK
      <4>2. i * FRAME_SIZE \in Nat /\ p * FRAME_SIZE \in Nat
        BY <4>1
      <4>3. p < i
        BY <4>1, <4>2, <3>2, <2>2, MulMono
      <4> QED
        BY <4>1, <4>3, <3>1
    <3>3. SlackMapped'
      BY <3>2, <2>2 DEF SlackMapped, Pages
    <3>4. HeapTables'
      BY <2>2, <1>4
         DEF MapInv, HeapTables, IdentityMap, table_of, heap_initial_end
    <3> QED
      BY <3>3, <3>4, <2>2, <1>0 DEF MapInv, NothingMapped, LoopMapped, BootMapped
  <2> QED
    BY <1>4, <2>1, <2>2 DEF IdentityMap
<1>5. CASE ~ overrun /\ AllocHeapPages
  <2>1. CASE /\ i < heap_initial_end /\ get_page(i) /\ alloc_frame(i)
             /\ i' = i + 1 /\ pc' = pc
    <3>1. i \in Pages /\ i >= KHEAP_START
      BY <2>1, <1>0, <1>5, ConstFacts
         DEF TypeOK, Pages, MapInv, HeapTables, AllocHeapPages
    <3>2. placement_addr' = placement_addr /\ tables \subseteq tables'
      BY <2>1, <3>1, <1>5, GetPageTables, ConstFacts
         DEF MapInv, HeapTables, AllocHeapPages, Pages
    <3>3. SlackMapped'
      BY <2>1, <3>1, <3>2, <1>0, <1>5, HeapAllocKeeps
         DEF MapInv, SlackMapped, AllocHeapPages
    <3>4. HeapTables'
      <4>1. pc = "heap_pages" /\ pc' = "heap_pages"
        BY <1>5, <2>1 DEF AllocHeapPages
      <4>2. KHEAP_START <= i'
        BY <2>1, <3>1 DEF Pages
      <4>3. \A p \in KHEAP_START .. (heap_initial_end - 1) : table_of(p) \in tables
        BY <4>1 DEF MapInv, HeapTables
      <4>4. \A p \in KHEAP_START .. (heap_initial_end - 1) : table_of(p) \in tables'
        BY <4>3, <3>2
      <4> QED
        BY <4>1, <4>2, <4>4 DEF HeapTables, table_of, heap_initial_end
    <3> QED
      BY <3>3, <3>4, <2>1, <1>0, <1>5
         DEF MapInv, NothingMapped, LoopMapped, BootMapped, AllocHeapPages
  <2>2. CASE /\ pc' = "paging_on"
             /\ UNCHANGED <<i, tables, placement_addr, present, fr, frames>>
    BY <2>2, <1>0, <1>5
       DEF MapInv, NothingMapped, LoopMapped, SlackMapped, BootMapped,
           HeapTables, AllocHeapPages
  <2> QED
    BY <1>5, <2>1, <2>2 DEF AllocHeapPages
<1>6. CASE ~ overrun /\ CreateHeap
  <2>1. placement_addr' <= placement_addr + FRAME_SIZE /\ placement_addr \in Nat
    BY <1>6, <1>0 DEF CreateHeap, kmalloc, TypeOK
  <2>2. ASSUME NEW p \in Pages, p * FRAME_SIZE < placement_addr'
        PROVE  p < KHEAP_START /\ p \in present /\ fr[p] = p
    <3>1. p * FRAME_SIZE \in Nat /\ placement_addr' \in Nat
      BY <1>0 DEF Pages, TypeOK
    <3>2. p * FRAME_SIZE < placement_addr + FRAME_SIZE
      BY <2>1, <2>2, <3>1
    <3> QED
      BY <3>2, <1>6 DEF MapInv, SlackMapped, CreateHeap
  <2> QED
    BY <2>2, <1>0, <1>6 DEF MapInv, NothingMapped, LoopMapped, SlackMapped,
         BootMapped, HeapTables, CreateHeap
<1>7. CASE ~ overrun /\ ExpandPage
  <2>1. heap_end \in Pages /\ heap_end >= KHEAP_START
    BY <1>7, <1>0 DEF ExpandPage, TypeOK, Pages
  <2>2. BootMapped'
    BY <2>1, <1>0, <1>7, HeapAllocKeeps DEF MapInv, BootMapped, ExpandPage
  <2> QED
    BY <2>2, <1>0, <1>7 DEF MapInv, NothingMapped, LoopMapped, SlackMapped,
         HeapTables, ExpandPage
<1>8. ASSUME ~ overrun, NEW new_end \in 0 .. (heap_end - 1), Contract(new_end)
      PROVE  MapInv'
  <2>1. \A q \in Pages : q < KHEAP_START => fr'[q] = fr[q]
    BY <1>0, <1>8 DEF Contract, free_frames, Pages, TypeOK
  <2>2. BootMapped'
    BY <2>1, <1>8 DEF MapInv, BootMapped, Contract
  <2> QED
    BY <2>2, <1>0, <1>8 DEF MapInv, NothingMapped, LoopMapped, SlackMapped,
         HeapTables, Contract
<1>9. CASE UNCHANGED vars
  BY <1>0, <1>9 DEF MapInv, NothingMapped, LoopMapped, SlackMapped, BootMapped,
       HeapTables, vars, overrun, table_of, Pages, heap_initial_end, bitmap_frames
<1> QED
  BY <1>1, <1>2, <1>3, <1>4, <1>5, <1>6, <1>7, <1>8, <1>9 DEF Next, Boot

\* MapInv holds however the heap grows and shrinks.
LEMMA MapInvariance == Spec => []MapInv
  BY MapInit, MapStep, PTL DEF Spec

\* Once paging is on, the kernel finds its own boot-time memory at its
\* physical address: for every image size, page-table size and heap layout,
\* and although the identity loop creates tables while it runs.
THEOREM IdentityAlwaysMapped == Spec => []IdentityMapped
<1>1. MapInv => IdentityMapped
  <2> SUFFICES ASSUME MapInv, pc \in {"paging_on", "done"}, ~ overrun,
                      NEW p \in Pages, p * FRAME_SIZE < placement_addr
               PROVE  p \in present /\ fr[p] = p
    BY DEF IdentityMapped
  <2>1. CASE pc = "done"
    BY <2>1 DEF MapInv, BootMapped
  <2>2. CASE pc = "paging_on"
    <3>1. placement_addr \in Nat /\ p * FRAME_SIZE \in Nat
      BY PagingAssumption DEF MapInv, TypeOK, Pages
    <3>2. p * FRAME_SIZE < placement_addr + FRAME_SIZE
      BY <3>1, PagingAssumption
    <3> QED
      BY <2>2, <3>2 DEF MapInv, SlackMapped
  <2> QED
    BY <2>1, <2>2
<1> QED
  BY <1>1, MapInvariance, PTL

-----------------------------------------------------------------------------
(***************************************************************************)
(* The bitset, until contract frees a page                                 *)
(***************************************************************************)

\* Page 0 is the only page mapped to frame 0, so a heap page without a frame
\* is a page that is not mapped.
PageZero ==
  (pc \in {"heap_pages", "paging_on", "done"} /\ ~ overrun) =>
    0 \in present /\ fr[0] = 0

TruthInv ==
  FrameInv /\ MapInv /\ PageZero /\ BitsetTruthful /\ NoSharedFrame

\* alloc_frame on a page that is not mapped adds one mapping and one bit.
LEMMA AllocTruthful ==
  ASSUME TypeOK, BitsetTruthful, NoSharedFrame, ~ overrun,
         NEW p \in Pages, shrunk \/ (fr[p] = 0 => p \notin present),
         alloc_frame(p), shrunk' = shrunk
  PROVE  BitsetTruthful' /\ NoSharedFrame'
<1>0. CASE shrunk
  BY <1>0 DEF BitsetTruthful, NoSharedFrame
<1> SUFFICES ASSUME ~ shrunk PROVE BitsetTruthful' /\ NoSharedFrame'
  BY <1>0
<1>1. CASE UNCHANGED <<present, fr, frames>>
  BY <1>1 DEF BitsetTruthful, NoSharedFrame
<1>2. ASSUME NEW f \in 0 .. frame_limit, first_frame(f), fr[p] = 0,
             present' = present \cup {p},
             fr' = [fr EXCEPT ![p] = f], set_frame(f)
      PROVE  BitsetTruthful' /\ NoSharedFrame'
  <2>1. /\ fr \in [Pages -> 0 .. frame_limit] /\ present \subseteq Pages
        /\ p \notin present
    BY <1>2 DEF TypeOK
  <2>2. f \notin frames
    BY <1>2 DEF first_frame, first_clear_bit, overrun
  <2>3. /\ \A q \in present : fr'[q] = fr[q] /\ fr[q] \in frames
        /\ fr'[p] = f
    BY <1>2, <2>1 DEF BitsetTruthful
  <2>4. frames' \subseteq { fr'[q] : q \in present' }
    <3>1. ASSUME NEW g \in frames PROVE \E q \in present' : fr'[q] = g
      <4>1. PICK q \in present : fr[q] = g
        BY DEF BitsetTruthful
      <4> QED
        BY <4>1, <2>3, <1>2
    <3> QED
      BY <3>1, <2>3, <1>2 DEF set_frame
  <2>5. { fr'[q] : q \in present' } \subseteq frames'
    BY <2>3, <1>2 DEF set_frame
  <2>6. BitsetTruthful'
    BY <2>4, <2>5 DEF BitsetTruthful
  <2>7. NoSharedFrame'
    BY <2>1, <2>2, <2>3, <1>2 DEF NoSharedFrame
  <2> QED
    BY <2>6, <2>7
<1> QED
  BY <1>1, <1>2 DEF alloc_frame

\* Every step preserves TruthInv; one in which contract frees a page makes its
\* claims about the bitset void.
LEMMA TruthStep == TruthInv /\ [Next]_vars => TruthInv'
<1> USE PagingAssumption
<1> SUFFICES ASSUME TruthInv, [Next]_vars PROVE TruthInv'
  OBVIOUS
<1>0. FrameInv' /\ MapInv' /\ TypeOK
  BY FrameStep, MapStep DEF Next, TruthInv, FrameInv
<1> SUFFICES PageZero' /\ BitsetTruthful' /\ NoSharedFrame'
  BY <1>0 DEF TruthInv
<1>1. CASE UNCHANGED <<present, fr, frames, shrunk>> /\ pc' # "heap_pages"
           /\ (pc' = pc \/ pc \notin {"bitmap", "directory", "heap_tables", "identity"}
               \/ pc' \notin {"heap_pages", "paging_on", "done"})
  BY <1>1, <1>0 DEF TruthInv, TypeOK, PageZero, BitsetTruthful, NoSharedFrame,
                    overrun, bitmap_frames
<1>2. CASE ~ overrun /\ (SetupBitmap \/ SetupDirectory \/ MapHeapTables)
  BY <1>1, <1>2 DEF SetupBitmap, SetupDirectory, MapHeapTables
<1>3. CASE ~ overrun /\ IdentityMap
  <2>1. /\ i \in 0 .. KHEAP_START /\ present = 0 .. (i - 1)
        /\ \A p \in Pages : fr[p] = IF p < i THEN p ELSE 0
    BY <1>3, <1>0 DEF IdentityMap, TruthInv, MapInv, LoopMapped, TypeOK
  <2>2. CASE i < KHEAP_START /\ get_page(i) /\ alloc_frame(i)
             /\ UNCHANGED <<pc, shrunk>>
    <3>1. i \in Pages /\ i \notin present
      BY <2>1, <2>2, <1>0 DEF Pages, TypeOK
    <3>2. BitsetTruthful' /\ NoSharedFrame'
      BY <2>2, <3>1, <1>0, <1>3, AllocTruthful DEF TruthInv
    <3> QED
      BY <3>2, <2>2, <1>3 DEF PageZero, IdentityMap
  <2>3. CASE /\ i * FRAME_SIZE >= placement_addr + FRAME_SIZE
             /\ UNCHANGED <<present, fr, frames, shrunk>>
    <3>1. i # 0
      BY <2>3, <1>0 DEF TypeOK
    <3>2. 0 \in present /\ 0 \in Pages /\ fr[0] = 0
      BY <3>1, <2>1, <1>0 DEF Pages
    <3> QED
      BY <3>2, <2>3 DEF TruthInv, PageZero, BitsetTruthful, NoSharedFrame
  <2> QED
    BY <2>2, <2>3, <1>3 DEF IdentityMap
<1>4. ASSUME NEW p \in Pages, p >= KHEAP_START, ~ overrun, alloc_frame(p),
             UNCHANGED <<pc, shrunk>>, pc \in {"heap_pages", "done"}
      PROVE  PageZero' /\ BitsetTruthful' /\ NoSharedFrame'
  <2>1. 0 \in present /\ fr[0] = 0 /\ 0 \in Pages
    BY <1>4 DEF TruthInv, PageZero, Pages
  <2>2. shrunk \/ (fr[p] = 0 => p \notin present)
    BY <2>1, <1>4 DEF TruthInv, NoSharedFrame
  <2>3. BitsetTruthful' /\ NoSharedFrame'
    BY <2>2, <1>0, <1>4, AllocTruthful DEF TruthInv
  <2>4. 0 \in present' /\ fr'[0] = 0
    BY <2>1, <1>0, <1>4, AllocFrameFrame DEF Pages
  <2> QED
    BY <2>3, <2>4 DEF PageZero
<1>5. CASE ~ overrun /\ AllocHeapPages
  <2>1. i < heap_initial_end => i \in Pages /\ i >= KHEAP_START
    BY <1>0, <1>5, ConstFacts
       DEF TypeOK, Pages, TruthInv, MapInv, HeapTables, AllocHeapPages
  <2> QED
    BY <2>1, <1>1, <1>4, <1>5 DEF AllocHeapPages
<1>6. CASE ~ overrun /\ CreateHeap
  BY <1>1, <1>6 DEF CreateHeap
<1>7. CASE ~ overrun /\ ExpandPage
  <2>1. heap_end \in Pages /\ heap_end >= KHEAP_START
    BY <1>7, <1>0 DEF ExpandPage, TypeOK, Pages
  <2> QED
    BY <2>1, <1>4, <1>7 DEF ExpandPage
<1>8. ASSUME ~ overrun, NEW new_end \in 0 .. (heap_end - 1), Contract(new_end)
      PROVE  PageZero' /\ BitsetTruthful' /\ NoSharedFrame'
  <2> DEFINE P == (new_end + 1) .. (heap_end - 1)
  <2>1. /\ fr' = [p \in Pages |-> IF p \in P THEN 0 ELSE fr[p]]
        /\ frames' = frames \ { fr[p] \div FRAME_SIZE : p \in { q \in P : fr[q] # 0 } }
        /\ UNCHANGED <<pc, present>>
        /\ shrunk' = (shrunk \/ new_end + 1 < heap_end)
    BY <1>8 DEF Contract, free_frames
  <2>2. 0 \in Pages /\ 0 \notin P
    BY <1>0 DEF Pages
  <2>3. PageZero'
    BY <2>1, <2>2, <1>8 DEF TruthInv, PageZero
  <2>4. CASE shrunk'
    BY <2>3, <2>4 DEF BitsetTruthful, NoSharedFrame
  <2>5. CASE ~ shrunk'
    <3>0. ~ shrunk /\ ~ (new_end + 1 < heap_end)
      BY <2>1, <2>5, Zenon
    <3>1. P = {}
      BY <3>0, <1>8, <1>0 DEF TypeOK
    <3>2. frames' = frames /\ fr' = fr
      BY <2>1, <3>1, <1>0 DEF TypeOK
    <3> QED
      BY <2>1, <2>3, <3>0, <3>2 DEF TruthInv, BitsetTruthful, NoSharedFrame
  <2> QED
    BY <2>4, <2>5
<1>9. CASE UNCHANGED vars
  BY <1>9 DEF vars, TruthInv, PageZero, BitsetTruthful, NoSharedFrame, overrun,
              bitmap_frames
<1> QED
  BY <1>2, <1>3, <1>5, <1>6, <1>7, <1>8, <1>9 DEF Next, Boot

\* TruthInv holds in every reachable state.
LEMMA TruthInvariance == Spec => []TruthInv
<1>1. Init => TruthInv
  BY FrameInit, MapInit
     DEF Init, TruthInv, PageZero, BitsetTruthful, NoSharedFrame
<1> QED
  BY <1>1, TruthStep, PTL DEF Spec

\* "Bitset of frames, used or free" (paging.c:11): until contract
\* frees a page, the bits set are exactly the frames mapped, on every machine.
THEOREM BitsetAlwaysTruthful == Spec => []BitsetTruthful
  BY TruthInvariance, PTL DEF TruthInv

\* Until contract frees a page, no two pages are mapped to one frame.
THEOREM NeverSharedFrame == Spec => []NoSharedFrame
  BY TruthInvariance, PTL DEF TruthInv
=============================================================================
