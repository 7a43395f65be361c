------------------------------- MODULE KHeap --------------------------------
(***************************************************************************)
(* kernel/mem/kheap.c: the kernel heap, down to the words of its headers   *)
(* and footers.                                                            *)
(*                                                                         *)
(* The unit is the 4-byte word; addresses and sizes are numbers modulo W   *)
(* and wrap where the code's unsigned arithmetic wraps.  A header is three *)
(* words (magic, is_hole, size) and a footer two (magic, header); size     *)
(* counts the whole region, header and footer included.  Memory that holds *)
(* no header or footer reads as 0: it was never written or it holds a      *)
(* client's data, and neither is assumed to look like a magic number.      *)
(*                                                                         *)
(* alloc calls itself, and expand calls alloc when get_page has to make a  *)
(* page table, so calls are kept on an explicit stack.                     *)
(***************************************************************************)
EXTENDS Integers, Sequences, FiniteSets, FiniteSetsExt, SequencesExt

CONSTANTS
  PAGE,           \* words in a page
  TABLE,          \* pages mapped by one page table
  W,              \* addresses and sizes are taken modulo W
  start_address, initial_end, max_address,
  HEAP_MIN_SIZE,
  Sizes,          \* lengths that clients ask for
  AlignedSizes,   \* lengths that clients ask for on a page boundary
  MaxBlocks,      \* bound: blocks that clients hold at one time
  StackDepth      \* calls of alloc that the kernel stack has room for

HEAP_MAGIC == -1

Header == 3
Footer == 2
Overhead == Header + Footer

ASSUME KHeapAssumption ==
  /\ PAGE \in Nat /\ PAGE >= Overhead /\ TABLE \in Nat \ {0} /\ W \in Nat
  /\ start_address \in Nat /\ initial_end \in Nat /\ max_address \in Nat
  /\ PAGE <= start_address        \* behind the pages of the index
  /\ start_address < initial_end /\ initial_end <= max_address
  /\ max_address + 2 * PAGE < W
  /\ start_address % PAGE = 0 /\ initial_end % PAGE = 0
  /\ StackDepth \in Nat /\ StackDepth >= 2
  /\ Sizes \cup AlignedSizes \subseteq Nat
  /\ \A n \in Sizes \cup AlignedSizes : max_address + n + Overhead + PAGE < W

VARIABLES
  mem,            \* header and footer words, by address
  index,          \* heap->index: the headers of the holes, by size
  end_address,    \* heap->end_address
  mapped,         \* pages of the heap that are present
  tables,         \* page tables that exist
  calls,          \* activations of alloc, the innermost last
  live,           \* live[p]: the client's block at p, [size, written]
  status          \* "ok", or why the kernel stopped

vars == <<mem, index, end_address, mapped, tables, calls, live, status>>

-----------------------------------------------------------------------------
(***************************************************************************)
(* Words of memory                                                         *)
(***************************************************************************)
word(m, a) == IF a % W \in DOMAIN m THEN m[a % W] ELSE 0

magic(m, a) == word(m, a) = HEAP_MAGIC
is_hole(m, h) == word(m, h + 1)
size_of(m, h) == word(m, h + 2)
header_of(m, f) == word(m, f + 1)

set_word(a, v) == [x \in {a % W} |-> v]

\* Memory m after the words new were written
over(new, m) ==
  [a \in DOMAIN new \cup DOMAIN m |-> IF a \in DOMAIN new THEN new[a] ELSE m[a]]

put_header(h, hole, s) ==
  over(set_word(h, HEAP_MAGIC), over(set_word(h + 1, hole), set_word(h + 2, s % W)))

put_footer(f, h) == over(set_word(f, HEAP_MAGIC), set_word(f + 1, h))

\* memset, or a client's writes
erase(m, A) == [a \in DOMAIN m \ A |-> m[a]]

page_of(a) == (a % W) \div PAGE

\* An access to a page that is not present ends in page_fault and PANIC
accessible(a) == page_of(a) \in mapped

\* Pages given to the index and the page before start_address
gap_page == page_of(start_address) - 1

heap_length == end_address - start_address

Payload(p, n) == p .. (p + n - 1)

-----------------------------------------------------------------------------
(***************************************************************************)
(* The index, an ordered array of hole headers (module OrderedArray)       *)
(***************************************************************************)
insert(m, idx, h) ==
  LET it == SelectInSeq(idx, LAMBDA x : ~ (size_of(m, x) < size_of(m, h)))
  IN InsertAt(idx, IF it = 0 THEN Len(idx) + 1 ELSE it, h)

unlink_forgotten(idx, h) == idx

unlink(idx, h) ==
  LET it == SelectInSeq(idx, LAMBDA x : x = h)
  IN IF it = 0 THEN idx ELSE RemoveAt(idx, it)

-----------------------------------------------------------------------------
(***************************************************************************)
(* find_smallest_hole                                                      *)
(***************************************************************************)
fits(h, need, align) ==
  LET offset == IF h + Header >= PAGE THEN PAGE - ((h + Header) % PAGE) ELSE 0
  IN IF align THEN (size_of(mem, h) - offset) % W >= need
     ELSE size_of(mem, h) >= need

find_without_overhead(need, align) ==
  SelectInSeq(index, LAMBDA h : fits(h, need - Overhead, align))

\* The position of the first hole that fits, 0 if there is none
find_smallest_hole(need, align) ==
  SelectInSeq(index, LAMBDA h : fits(h, need, align))

-----------------------------------------------------------------------------
(***************************************************************************)
(* The second half of alloc: split the hole at position it of the index.   *)
(* The result is the words written, the new index and the address for the  *)
(* caller.                                                                 *)
(***************************************************************************)
whole_if_smaller_header(s0, need) == (s0 - need) % W < Header

\* What would be left cannot hold a header and a footer
whole_hole(s0, need) == (s0 - need) % W < Overhead

payload_as_asked(size, new_size) == size

\* size, increased when the block takes the whole hole
payload_length(size, new_size) == (new_size - Overhead) % W

nothing == [a \in {} |-> 0]

carve(it, size, align) ==
  LET p0 == index[it]
      s0 == size_of(mem, p0)
      new_size == IF whole_hole(s0, size + Overhead) THEN s0 ELSE size + Overhead
      len == payload_length(size, new_size)
      shift == align /\ p0 >= PAGE
      lead == (PAGE - (p0 % PAGE) - Header) % W
      p == IF shift THEN (p0 + lead) % W ELSE p0
      lead_words == IF shift
                    THEN over(put_footer(p - Header, p0), put_header(p0, 1, lead))
                    ELSE nothing
      s == IF shift THEN (s0 - size_of(over(lead_words, mem), p0)) % W ELSE s0
      block_words == over(put_footer(p + Header + len, p), put_header(p, 0, new_size))
      rest == (s - new_size) % W
      hole == (p + Header + len + Footer) % W
      foot == (hole + rest - Footer) % W
      rest_foot == IF foot < end_address THEN put_footer(foot, hole) ELSE nothing
      rest_words == IF rest > 0 THEN over(rest_foot, put_header(hole, 1, rest))
                    ELSE nothing
      words == over(rest_words, over(block_words, lead_words))
      others == IF shift THEN index ELSE unlink(index, p0)
  IN [words |-> words,
      index |-> IF rest > 0 THEN insert(over(words, mem), others, hole) ELSE others,
      addr |-> (p + Header) % W]

-----------------------------------------------------------------------------
(***************************************************************************)
(* contract: the length of the heap afterwards, and the words on the pages *)
(* given back.  The mask 0x1000 keeps one bit of the length.               *)
(***************************************************************************)
contracted_length(new_size) ==
  LET rounded == IF (new_size \div PAGE) % 2 = 1 THEN 2 * PAGE ELSE new_size
  IN IF rounded < HEAP_MIN_SIZE THEN HEAP_MIN_SIZE ELSE rounded

\* The loop starts a page below the end, which need not be page-aligned
returned_pages(new_len) ==
  { page_of(start_address + it) :
      it \in { j \in (new_len + 1) .. (heap_length - PAGE) :
                 (heap_length - j) % PAGE = 0 } }

returned_words(new_len) ==
  { a \in DOMAIN mem : page_of(a) \in returned_pages(new_len) }

(***************************************************************************)
(* free, up to the point where a hole is known to end: the left and right  *)
(* neighbours that are holes are merged with it.                           *)
(***************************************************************************)
left_footer_kept(m, foot, head) == m

\* foot->header = head
left_footer(m, foot, head) == over(set_word(foot + 1, head), m)

grow(m, h, n) == over(set_word(h + 2, (size_of(m, h) + n) % W), m)

merge(p) ==
  LET head0 == p - Header
      size0 == size_of(mem, head0)
      foot0 == (head0 + size0 - Footer) % W
      m1 == over(set_word(head0 + 1, 1), mem)
      test_foot == head0 - Footer
      left == magic(m1, test_foot) /\ is_hole(m1, header_of(m1, test_foot)) = 1
      head == IF left THEN header_of(m1, test_foot) ELSE head0
      m2 == IF left THEN grow(left_footer(m1, foot0, head), head, size0) ELSE m1
      test_head == (foot0 + Footer) % W
      right == magic(m2, test_head) /\ is_hole(m2, test_head) # 0
  IN [head |-> head, left |-> left, right |-> right, test_head |-> test_head,
      foot |-> IF right THEN (test_foot + size_of(m2, test_head) - Footer) % W
               ELSE foot0,
      mem |-> IF right THEN grow(m2, head, size_of(m2, test_head)) ELSE m2,
      index |-> IF right THEN unlink(index, test_head) ELSE index,
      verdict |->
        IF ~ magic(mem, head0) THEN "bad_magic"
        ELSE IF ~ accessible(foot0) THEN "page_fault"
        ELSE IF ~ magic(mem, foot0) THEN "bad_magic"
        ELSE IF ~ accessible(test_foot) \/ ~ accessible(test_head) THEN "page_fault"
        ELSE IF right /\ ~ Contains(index, test_head) THEN "not_in_index"
        ELSE "ok"]

-----------------------------------------------------------------------------
(***************************************************************************)
(* What the kernel does                                                    *)
(***************************************************************************)
table_of(page) == page \div TABLE

top == Last(calls)

running(where) == status = "ok" /\ calls # << >> /\ top.pc = where

\* Every ASSERT and every page fault ends in PANIC, which halts
panic(why) ==
  /\ status' = why
  /\ UNCHANGED <<mem, index, end_address, mapped, tables, calls, live>>

new_call(size, align) ==
  [size |-> size, align |-> align, pc |-> "find", it |-> 0, new_size |-> 0,
   old_len |-> 0, old_end_addr |-> 0]

\* kmalloc and kmalloc_a
kmalloc(size, align) ==
  /\ status = "ok" /\ calls = << >>
  /\ calls' = << new_call(size, align) >>
  /\ UNCHANGED <<mem, index, end_address, mapped, tables, live, status>>

handed_out(p, size, table) ==
  [q \in DOMAIN live \cup {p} |->
     IF q = p THEN [size |-> size, written |-> table, table |-> table] ELSE live[q]]

table_forgotten(page) == tables

\* page_tables_virtual[page / TABLE] = the new table
table_added(page) == tables \cup {table_of(page)}

(***************************************************************************)
(* alloc found a hole.  If the caller was get_page, the block becomes its  *)
(* page table, is cleared and is never freed.                              *)
(***************************************************************************)
alloc_hit ==
  /\ running("find")
  /\ find_smallest_hole(top.size + Overhead, top.align) # 0
  /\ LET it == find_smallest_hole(top.size + Overhead, top.align)
         c == carve(it, top.size, top.align)
         for_table == Len(calls) > 1
         caller == calls[Len(calls) - 1]
     IN IF \A a \in DOMAIN c.words : accessible(a)
        THEN /\ mem' = IF for_table
                       THEN erase(over(c.words, mem), Payload(c.addr, top.size))
                       ELSE over(c.words, mem)
             /\ index' = c.index
             /\ calls' = Front(calls)
             /\ live' = handed_out(c.addr, top.size, for_table)
             /\ tables' = IF for_table
                          THEN table_added(page_of(start_address + caller.it))
                          ELSE tables
             /\ UNCHANGED <<end_address, mapped, status>>
        ELSE panic("page_fault")

\* The length that expand rounds up to; a page is added to a whole number too
expanded_length(new_size) ==
  IF new_size >= PAGE THEN ((new_size \div PAGE) * PAGE + PAGE) % W ELSE new_size

expand_allowed_unbounded(asked) == asked > heap_length

\* The two ASSERTs of expand
expand_allowed(asked) ==
  /\ asked > heap_length
  /\ (start_address + expanded_length(asked)) % W <= max_address

\* alloc found no hole: expand begins
alloc_miss ==
  /\ running("find")
  /\ find_smallest_hole(top.size + Overhead, top.align) = 0
  /\ LET asked == (heap_length + top.size + Overhead) % W
         new_size == expanded_length(asked)
     IN IF expand_allowed(asked)
        THEN /\ calls' = [calls EXCEPT ![Len(calls)] =
                            [@ EXCEPT !.pc = "expand", !.it = heap_length,
                                      !.new_size = new_size,
                                      !.old_len = heap_length,
                                      !.old_end_addr = end_address]]
             /\ UNCHANGED <<mem, index, end_address, mapped, tables, live, status>>
        ELSE panic("out_of_memory")

expand_page_number == page_of(start_address + top.it)

\* An iteration of the loop of expand whose page table exists
expand_page ==
  /\ running("expand") /\ top.it < top.new_size
  /\ table_of(expand_page_number) \in tables
  /\ mapped' = mapped \cup {expand_page_number}
  /\ calls' = [calls EXCEPT ![Len(calls)].it = @ + PAGE]
  /\ UNCHANGED <<mem, index, end_address, tables, live, status>>

\* get_page makes a page table with kmalloc_ap: alloc is entered again while
\* end_address is still the old one
expand_needs_table ==
  /\ running("expand") /\ top.it < top.new_size
  /\ table_of(expand_page_number) \notin tables
  /\ IF Len(calls) < StackDepth
     THEN /\ calls' = Append(calls, new_call(PAGE, TRUE))
          /\ UNCHANGED <<mem, index, end_address, mapped, tables, live, status>>
     ELSE panic("stack_overflow")

\* The end of expand, and what alloc does before it calls itself again: the
\* hole with the highest address grows by the new space, or a hole is made
expand_done ==
  /\ running("expand") /\ top.it >= top.new_size
  /\ end_address' = start_address + top.new_size
  /\ LET gained == (top.new_size - top.old_len) % W
     IN IF index = << >>
        THEN LET h == top.old_end_addr
             IN /\ mem' = over(put_footer(h + gained - Footer, h),
                               over(put_header(h, 1, gained), mem))
                /\ index' = << h >>
        ELSE LET h == Max(ToSet(index))
                 m == grow(mem, h, gained)
             IN /\ mem' = over(put_footer(h + size_of(m, h) - Footer, h), m)
                /\ index' = index
  /\ calls' = [calls EXCEPT ![Len(calls)].pc = "find"]
  /\ UNCHANGED <<mapped, tables, live, status>>

(***************************************************************************)
(* kfree(p), whole: merge, contract when the footer is at the end, insert. *)
(***************************************************************************)
free(p) ==
  /\ status = "ok" /\ calls = << >>
  /\ LET g == merge(p)
         contracts == (g.foot + Footer) % W = end_address
         new_len == contracted_length((g.head - start_address) % W)
         size == (size_of(g.mem, g.head) - (heap_length - new_len)) % W
         cut == erase(g.mem, returned_words(new_len))
         m == IF ~ contracts THEN g.mem
              ELSE IF size = 0 THEN cut
              ELSE over(put_footer(g.head + size - Footer, g.head),
                        over(set_word(g.head + 2, size), cut))
         idx == IF contracts /\ size = 0 THEN unlink(g.index, g.test_head)
                ELSE g.index
         verdict == IF contracts /\ (g.head - start_address) % W >= heap_length
                    THEN "bad_length" ELSE g.verdict
     IN IF verdict = "ok"
        THEN /\ mem' = m
             /\ index' = IF g.left THEN idx ELSE insert(m, idx, g.head)
             /\ end_address' = IF contracts THEN start_address + new_len
                               ELSE end_address
             /\ live' = [q \in DOMAIN live \ {p} |-> live[q]]
             /\ UNCHANGED <<mapped, tables, calls, status>>
        ELSE panic(verdict)

\* A client fills the block it was given
Write(p) ==
  /\ status = "ok" /\ calls = << >>
  /\ ~ live[p].written
  /\ mem' = erase(mem, Payload(p, live[p].size))
  /\ live' = [live EXCEPT ![p].written = TRUE]
  /\ UNCHANGED <<index, end_address, mapped, tables, calls, status>>

-----------------------------------------------------------------------------
\* create_heap: one hole, whose footer is not written
Init ==
  /\ mem = put_header(start_address, 1, initial_end - start_address)
  /\ index = << start_address >>
  /\ end_address = initial_end
  /\ mapped = gap_page .. (page_of(initial_end) - 1)
  /\ tables = { table_of(page) : page \in mapped }
  /\ calls = << >>
  /\ live = nothing
  /\ status = "ok"

KernelStep ==
  \/ alloc_hit \/ alloc_miss \/ expand_page \/ expand_needs_table \/ expand_done

(***************************************************************************)
(* Weak fairness of KernelStep, with the condition under which KernelStep  *)
(* is enabled written out: a call in progress runs on.  Nothing is assumed *)
(* of the clients.                                                         *)
(***************************************************************************)
KernelReady == status = "ok" /\ calls # << >>

KernelFairness == []<>(~ KernelReady) \/ []<><<KernelStep>>_vars

Held == { p \in DOMAIN live : ~ live[p].table }

Requests == (Sizes \X {FALSE}) \cup (AlignedSizes \X {TRUE})

\* Any client that frees only what it holds
Next ==
  \/ KernelStep
  \/ \E r \in Requests : Cardinality(Held) < MaxBlocks /\ kmalloc(r[1], r[2])
  \/ \E p \in Held : free(p) \/ Write(p)

Spec == Init /\ [][Next]_vars /\ KernelFairness

-----------------------------------------------------------------------------
(***************************************************************************)
(* The clients for which the heap works.  Spec breaks the properties below *)
(* when any of these conditions is dropped; the README has a behaviour for *)
(* each.                                                                   *)
(***************************************************************************)
BlockHeaders == { p - Header : p \in DOMAIN live }

Holes == ToSet(index)

\* The hole with the highest address, if there is one, ends the heap
TailOnTop(m, idx) ==
  idx # << >> => LET h == Max(ToSet(idx)) IN h + size_of(m, h) = end_address

\* free(p) merges p with nothing on its right, or with the hole that ends the
\* heap; p is not the last region
FreeIsSafe(p) ==
  LET r == p - Header + size_of(mem, p - Header)
  IN \/ r \in BlockHeaders
     \/ r \in Holes /\ r + size_of(mem, r) = end_address

\* Aligning a block of this size in hole h leaves room for a header and the
\* footer before it, and nothing or a proper hole behind it
AlignIsSafe(h, size) ==
  LET lead == PAGE - (h % PAGE) - Header
      rest == size_of(mem, h) - lead - size - Overhead
  IN lead >= 2 * Header /\ (rest = 0 \/ rest >= Overhead)

\* expand keeps the tail hole on top and needs at most one page table, which
\* can be had from a hole
ExpandIsSafe(size) ==
  LET last == start_address + expanded_length(heap_length + size + Overhead) - 1
      needed == { table_of(g) : g \in page_of(end_address) .. page_of(last) } \ tables
      it == find_smallest_hole(PAGE + Overhead, TRUE)
      c == carve(it, PAGE, TRUE)
  IN \/ needed = {} /\ TailOnTop(mem, index)
     \/ /\ Cardinality(needed) = 1
        /\ it # 0 /\ AlignIsSafe(index[it], PAGE)
        /\ TailOnTop(over(c.words, mem), c.index)

AllocIsSafe(size, align) ==
  LET it == find_smallest_hole(size + Overhead, align)
  IN \/ it # 0 /\ (align => AlignIsSafe(index[it], size))
     \/ it = 0 /\ ~ align /\ ExpandIsSafe(size)

NextD ==
  \/ KernelStep
  \/ \E r \in Requests : /\ Cardinality(Held) < MaxBlocks
                         /\ AllocIsSafe(r[1], r[2])
                         /\ kmalloc(r[1], r[2])
  \/ \E p \in Held : \/ FreeIsSafe(p) /\ free(p)
                     \/ Write(p)

SpecD == Init /\ [][NextD]_vars /\ KernelFairness

-----------------------------------------------------------------------------
\* Words, addresses and sizes stay within the width of the machine, and
\* neither expand nor contract moves end_address out of the heap's range.
TypeOK ==
  /\ DOMAIN mem \subseteq 0 .. (W - 1)
  /\ \A a \in DOMAIN mem : mem[a] \in {HEAP_MAGIC} \cup 0 .. (W - 1)
  /\ \A k \in DOMAIN index : index[k] \in 0 .. (W - 1)
  /\ end_address \in start_address .. max_address
  /\ mapped \subseteq 0 .. (W \div PAGE)
  /\ Len(calls) <= StackDepth
  /\ \A p \in DOMAIN live : live[p].size \in Sizes \cup AlignedSizes \cup {PAGE}
  /\ status \in {"ok", "out_of_memory", "page_fault", "bad_magic",
                 "not_in_index", "bad_length", "stack_overflow"}

Regions == BlockHeaders \cup Holes

AtRest == status = "ok" /\ calls = << >>

\* The blocks handed out and the holes of the index, as their headers
\* describe them, lie side by side from start_address to end_address: no word
\* is lost, none belongs to two regions, and no hole is listed twice.
Tiling ==
  AtRest =>
    /\ Cardinality(Regions) = Cardinality(DOMAIN live) + Len(index)
    /\ start_address \in Regions
    /\ \A r \in Regions :
         /\ magic(mem, r)
         /\ size_of(mem, r) >= Overhead
         /\ is_hole(mem, r) = (IF r \in Holes THEN 1 ELSE 0)
         /\ r + size_of(mem, r) \in Regions \cup {end_address}
         /\ \A q \in Regions : r < q => r + size_of(mem, r) <= q

\* free finds a block's neighbours through footers: every block has one, and
\* the word pairs where free looks for one either point back to the region
\* they end or do not look like a footer.
FootersSound ==
  AtRest =>
    \A r \in Regions :
      LET f == r + size_of(mem, r) - Footer
      IN /\ r \in BlockHeaders => magic(mem, f)
         /\ (magic(mem, f) /\ f + Footer # end_address) => header_of(mem, f) = r

\* The heap writes nothing into a block that a client has filled.
UserDataIntact ==
  \A p \in DOMAIN live :
    live[p].written => Payload(p, live[p].size) \cap DOMAIN mem = {}

\* No ASSERT fails and no access faults, except that the heap may be full.
NoPanic == status \in {"ok", "out_of_memory"}

\* Every call of kmalloc returns or reports that the heap is full, although
\* alloc calls itself and expand may call alloc.
AllocReturns == calls # << >> ~> (calls = << >> \/ status = "out_of_memory")

Abstract == INSTANCE Allocator WITH
  Arena <- start_address .. (max_address - 1),
  Lengths <- Sizes \cup AlignedSizes \cup {PAGE},
  blocks <- [p \in DOMAIN live |-> live[p].size]

\* kmalloc and kfree implement the allocator: blocks never move, change their
\* length or overlap.
ImplementsAllocator == Abstract!Spec

(***************************************************************************)
(* Stated for every client; the code breaks it                             *)
(***************************************************************************)

\* Blocks are "Contiguous areas of memory containing user data" (kheap.h:13):
\* two of them share no word.
NoOverlap ==
  \A p, q \in DOMAIN live :
    p # q => Payload(p, live[p].size) \cap Payload(q, live[q].size) = {}
=============================================================================
