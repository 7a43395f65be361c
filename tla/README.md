# A TLA+ verification project for VulcanOS

VulcanOS is a 32-bit x86 kernel in C: it boots through Multiboot, sets up
descriptor tables, interrupt controllers, a timer, a keyboard, paging and a heap,
and ends in a small shell that runs inside the keyboard's interrupt handler. This
directory holds TLA+ models of its stateful parts, the TLC runs that check them
on small instances and TLAPS proofs of the results that matter most.

    tlc -workers 2 -config MCKHeap.cfg MCKHeap      # one run
    tlapm PagingProofs.tla                          # one proof module

`PROJECT.json` lists the components, runs, mutants, hazards, findings and
theorems, and gives the source lines of every definition that models code.

## 1. Inventory

| Component | State | Operations | Used by | Hard to get right |
|---|---|---|---|---|
| ordered array (`mem/ordered_array.c`) | slots, `size` | place, insert, lookup, remove | heap index | shifting loops, ties, a full array, no capacity test |
| paging, frame allocator (`mem/paging.c`) | frame bitmap, page tables, `placement_addr` | `init_paging`, `get_page`, `alloc_frame`, `free_frame` | heap (`expand`, `contract`) | a boot loop whose bound it moves itself; memory taken after the identity map was made; bitmap of the wrong size; wrong bit cleared |
| heap (`mem/kheap.c`) | headers and footers in memory, index of holes, `end_address` | `alloc`, `expand`, `contract`, `free`, `create_heap` | everybody | splitting, merging through footers, recursion through `get_page`, unsigned wrap-around |
| IDT and PIC (`drivers/idt.c`) | gates, controller registers | `init_idt`, `pic_remap`, `sti` | boot | order of initialisation; a byte sent to the wrong controller |
| interrupt dispatch (`cpu/interrupts.asm`, `drivers/isr.c`) | kernel stack, `interrupt_handler[]`, lines in service | stubs, `isr_handler`, `irq_handler`, `ack_irq`, `iret` | devices, `int`, faults | acknowledge before the handler; `sti` before `iret`; nesting |
| timer (`drivers/timer.c`) | `tick` | `init_timer`, `timer_callback` | shell | wrap-around |
| keyboard (`drivers/keyboard.c`) | `command[]`, `cmd_index`, controller's output buffer | `keyboard_callback` | shell | events before the handler is there; line editing |
| terminal (`drivers/tty.c`) | `fb_col`, `fb_row`, cells | `kprint_c`, `newline`, `scroll`, `backspace`, prompt | everybody | shared by `kernel_main` and the keyboard's handler without a lock; unsigned column |
| shell (`userspace/shell.c`) | none | `processCommand`, `reboot`, `test_interrupts`, `timer_dump`, `register_dump` | keyboard handler | runs with interrupts off; numbers formatted into small buffers |
| clock (`libc/time.c`) | the CMOS registers, which change by themselves | `cmos_reader`, `get_time` | fetch | a wait for a flag; each register read twice |
| fetch, cpuid (`userspace/fetch.c`, `drivers/cpuid.c`) | none | `system_fetcher`, `get_date`, `get_cpu_type`, `get_cpu_family` | shell | a date read in three parts; pointers that nothing sets |
| VFS, initrd (`drivers/fs.c`, `drivers/initrd.c`) | nodes, headers in the image, one `dirent` | `init_ramdisk`, `read_fs`, `readdir_fs`, `finddir_fs`, `write_fs`, `open_fs`, `close_fs` | nobody yet | bounds in unsigned arithmetic; memory that nothing sets; a mount that changes the image |
| GDT (`drivers/gdt.c`, `cpu/gdt.asm`) | five descriptors | `gdt_setup` | boot, every gate | bit layout; loaded before the first interrupt |
| panic (`libc/panic.c`) | none | `cli` and an endless loop | everybody | |
| libc, ports | none | `printf`, `uitoa`, string functions; `in`, `out` | everybody | formatting |

How they interact. `kernel_main` calls the initialisers in a fixed order; from
`sti` (in `init_idt`) on, interrupts arrive between any two of its instructions.
`init_paging` and the heap call each other: paging takes memory from the
placement allocator of `kheap.c` and creates the heap; the heap asks paging for
pages, and paging asks the heap for page tables. The keyboard handler edits the
line, prints and runs commands; `fetch` among them waits for the clock, which
goes on by itself. There is one CPU and there are no threads:
concurrency means interrupts, and the shared state is the cursor, the screen
and the controllers. Nothing is persisted.

What makes each part correct:

* ordered array: sorted, no duplicates, behaves as a set;
* paging: boot ends; what the kernel uses is mapped to itself; a frame has one
  owner and the bitmap tells the truth;
* heap: blocks and holes tile the heap, clients' data is not touched, blocks
  never overlap, calls return;
* interrupts: a handler is not interrupted, no line is blocked for ever, a
  device's interrupt reaches its gate, the descriptor tables lead it to its
  stub, every key is read;
* terminal: text goes to the screen, backspace erases what was typed and
  nothing else, and only what was typed is run;
* clock and fetch: what a call returns was true at one moment, numbers are
  printed as they are and fit their buffers, commands come back;
* file system: names stand for the files of the image and reads deliver their
  bytes, within a contract that is stated.

## 2. Modules

| Module | Models | Checked by | Proved in |
|---|---|---|---|
| `ItemSet` | a set of items: the promise of the ordered array | | |
| `OrderedArray` | `mem/ordered_array.c` | `MCOrderedArray` | `OrderedArrayProofs` |
| `Paging` | `mem/paging.c`, boot half of `kmalloc_int` | `MCPaging` | `PagingProofs` |
| `Allocator` | disjoint blocks that neither move nor change: the promise of `kmalloc`/`kfree` | | |
| `KHeap` | `mem/kheap.c` with `get_page` as it is used by `expand` | `MCKHeap` | `KHeapProofs` |
| `Segments` | the bytes of `gdt.c` and `idt.c`, and how the CPU reads them; used by `Interrupts` | `MCInterrupts` | `InterruptsProofs` |
| `Interrupts` | `gdt_setup`, `idt.c`, `isr.c`, `interrupts.asm`, handlers, `kernel_main`, 8259, keyboard controller | `MCInterrupts` | `InterruptsProofs` |
| `Terminal` | `tty.c`, `keyboard.c`, dispatch of `shell.c`, printing by `kernel_main` | `MCTerminal` | `TerminalProofs` |
| `Clock` | `libc/time.c` and the CMOS clock | `MCFetch` | `ClockProofs` |
| `Fetch` | `fetch.c`, `cpuid.c`, `timer` and `regs` of `shell.c`, `uitoa`; extends `Clock` | `MCFetch` | `FetchProofs` |
| `Archive` | a read-only archive of files: the promise of the ramdisk | | |
| `FileSystem` | `fs.c`, `initrd.c` and a client of them | `MCFileSystem` | `FileSystemProofs` |

**OrderedArray.** `array` has a slot more than the capacity: the word after the
array, which the shifting loops touch. `insert_ordered_array` and
`remove_ordered_array` are the loops' net effect on every slot, the stale ones
included. Callers insert an item that is not stored and stop at `max_size`
items; the code does not test for that. The key of a stored item does not
change, as the array's own promise requires; the heap breaks that (section 5),
and `KHeap` has an index of its own and assumes no order of it.

**Paging.** One action per statement or loop iteration of `init_paging`, then
`ExpandPage` and `Contract`. Pages and frames are numbers, the bitmap is the
set of frames whose bit is set. The bitmap really has room for a quarter of the
frames; the model ends with the first write behind it (`overrun`), because what
such a write destroys depends on what lies there. The history variable `shrunk`
says whether the heap has ever contracted: `BitsetTruthful` and `NoSharedFrame`
hold until then, the other properties always.

**KHeap.** Memory is a function from word addresses to the words of headers and
footers; a word of a client's data reads as 0, so it never looks like a magic
number. `alloc` is split where it can call itself or `get_page`, with an
explicit stack of calls (`alloc_hit`, `alloc_miss`, `expand_page`,
`expand_needs_table`, `expand_done`); `free` is one action, since nothing that it
calls comes back to the heap and no interrupt handler uses the heap. Arithmetic is
modulo `W`. ASSERTs and page faults set `status`. `KHeapAssumption` says what the
constants of the code satisfy (page-aligned bounds, a page that holds a header and
a footer, the index below the heap, a stack for two calls), and that requests are
so short that the sums `alloc` makes of them do not wrap: a request of nearly 4 GB
becomes a small one when header and footer are added (kheap.c:161).

`Spec` lets clients do anything a client may do. The heap has defects (section
5) that most properties do not survive, so the passing runs use `SpecD`, the
clients for which the heap works. Its conditions are written out as
`FreeIsSafe`, `AlignIsSafe`, `ExpandIsSafe`; the heap test of `kernel_main` and
everything the kernel does today satisfy them. They exclude:

* freeing the last block while no hole follows it: `free` reads a header behind
  the last mapped page (kheap.c:288) before the test that would contract the
  heap, and faults when it has already turned the block into a hole;
* freeing a block whose right neighbour is a hole in the middle of the heap:
  after `free(y)`, `free(x)` for neighbours x, y, z, the footer before z still
  names y, and `free(z)` is merged into y's dead header, which is not in the
  index: the space of z is lost, and `free` of the next neighbour may fail
  the ASSERT of kheap.c:298;
* an aligned request that meets a hole ending before the next page boundary:
  its size minus the offset wraps and it is accepted, so `kmalloc_a` after
  `x := kmalloc, y := kmalloc, kfree(x)` is laid over what follows;
* an aligned request that leaves, in front of its block, a hole shorter than two
  headers: it has no room for the header and the footer that `alloc` writes, and
  the size that `alloc` reads again after it wrote the footer may be a word of it;
* an aligned request that leaves one to four words behind its block, too few for
  the header and the footer of another hole;
* an aligned request of a client that finds no hole (one of `get_page` that finds
  none is excluded below): after `expand` the same search is made in a heap that
  has grown, and meets the two cases before this one there;
* growing while the topmost hole is not at the end (run `heap_expand`);
* growing into a new page table when no hole can hold it: `get_page` calls
  `alloc`, which calls `expand` for the same page, until the stack is full.

These clients never make the heap contract, which is proved (`NeverShrinks`): after
a merge to the right, `free` computes the footer of the merged hole from the footer
*before* the block (kheap.c:290), so that it is not found at `end_address`. The
code of `contract` is in the model (`contracted_length`, `returned_pages`,
`returned_words`), but only clients outside `SpecD` can reach it.

**Interrupts.** The kernel stack is a sequence of frames with the stage that
each handler has reached. External, modelled as the emulators named in the
repository's README behave: the two edge-triggered 8259s with their
initialisation sequence byte by byte, the keyboard controller with a one-byte
output buffer, and a CPU that takes an interrupt between any two instructions
while IF is 1. `pic_remap` is the code's sequence of writes, the one to the
wrong port included; what it leaves in the registers is computed, not assumed:
the master ends with automatic end-of-interrupt, the slave with its mask as
ICW4. Commands other than `int` and `reboot` come back to the handler. What a
gate or a segment is does not stay abstract: `Segments` builds the descriptors
byte by byte from the packed structures and decodes them as the CPU does, and
`TrapsLandInStubs` follows every frame on the stack through both tables. Where
the linker put the stubs is a parameter (`stub`). Keys may come at any time under
`Spec`; in `SpecQuiet` none comes before `init_keyboard`, and in `SpecFromSti`
none before `init_idt` enables interrupts.

**Terminal.** A handler cannot be interrupted (proved in `InterruptsProofs`), so
`keyboard_callback` is one action per key. `kernel_main` prints one memory
access at a time, the tab of its text as four advances of the cursor; moving the
rows in `scroll` is one step. Which characters `printf` hands on, its loop over the
format, is not modelled: the text is a sequence of letters, tabs and line ends. Cells record who
wrote them. A key release changes only `shiftdown`, which nothing reads, and is
left out. `processCommand` knows the clear command; any other line prints one of
`replies`, with and without a final line end. The history variable `typed` is
the line as the user sees it.

**Clock.** The reader goes through wait, first and second read of each field;
which of the two operands of the sum in `BCD_CONVERTER` is read first is open.
The clock announces each update by the flag and updates later. External, after
the data sheet: the flag rises at least 244 microseconds before an update. The
model counts that time in reads (`Lead`) and assumes that the twelve reads of the
longest call fit into it, which on a PC they do several times over. `calendar`
is any sequence of register contents.

**Fetch.** A command runs inside `keyboard_callback` with interrupts off, so
that `tick` and the CPU's registers are inputs and only the clock moves.
`system_fetcher` is split at its three calls of `get_time`. Characters are
codes and `uitoa` is the loop's result: digits, then the reversal, behind the
prefix. A pointer that cpuid.c leaves unset is `UNSET`; printing it prints
something or faults. `cmos_reader`, which nothing calls, is called by
`read_time`.

**FileSystem.** One client holds a node and a position in it, mounts (up to
twice), looks up, lists, reads on and calls the empty callbacks in any order,
results NULL and `/dev` included. A byte is its address, so what was copied
shows where it came from. Memory that nothing sets is `GARBAGE`: a callback read
from it is 0, or the call goes anywhere and the model stops in `"wild"`.
`WildOnlyOutsideContract` lists the ways there, which is the contract of the
functions; `ImplementsArchive` shows what a client within it sees.

## 3. Runs

| Run | Instance | Result |
|---|---|---|
| `ordered_array` | 5 items with ties, 4 slots | 446 states; sorted, no duplicates, implements `ItemSet` |
| `paging` | 13 image sizes, frames of 4 bytes, tables of 8 pages, a heap that grows and shrinks | 63,246 states; boot ends; identity map; truthful bitmap and no shared frame until the heap shrinks; no high frame shared ever |
| `heap_plain` | heap of 2 to 4 pages of 8 words, two sizes, 3 blocks | 110,691 states; tiling, footers, data, no panic, implements `Allocator` |
| `heap_tables` | pages of 12 words, tables of 4 pages, aligned requests | 18,160 states; the same while a page table is taken from the heap; every `kmalloc` returns |
| `interrupts` | timer, keyboard, one line of the slave; two masks per controller; 2 waiting keys | 13,472 states; exclusive handlers, nothing stuck, gates present and leading to their stubs, keys read |
| `terminal` | 4 rows of 5 cells, lines of up to 4 keys | 732,754 states; cursor on the screen, prompt spared, only typed keys run |
| `filesystem` | 4 images (empty, an empty file, a name twice, a file called dev), numbers modulo 32, two mounts | 36,040 states; short reads mean the end, listed names are found, no wild call within the contract, implements `Archive` |
| `fetch` | 5 moments of the clock (noon, ends of month and year), 5 CPUs, numbers where numerals get longer | 234,900 states; calls atomic, fields in order, numbers right and in their buffers, named CPUs printed, commands end |
| `heap_expand`, `interrupts_early_key`, `terminal_race`, `fetch_date` | as small as the behaviour allows | violations, section 5 |

Why the bounds are enough. The array's instance has ties, a full array and
re-insertion. The paging instance needs tables beyond the first for the identity
map and a new table when the heap grows, and its images end before, at and
behind page boundaries. The heap's sizes are chosen to split a hole, to use it
whole and to grow the heap, with a block on either side of every kind of merge
that the clients may cause; `heap_tables` grows across a page table's boundary.
Two key events suffice for one to wait while another is handled; one line on each
side of the cascade and one above both give all relations of priority. The
screen is so small that a line wraps, scrolls and can be erased to before its
first row. The file system's offsets and sizes lie before, at and behind the
ends of files and at the point where their sum wraps; the listing's indices lie
on both sides of the number of files and of the address that the code compares
with. The calendar's updates change both digits of several fields, so that a
torn read is never a right value by chance, and there are enough of them for one
to fall into each gap of a command. `KeyLimit`, `TickWrap`, `MaxBlocks`, `StackDepth`, `CMD` and
`Letters` are the named bounds. Deadlock is checked except where the kernel may
stop: `Paging` and `KHeap` stop at a full heap, `Interrupts` after a halt with
all lines pending, `FileSystem` when anything may happen, `Fetch` after a fault.

Every property has a mutant of the code that breaks it under the run's own
configuration; `PROJECT.json` lists them.

Fairness. `Paging`: the boot code keeps executing. `KHeap`: a call in progress
keeps executing; clients need not do anything. `Interrupts`: handlers run on
(weak fairness: nothing preempts them); `kernel_main` runs on between
interrupts and the CPU takes a keyboard request that is offered again and again
(strong fairness: other interrupts keep disabling these steps for a moment); the
keyboard controller raises its line when it has a byte; and the timer's period
is longer than its handler (`SlowTimer`): if interrupts are enabled again and
again, they are so again and again while line 0 is not requested. Without it
line 0 could keep every other line out; that interrupts do get enabled again is
not assumed. `Fetch`: the handler runs on; an announced update comes; and the
wait ends if the flag is down again and again (strong fairness: the flag is up
for about two milliseconds in a second and the loop looks every few
microseconds). Nothing is assumed of the user or of other devices.

## 4. Proofs

All constants are arbitrary, subject to the named ASSUMEs.

* `OrderedArrayProofs`: `TypeOK /\ Sorted /\ NoDuplicates` is inductive; the
  refinement theorem shows that an insertion maps to adding exactly its argument
  and a removal to removing exactly one item. Each conjunct is needed for the
  others: the scan stops at the right place only in a sorted array, and a removal
  takes one item only if it is stored once.
* `PagingProofs`: `FrameInv` (no two pages share a high frame; bits of high
  frames in use stay set, since `free_frame` can only clear low ones),
  `MapInv` (what each loop of `init_paging` has mapped so far; the slack of one
  frame behind `placement_addr`; the tables of the heap exist before the
  identity loop, so that the later loops do not move `placement_addr`), and
  `TruthInv` (the bitmap is the set of mapped frames, for a heap that only
  grows, `shrunk` being false).
* `InterruptsProofs`: `IInv` says that the stack is empty or IF is 0, that every
  frame but the outermost saved IF = 0 (which is why `iret` in a nested frame
  does not open a window) and is not a device's, that IF stays 0 until the
  vectors are remapped and the gates set, and that a device's frame has a
  vector in 32..47. The theorems are about `Spec`, where keys may be pressed at
  any time, and so hold of `SpecQuiet` too. `TrapsAlwaysLand` adds that the
  table is loaded before any frame exists, and rests on lemmas about the bytes:
  decoding what `construct_entry` and `idt_set_gate` pack gives back base, limit,
  type and ring, for every address of a stub.
* `ClockProofs`: while a call reads, the clock shows what it showed when the wait
  ended, and the flag has been up for no more reads than the call has made
  (`Steady`); the digit in hand belongs to the register being read
  (`DigitFits`). An update would need `Lead` reads and a call makes fewer, so
  that none falls into a call, and every field is the register's value at the
  end of the wait. The assumption is `ClockAssumption`: `Lead` is at least
  twelve reads.
* `InterruptsProofs` also proves `TypeOK` and `NothingStuckInService`. The invariant
  behind the second is `Service`: at most one line is in service, it is the line of
  the only frame, and that frame is at its acknowledgement. It rests on `IInv`
  (no second device frame can be pushed) and on lemmas about the two EOI bytes:
  the slave gets one exactly when the line is the slave's.
* `FileSystemProofs`: `init_ramdisk` changes nothing in the image but the offsets of
  the headers, once per mount (`Headers`), which gives `TypeOK`: headers and
  nodes keep their shape, a node leads back to its header, `dirent` is unset,
  `dev`, a file's name and number or what unset memory gave it, and no more was
  copied than the file has before the client's position; the nodes are those of the image
  (`Nodes`); a file that a client holds is the first with its name (`Held`); and
  what was copied is a run of the file's bytes that ends at the client's position
  (`Delivered`). From these follow the three invariants and the refinement of
  `Archive`, each read being a step that delivers a piece of the file or reports
  its end. `FileSystemAssumption`: files lie below the end of the address space.
* `TerminalProofs`: `OnlyTypedKeysRun` holds under `Spec`, interrupts between any two
  memory accesses of `kernel_main` included: a byte of `command[]` is the key typed
  there or was cleared (`Line`). The rest is about `SpecQuiet`, where no key comes
  before the prompt stands. `Stage` carries what the tests of `newline` and
  `cursor_adv` found to their stores, `Above` says that the prompts on the screen
  lie before the line, and `Ready` that the cell of the cursor leaves room for
  erasing every key of the line. Printing a text of any length is handled by the
  least counterexample over its characters. `TerminalAssumption`: a line fits on
  the screen (512 keys on 80 x 25).
* `FetchProofs` extends `ClockProofs`. `InOrder` adds to its invariant that the fields
  read so far were true at moments in order, the last of them when the wait of
  the current call ended. `uitoa` is a recursive function of the number; that
  reading its digits back gives the number, and how many they are, is
  proved for every number by the least counterexample (`NatMin`), the
  well-foundedness of the naturals standing in for an induction principle.
  `FetchAssumption`: registers have 32 bits.
* `KHeapProofs`, about `SpecD`. `IInv` has four parts. `Layout`: the headers of blocks
  and holes describe regions that tile the heap, every block's footer leads
  back to it, and a hole's does, or is none, or ends the heap (`create_heap`
  writes no footer). `Blocks`: a block has room for its length and its header and
  footer, and holds no word of the heap's once filled. `Memory`: the words lie
  between start and end, and all pages up to the end are present, the one before
  the heap included, where `free` of the first block looks for a footer. `Calls`:
  what `AllocIsSafe` said when the call began still holds when it goes on; a
  loop of `expand` has either all tables it needs, with the tail hole on top, or
  needs one more, which can be had from a hole and leaves the tail on top.
  `Layout` is needed to know where `free` and `alloc` write, `Calls` to know that
  the hole which `expand` lengthens is the last region. The first part of the
  module is about tilings alone (`Split`, `Join`, `Stretch`, `Extend`), the second
  about tilings described by a memory (`LayFront`, `LayBack`, `LayMiddle`, `LayJoin`,
  `LayStretch`, `LayExtend`): a region keeps its header and footer when words are
  written outside it. Then come the index (`InsertFacts`, `UnlinkFacts`), pages and
  division, and each operation as a change of the layout: `CarvePlain` and
  `CarveAligned` for `alloc`, `FreeAlone`, `FreeLeft`, `JoinRight` for `free`,
  `TailGrows` and `TailMade` for `expand`. `Counted` turns "no hole is listed
  twice" into the equation of cardinalities in `Tiling`. In the refinement, a
  block handed out lies in the heap and away from the others by the invariant
  of the state after the step.

Only model-checked: liveness (`BootCompletes`, `AllocReturns`, `KeysAreRead`,
`CommandEnds`), which is out of the prover's reach. Every other property of a
passing run is also a theorem.

## 5. What the code does differently from what it says

With a run:

* `heap_expand`: after `expand` the topmost hole grows over a block that lies
  behind it (kheap.c:197), and the next allocation overlaps that block.
* `interrupts_early_key` (under `SpecFromSti`): a key event between `sti` and
  `init_keyboard` is delivered and acknowledged, but nobody reads it; the
  controller's buffer stays full and no later key is ever seen. A key before
  `pic_remap` has the same end, which `SpecFromSti` leaves out: the first byte of
  the initialisation makes the controller forget the request.
* `terminal_race`: Enter between the test and the increment of `fb_row` moves
  the cursor below the screen for good.
* `fetch_date`: an update of the clock between two calls of `get_time` makes
  `fetch` print the day of one date with the month of another.

Met while modelling, without a run of their own: `free_frame` clears the bit of
frame n / 4096 instead of frame n (paging.c:66; `BitsetTruthful` fails once the
heap has shrunk); the bitmap is allocated in bytes and used in words (paging.c:74);
the PANIC for "no free frames" cannot happen (paging.c:46); the heap of well-behaved
clients never contracts (kheap.c:290); the fault of freeing the last block, the stale footer, the
wrapping alignment test and the endless recursion of section 2; the index is not
kept sorted when sizes of stored holes change (kheap.c:197, 221, 282, 289, 311);
`pic_remap` writes the slave's identity to the master (idt.c:114); a key typed
before the prompt lets backspace erase the prompt; an exception without a
handler returns to the instruction that caused it (isr.c:58); `clear_tmp` clears
`command` instead of `temp`, so that a backspace loses the line that is still
shown (keyboard.c:79, 101); isr17 is declared without an error code
(interrupts.asm:128), against the comment in line 110.

In the clock and in fetch: the registers that `TIME_R_SECOND`, `TIME_R_MINUTE`
and `TIME_R_HOUR` name (4, 5, 6) hold the hour, an alarm and the weekday; on CPUs
of other makers than Intel, and on Intel's newer ones, `get_cpu_type` returns a
pointer that nothing set; `timer` writes behind its buffer of 8 bytes from ten
million ticks on, after about 31 hours; the divisor 1193180 for 1 Hz is sent
modulo 2^16, which makes 88 Hz (timer.c:28). In functions that nothing calls:
`itoa` puts "0x" before decimal numbers and advances the wrong index while
it reverses (string.c:21, 43).

In the file system: the root is set up twice and `/dev` never (initrd.c:38); the
bound of `initrd_readdir` is an address, so that a listing does not end with the
last file (initrd.c:93); a read whose offset and size wrap is not cut off
(initrd.c:79); a second `init_ramdisk` adds the location to offsets that are
already addresses (initrd.c:56).

## 6. Not modelled

Port I/O and the Multiboot definitions: single instructions and declarations.
The colour of cells, the hardware cursor, the PIT's frequency, saved registers,
access bits of pages, owners and permissions of file nodes: no property depends
on them. `itoa` and `memmove` as functions of their own (nothing uses `%i`),
`kprint_dec` (the line number of a panic) and `strcat` (into a name that is
dropped): no state depends on their results. `command[]` at its limit: the 513th key of a line is written to memory
whose owner the linker chooses. The tests of the Multiboot magic in
`kernel_main`: they print and panic before anything is initialised.

## 7. Plan

1. Heap: which parts of `FreeIsSafe` and `AlignIsSafe` can be weakened without
   losing the invariant of `KHeapProofs`.
2. `Interrupts`, `Paging`: the safety half of the liveness properties as
   invariants (a waiting byte always has its line raised or in service; every
   boot step decreases what is left), with proofs.
