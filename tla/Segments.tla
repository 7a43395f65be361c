------------------------------ MODULE Segments ------------------------------
(***************************************************************************)
(* The descriptors that gdt.c and idt.c build, byte for byte as the packed *)
(* structures of gdt.h and idt.h lay them out, and what the CPU reads in   *)
(* those bytes (external, after Intel's manual).  Bit fields are filled    *)
(* from the lowest bit on, words from the lowest byte on.                  *)
(***************************************************************************)
EXTENDS Integers, Sequences

CONSTANT stub       \* where the linker put isr0 to isr31 and irq0 to irq15

ASSUME SegmentsAssumption ==
  stub \in [0 .. 47 -> Nat] /\ \A n \in 0 .. 47 : stub[n] \div 65536 < 65536

\* The bytes of a word
low(n) == n % 256

high(n) == (n \div 256) % 256

-----------------------------------------------------------------------------
(***************************************************************************)
(* gdt.c                                                                   *)
(***************************************************************************)
GDT_CODE_TYPE_EXEC_READ == 10
GDT_DATA_TYPE_READ_WRITE == 2
GDT_RING0 == 0
GDT_RING3 == 3

\* struct gdt_access: code or data, present
gdt_access(type, dpl) == type + 16 * 1 + 32 * dpl + 128 * 1

\* struct gdt_granularity: pages of 4 KiB, 32-bit operands, GDT_SEGMENT_LENGTH
gdt_granularity == 15 + 64 * 1 + 128 * 1

\* The lower halves of GDT_LIMIT and GDT_BASE, then the bytes
construct_entry(access) ==
  << low(65535), high(65535), 0, 0, 0, access, gdt_granularity, 0 >>

construct_null_entry == << 0, 0, 0, 0, 0, 0, 0, 0 >>

gdt_entries_swapped ==
  << construct_null_entry,
     construct_entry(gdt_access(GDT_DATA_TYPE_READ_WRITE, GDT_RING0)),
     construct_entry(gdt_access(GDT_CODE_TYPE_EXEC_READ, GDT_RING0)),
     construct_entry(gdt_access(GDT_DATA_TYPE_READ_WRITE, GDT_RING3)),
     construct_entry(gdt_access(GDT_CODE_TYPE_EXEC_READ, GDT_RING3)) >>

gdt_entries ==
  << construct_null_entry,
     construct_entry(gdt_access(GDT_CODE_TYPE_EXEC_READ, GDT_RING0)),
     construct_entry(gdt_access(GDT_DATA_TYPE_READ_WRITE, GDT_RING0)),
     construct_entry(gdt_access(GDT_CODE_TYPE_EXEC_READ, GDT_RING3)),
     construct_entry(gdt_access(GDT_DATA_TYPE_READ_WRITE, GDT_RING3)) >>

-----------------------------------------------------------------------------
(***************************************************************************)
(* idt.c                                                                   *)
(***************************************************************************)
IDT_FLAG_RESERVED == 14

\* struct idt_flags: ring 0, present
idt_flags == IDT_FLAG_RESERVED + 32 * 0 + 128 * 1

idt_gate(base, selector, flags) ==
  << low(base), high(base), low(selector), high(selector), 0, flags,
     low(base \div 65536), high(base \div 65536) >>

\* The selector of the code segment in every call of idt_set_gate, and the
\* one of the data segment that every stub loads
CODE == 8
DATA == 16

idt_entry(n) == idt_gate(stub[n], CODE, idt_flags)

-----------------------------------------------------------------------------
(***************************************************************************)
(* The CPU                                                                 *)
(***************************************************************************)
segment(table, selector) ==
  LET e == table[selector \div 8 + 1]
  IN [base |-> e[3] + 256 * e[4] + 65536 * e[5] + 16777216 * e[8],
      limit |-> e[1] + 256 * e[2] + 65536 * (e[7] % 16),
      in_pages |-> e[7] \div 128,
      type |-> e[6] % 32,
      dpl |-> (e[6] \div 32) % 4,
      present |-> e[6] \div 128]

gate(e) ==
  [offset |-> e[1] + 256 * e[2] + 65536 * (e[7] + 256 * e[8]),
   selector |-> e[3] + 256 * e[4],
   type |-> e[6] % 32,
   dpl |-> (e[6] \div 32) % 4,
   present |-> e[6] \div 128]

\* A segment of ring 0 that is present and spans all 4 GiB
flat(s) ==
  s.base = 0 /\ s.limit = 1048575 /\ s.in_pages = 1 /\ s.dpl = 0 /\ s.present = 1

\* Code that may be read, data that may be written: bit 4 and the type
readable_code(s) == s.type \in {26, 27}

writable_data(s) == s.type \in {18, 19}

\* A 32-bit interrupt gate of ring 0: the CPU clears IF on the way in
interrupt_gate(g) == g.type = 14 /\ g.dpl = 0 /\ g.present = 1
=============================================================================
