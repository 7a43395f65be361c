---------------------------- MODULE MCInterrupts ----------------------------
(***************************************************************************)
(* The timer, the keyboard and one line of the slave.  The boot loader     *)
(* leaves everything open, or bit 1 set: pic_remap turns the slave's mask  *)
(* into its ICW4, where bit 1 means automatic EOI.                         *)
(***************************************************************************)
EXTENDS Interrupts

MCLines == {0, 1, 8}

MCmasks == {0, 2}

\* Behind the first MiB, across a multiple of 64 KiB
MCstub == [n \in 0 .. 47 |-> 1048576 + 65000 + 16 * n]
=============================================================================
