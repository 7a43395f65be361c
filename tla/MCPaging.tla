------------------------------ MODULE MCPaging ------------------------------
(***************************************************************************)
(* A machine with frames of 4 bytes and page tables of 8 pages.  The       *)
(* identity map needs tables beyond the first, and the heap starts two     *)
(* pages before the end of a table's range, so that growing it needs a new *)
(* table.  The bitmap really holds a quarter of the frames.                *)
(***************************************************************************)
EXTENDS Paging

\* Images that end before, at and behind page boundaries
MCkernel_ends == 1 .. 13
=============================================================================
