------------------------------ MODULE MCKHeap -------------------------------
(***************************************************************************)
(* Small heaps.  The pages are 8 or 12 words, so that a header and a       *)
(* footer fit on one with a little room, and the heap starts behind a page *)
(* that belongs to the index.  Requests are chosen to split a hole, to use *)
(* it whole and to make the heap grow; with TABLE = 4 growing crosses into *)
(* a page table that does not exist yet.  W is far above every address, so *)
(* that only the wrap-arounds of the code itself happen.                   *)
(***************************************************************************)
EXTENDS KHeap
=============================================================================
