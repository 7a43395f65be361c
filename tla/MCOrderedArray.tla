--------------------------- MODULE MCOrderedArray ---------------------------
(***************************************************************************)
(* Five holes, two pairs of them of equal size, in an array of four slots: *)
(* ties, a full array and re-insertion after removal all happen.           *)
(***************************************************************************)
EXTENDS OrderedArray

MCItems == 1 .. 5

MCKey == [x \in MCItems |-> x \div 2]
=============================================================================
