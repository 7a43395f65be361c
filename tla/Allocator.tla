----------------------------- MODULE Allocator ------------------------------
(***************************************************************************)
(* What kmalloc and kfree promise a client: a block that was handed out    *)
(* stays where it is and keeps its length until it is freed, shares no     *)
(* word with another block, and lies in the heap's address range.          *)
(***************************************************************************)
EXTENDS Integers

CONSTANTS
  Arena,    \* the word addresses that the heap may use
  Lengths   \* the lengths that a block may have

VARIABLE
  blocks    \* blocks[p]: number of words of the block at address p

Words(p, n) == p .. (p + n - 1)

Init == blocks = [p \in {} |-> 0]

\* A new block, of any length, away from all others
Alloc(p, n) ==
  /\ p \notin DOMAIN blocks
  /\ Words(p, n) \subseteq Arena
  /\ \A q \in DOMAIN blocks : Words(q, blocks[q]) \cap Words(p, n) = {}
  /\ blocks' = [q \in DOMAIN blocks \cup {p} |-> IF q = p THEN n ELSE blocks[q]]

Free(p) ==
  /\ p \in DOMAIN blocks
  /\ blocks' = [q \in DOMAIN blocks \ {p} |-> blocks[q]]

Next ==
  \/ \E p \in Arena : \E n \in Lengths : Alloc(p, n)
  \/ \E p \in Arena : Free(p)

Spec == Init /\ [][Next]_blocks
=============================================================================
