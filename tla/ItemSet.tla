------------------------------ MODULE ItemSet ------------------------------
(***************************************************************************)
(* What an ordered array promises its callers about its contents: it is a  *)
(* finite set of items to which an item is added, and from which exactly   *)
(* one item is taken, by each call that changes it.                        *)
(***************************************************************************)
CONSTANT Items      \* everything that may be stored (heap headers)

VARIABLE contents   \* the items stored now

Init == contents = {}

Add(x) ==
  /\ x \notin contents
  /\ contents' = contents \cup {x}

Take(x) ==
  /\ x \in contents
  /\ contents' = contents \ {x}

Next == \E x \in Items : Add(x) \/ Take(x)

Spec == Init /\ [][Next]_contents
=============================================================================
