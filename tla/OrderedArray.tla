---------------------------- MODULE OrderedArray ----------------------------
(***************************************************************************)
(* kernel/mem/ordered_array.c: the array of pointers, kept sorted by a     *)
(* less_than predicate, that the kernel heap uses as the index of its      *)
(* holes.  The C struct is {array, size, max_size, less_than}; slots       *)
(* size..max_size-1 hold stale pointers and the word after the array       *)
(* belongs to somebody else.  That word is slot max_size of the model: the *)
(* shifting loops touch it when the array is full.                         *)
(*                                                                         *)
(* The predicate compares a key of the items that does not change while    *)
(* they are stored: this is the array's own promise.  The heap changes the *)
(* sizes of stored holes in place, so its index need not stay sorted;      *)
(* module KHeap has its own insert and unlink, which read the sizes from   *)
(* memory, and assumes no order of the index.                              *)
(***************************************************************************)
EXTENDS Integers

CONSTANTS
  Items,      \* the pointers that may be stored
  Key,        \* Key[x]: what less_than compares, the size of hole x
  NULL,       \* a zeroed slot
  max_size    \* capacity given to create/place_ordered_array

ASSUME OrderedArrayAssumption ==
  /\ max_size \in Nat \ {0}
  /\ Key \in [Items -> Nat]
  /\ NULL \notin Items

VARIABLES
  array,      \* the slots, and the word after them
  size        \* number of slots in use

vars == <<array, size>>

Slots == 0 .. max_size

\* header_t_less_than, the only predicate the kernel installs
less_than(a, b) == Key[a] < Key[b]

\* memset clears the slots; it does not reach the word after them.
place_ordered_array ==
  /\ size = 0
  /\ array \in [Slots -> Items \cup {NULL}]
  /\ \A j \in 0 .. (max_size - 1) : array[j] = NULL

(***************************************************************************)
(* The scan of insert stops at the first stored item that is not less than *)
(* the new one, or at size.                                                *)
(***************************************************************************)
scan_swapped(item, it) ==
  /\ \A j \in 0 .. (it - 1) : less_than(item, array[j])
  /\ it < size => ~ less_than(item, array[it])

scan_stops(item, it) ==
  /\ \A j \in 0 .. (it - 1) : less_than(array[j], item)
  /\ it < size => ~ less_than(array[it], item)

insert_without_tmp2(item) ==
  /\ \E it \in 0 .. size :
       /\ scan_stops(item, it)
       /\ array' = [j \in Slots |->
                      IF j < it \/ j > size THEN array[j]
                      ELSE IF j = it THEN item ELSE array[it]]
  /\ size' = size + 1

(***************************************************************************)
(* Slots it+1..size take their left neighbour's old value.  There is no    *)
(* test that slot size is inside the array.                                *)
(***************************************************************************)
insert_ordered_array(item) ==
  /\ \E it \in 0 .. size :
       /\ scan_stops(item, it)
       /\ array' = [j \in Slots |->
                      IF j < it \/ j > size THEN array[j]
                      ELSE IF j = it THEN item ELSE array[j - 1]]
  /\ size' = size + 1

remove_keeps_size(i) ==
  /\ array' = [j \in Slots |->
                 IF i <= j /\ j < size THEN array[j + 1] ELSE array[j]]
  /\ size' = size

(***************************************************************************)
(* The loop runs to i = size - 1, so it reads slot size: a stale pointer,  *)
(* or the word after the array when it is full.                            *)
(***************************************************************************)
remove_ordered_array(i) ==
  /\ array' = [j \in Slots |->
                 IF i <= j /\ j < size THEN array[j + 1] ELSE array[j]]
  /\ size' = size - 1

Stored == { array[j] : j \in 0 .. (size - 1) }

(***************************************************************************)
(* The callers, kheap.c: a header that becomes a hole is not in the index, *)
(* and an item is removed at an index that a search over 0..size-1 found.  *)
(* Nobody checks for room; here the callers stop at max_size items.        *)
(***************************************************************************)
Init == place_ordered_array

Next ==
  \/ \E item \in Items \ Stored : size < max_size /\ insert_ordered_array(item)
  \/ \E i \in 0 .. (size - 1) : remove_ordered_array(i)

Spec == Init /\ [][Next]_vars

-----------------------------------------------------------------------------
\* The slots in use hold items and the array never outgrows its capacity
\* (the fields of ordered_array_t).
TypeOK ==
  /\ array \in [Slots -> Items \cup {NULL}]
  /\ size \in 0 .. max_size
  /\ \A j \in 0 .. (size - 1) : array[j] \in Items

\* Whatever the order of insertions and removals, and whatever stale
\* pointers the shifting loops move, the slots in use are sorted by
\* less_than: "Our list is always in a 'sorted state'", ordered_array.h:13.
Sorted ==
  \A i, j \in 0 .. (size - 1) : i < j => ~ less_than(array[j], array[i])

\* No pointer is stored twice: the heap would hand out such a hole twice.
NoDuplicates ==
  \A i, j \in 0 .. (size - 1) : i # j => array[i] # array[j]

Abstract == INSTANCE ItemSet WITH contents <- Stored

\* insert_ordered_array loses and invents no pointer and
\* remove_ordered_array takes exactly the one at its index.
ImplementsItemSet == Abstract!Spec
=============================================================================
