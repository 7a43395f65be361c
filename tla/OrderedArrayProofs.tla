------------------------- MODULE OrderedArrayProofs -------------------------
(***************************************************************************)
(* The ordered array is sorted, holds no item twice and implements a set,  *)
(* for every set of items, key function and capacity.                      *)
(***************************************************************************)
EXTENDS OrderedArray, TLAPS

\* The slots in use are sorted and distinct: what one call of insert or
\* remove assumes of the array and leaves behind.
IInv == TypeOK /\ Sorted /\ NoDuplicates

\* place_ordered_array leaves an empty, hence sorted, array.
LEMMA InitEstablishes == Init => IInv
  BY OrderedArrayAssumption
     DEF Init, place_ordered_array, IInv, TypeOK, Sorted, NoDuplicates, Slots

\* insert_ordered_array, given room and a new item, keeps the slots in use
\* sorted and distinct, wherever its scan stops.
LEMMA InsertPreserves ==
  ASSUME IInv, NEW item \in Items \ Stored, size < max_size,
         insert_ordered_array(item)
  PROVE  IInv'
<1> USE OrderedArrayAssumption
<1>1. PICK it \in 0 .. size :
        /\ scan_stops(item, it)
        /\ array' = [j \in Slots |->
                       IF j < it \/ j > size THEN array[j]
                       ELSE IF j = it THEN item ELSE array[j - 1]]
  BY DEF insert_ordered_array
<1>2. /\ size' = size + 1
      /\ size \in 0 .. (max_size - 1)
      /\ array \in [Slots -> Items \cup {NULL}]
      /\ \A j \in 0 .. (size - 1) : array[j] \in Items
  BY DEF insert_ordered_array, IInv, TypeOK
<1>3. /\ \A j \in 0 .. (it - 1) : j \in 0 .. (size - 1) /\ array'[j] = array[j]
      /\ array'[it] = item
      /\ \A j \in (it + 1) .. size :
           j - 1 \in 0 .. (size - 1) /\ array'[j] = array[j - 1]
  BY <1>1, <1>2 DEF Slots
<1>4. TypeOK'
  <2>1. array' \in [Slots -> Items \cup {NULL}]
    <3> SUFFICES ASSUME NEW j \in Slots
                 PROVE  (IF j < it \/ j > size THEN array[j]
                         ELSE IF j = it THEN item ELSE array[j - 1])
                        \in Items \cup {NULL}
      BY <1>1
    <3>1. CASE j < it \/ j > size
      BY <3>1, <1>2
    <3>2. CASE j = it
      BY <3>2, <1>2 DEF Slots
    <3>3. CASE it < j /\ j <= size
      BY <3>3, <1>2 DEF Slots
    <3> QED
      BY <3>1, <3>2, <3>3, <1>2 DEF Slots
  <2>2. ASSUME NEW j \in 0 .. size
        PROVE  array'[j] \in Items
    <3>1. CASE j < it
      BY <3>1, <1>2, <1>3
    <3>2. CASE j = it
      BY <3>2, <1>3
    <3>3. CASE j > it
      BY <3>3, <1>2, <1>3
    <3> QED
      BY <3>1, <3>2, <3>3, <1>2
  <2> QED
    BY <2>1, <2>2, <1>2 DEF TypeOK
<1>5. Sorted'
  <2>1. \A j \in 0 .. (it - 1) : Key[array[j]] < Key[item]
    BY <1>1 DEF scan_stops, less_than
  <2>2. \A j \in it .. (size - 1) : Key[item] <= Key[array[j]]
    <3> SUFFICES ASSUME NEW j \in it .. (size - 1)
                 PROVE  Key[item] <= Key[array[j]]
      OBVIOUS
    <3>1. it \in 0 .. (size - 1) /\ j \in 0 .. (size - 1)
      BY <1>2
    <3>2. Key[item] <= Key[array[it]]
      BY <1>1, <1>2, <3>1 DEF scan_stops, less_than
    <3>3. Key[array[it]] <= Key[array[j]]
      BY <1>2, <3>1 DEF IInv, Sorted, less_than
    <3> QED
      BY <3>1, <3>2, <3>3, <1>2
  <2>3. \A i, j \in 0 .. (size - 1) : i < j => Key[array[i]] <= Key[array[j]]
    BY <1>2 DEF IInv, Sorted, less_than
  <2>4. ASSUME NEW i \in 0 .. size, NEW j \in 0 .. size, i < j
        PROVE  Key[array'[i]] <= Key[array'[j]]
    <3>1. CASE j < it
      BY <3>1, <2>3, <2>4, <1>2, <1>3
    <3>2. CASE j = it
      BY <3>2, <2>1, <2>4, <1>2, <1>3
    <3>3. CASE j > it /\ i < it
      <4>1. array'[i] = array[i] /\ array'[j] = array[j - 1] /\ i <= j - 1
        BY <3>3, <1>2, <1>3
      <4>2. CASE i = j - 1
        BY <4>1, <4>2, <3>3, <1>2
      <4>3. CASE i < j - 1
        BY <4>1, <4>3, <3>3, <1>2, <2>3
      <4> QED
        BY <4>1, <4>2, <4>3, <1>2
    <3>4. CASE j > it /\ i = it
      BY <3>4, <2>2, <1>2, <1>3
    <3>5. CASE j > it /\ i > it
      BY <3>5, <2>3, <2>4, <1>2, <1>3
    <3> QED
      BY <3>1, <3>2, <3>3, <3>4, <3>5, <1>2
  <2> QED
    <3>1. ASSUME NEW i \in 0 .. (size' - 1), NEW j \in 0 .. (size' - 1), i < j
          PROVE  ~ (Key[array'[j]] < Key[array'[i]])
      <4>1. array'[i] \in Items /\ array'[j] \in Items
        BY <1>4 DEF TypeOK
      <4> QED
        BY <4>1, <3>1, <2>4, <1>2
    <3> QED
      BY <3>1 DEF Sorted, less_than
<1>6. NoDuplicates'
  <2>1. \A j \in 0 .. (size - 1) : array[j] # item
    BY DEF Stored
  <2>2. \A i, j \in 0 .. (size - 1) : i # j => array[i] # array[j]
    BY DEF IInv, NoDuplicates
  <2>3. ASSUME NEW i \in 0 .. size, NEW j \in 0 .. size, i < j
        PROVE  array'[i] # array'[j]
    <3>1. CASE j < it
      BY <3>1, <2>2, <2>3, <1>2, <1>3
    <3>2. CASE j = it
      BY <3>2, <2>1, <2>3, <1>2, <1>3
    <3>3. CASE j > it /\ i < it
      BY <3>3, <2>2, <2>3, <1>2, <1>3
    <3>4. CASE j > it /\ i = it
      BY <3>4, <2>1, <1>2, <1>3
    <3>5. CASE j > it /\ i > it
      BY <3>5, <2>2, <2>3, <1>2, <1>3
    <3> QED
      BY <3>1, <3>2, <3>3, <3>4, <3>5, <1>2
  <2> QED
    BY <2>3, <1>2 DEF NoDuplicates
<1> QED
  BY <1>4, <1>5, <1>6 DEF IInv

\* remove_ordered_array keeps the slots in use sorted and distinct: the
\* stale slot or foreign word its loop reads last ends up out of use.
LEMMA RemovePreserves ==
  ASSUME IInv, NEW i \in 0 .. (size - 1), remove_ordered_array(i)
  PROVE  IInv'
<1> USE OrderedArrayAssumption
<1>1. /\ size' = size - 1
      /\ size \in 1 .. max_size
      /\ array \in [Slots -> Items \cup {NULL}]
      /\ \A j \in 0 .. (size - 1) : array[j] \in Items
  BY DEF remove_ordered_array, IInv, TypeOK
<1>2. array' = [j \in Slots |->
                  IF i <= j /\ j < size THEN array[j + 1] ELSE array[j]]
  BY DEF remove_ordered_array
<1>3. /\ \A j \in 0 .. (i - 1) : array'[j] = array[j]
      /\ \A j \in i .. (size - 1) : j + 1 \in Slots /\ array'[j] = array[j + 1]
  BY <1>1, <1>2 DEF Slots
<1>4. TypeOK'
  <2>1. array' \in [Slots -> Items \cup {NULL}]
    BY <1>1, <1>2, <1>3 DEF Slots
  <2>2. ASSUME NEW j \in 0 .. (size - 2)
        PROVE  array'[j] \in Items
    <3>1. CASE j < i
      BY <3>1, <1>1, <1>3
    <3>2. CASE j >= i
      BY <3>2, <1>1, <1>3
    <3> QED
      BY <3>1, <3>2
  <2> QED
    BY <2>1, <2>2, <1>1 DEF TypeOK
<1>5. ASSUME NEW j \in 0 .. (size - 2), NEW k \in 0 .. (size - 2), j < k
      PROVE  \E m, n \in 0 .. (size - 1) :
               m < n /\ array'[j] = array[m] /\ array'[k] = array[n]
  <2>1. CASE k < i
    BY <2>1, <1>1, <1>3, <1>5
  <2>2. CASE k >= i /\ j < i
    BY <2>2, <1>1, <1>3, <1>5
  <2>3. CASE j >= i
    BY <2>3, <1>1, <1>3, <1>5
  <2> QED
    BY <2>1, <2>2, <2>3
<1>6. Sorted'
  <2>1. ASSUME NEW j \in 0 .. (size - 2), NEW k \in 0 .. (size - 2), j < k
        PROVE  ~ (Key[array'[k]] < Key[array'[j]])
    BY <1>5, <2>1 DEF IInv, Sorted, less_than
  <2> QED
    BY <2>1, <1>1 DEF Sorted, less_than
<1>7. NoDuplicates'
  <2>1. ASSUME NEW j \in 0 .. (size - 2), NEW k \in 0 .. (size - 2), j < k
        PROVE  array'[j] # array'[k]
    <3>1. PICK m, n \in 0 .. (size - 1) :
            m < n /\ array'[j] = array[m] /\ array'[k] = array[n]
      BY <1>5, <2>1
    <3> QED
      BY <3>1 DEF IInv, NoDuplicates
  <2> QED
    BY <2>1, <1>1 DEF NoDuplicates
<1> QED
  BY <1>4, <1>6, <1>7 DEF IInv

\* Every step of a client preserves IInv.
LEMMA StepPreserves == IInv /\ [Next]_vars => IInv'
<1> SUFFICES ASSUME IInv, [Next]_vars PROVE IInv'
  OBVIOUS
<1>1. ASSUME NEW item \in Items \ Stored, size < max_size,
             insert_ordered_array(item)
      PROVE  IInv'
  BY <1>1, InsertPreserves
<1>2. ASSUME NEW i \in 0 .. (size - 1), remove_ordered_array(i)
      PROVE  IInv'
  BY <1>2, RemovePreserves
<1>3. CASE UNCHANGED vars
  BY <1>3 DEF IInv, TypeOK, Sorted, NoDuplicates, less_than, Slots, vars
<1> QED
  BY <1>1, <1>2, <1>3 DEF Next

\* IInv holds in every reachable state.
LEMMA Invariance == Spec => []IInv
  BY InitEstablishes, StepPreserves, PTL DEF Spec

\* The fields of ordered_array_t keep their types and the slots in use hold
\* items, for every capacity.
THEOREM TypeCorrect == Spec => []TypeOK
  BY Invariance, PTL DEF IInv

\* ordered_array.h:13, "Our list is always in a 'sorted state'", as long as
\* the keys of the stored items do not change.
THEOREM AlwaysSorted == Spec => []Sorted
  BY Invariance, PTL DEF IInv

\* No sequence of calls makes the array hold an item twice.
THEOREM NeverDuplicates == Spec => []NoDuplicates
  BY Invariance, PTL DEF IInv

\* One call of insert_ordered_array adds exactly its argument to the items
\* stored.
LEMMA InsertAdds ==
  ASSUME IInv, NEW item \in Items \ Stored, size < max_size,
         insert_ordered_array(item)
  PROVE  Stored' = Stored \cup {item}
<1> USE OrderedArrayAssumption
<1>1. PICK it \in 0 .. size :
        array' = [j \in Slots |->
                    IF j < it \/ j > size THEN array[j]
                    ELSE IF j = it THEN item ELSE array[j - 1]]
  BY DEF insert_ordered_array
<1>2. size' = size + 1 /\ size \in 0 .. (max_size - 1)
  BY DEF insert_ordered_array, IInv, TypeOK
<1>3. /\ \A j \in 0 .. (it - 1) : array'[j] = array[j]
      /\ array'[it] = item
      /\ \A j \in it .. (size - 1) : array'[j + 1] = array[j]
  BY <1>1, <1>2 DEF Slots
<1>4. \A j \in 0 .. size : array'[j] \in Stored \cup {item}
  <2> SUFFICES ASSUME NEW j \in 0 .. size PROVE array'[j] \in Stored \cup {item}
    OBVIOUS
  <2>1. CASE j < it
    BY <2>1, <1>2, <1>3 DEF Stored
  <2>2. CASE j = it
    BY <2>2, <1>3
  <2>3. CASE j > it
    <3>1. j - 1 \in it .. (size - 1) /\ (j - 1) + 1 = j
      BY <2>3, <1>2
    <3> QED
      BY <3>1, <1>2, <1>3 DEF Stored
  <2> QED
    BY <2>1, <2>2, <2>3, <1>2
<1>5. \A j \in 0 .. (size - 1) : \E k \in 0 .. size : array'[k] = array[j]
  BY <1>2, <1>3
<1>6. Stored' = { array'[j] : j \in 0 .. size }
  BY <1>2 DEF Stored
<1> QED
  BY <1>2, <1>3, <1>4, <1>5, <1>6 DEF Stored

\* One call of remove_ordered_array(i) takes exactly the item at index i.
LEMMA RemoveTakes ==
  ASSUME IInv, NEW i \in 0 .. (size - 1), remove_ordered_array(i)
  PROVE  array[i] \in Items \cap Stored /\ Stored' = Stored \ {array[i]}
<1> USE OrderedArrayAssumption
<1>1. size' = size - 1 /\ size \in 1 .. max_size
  BY DEF remove_ordered_array, IInv, TypeOK
<1>2. /\ \A j \in 0 .. (i - 1) : array'[j] = array[j]
      /\ \A j \in i .. (size - 2) : array'[j] = array[j + 1]
  BY <1>1 DEF remove_ordered_array, Slots
<1>3. \A j \in 0 .. (size - 1) : j # i => array[j] # array[i]
  BY DEF IInv, NoDuplicates
<1>4. ASSUME NEW j \in 0 .. (size - 2)
      PROVE  \E k \in 0 .. (size - 1) : k # i /\ array'[j] = array[k]
  <2>1. CASE j < i
    BY <2>1, <1>1, <1>2
  <2>2. CASE j >= i
    BY <2>2, <1>1, <1>2
  <2> QED
    BY <2>1, <2>2
<1>5. ASSUME NEW k \in 0 .. (size - 1), k # i
      PROVE  \E j \in 0 .. (size - 2) : array'[j] = array[k]
  <2>1. CASE k < i
    BY <2>1, <1>1, <1>2
  <2>2. CASE k > i
    <3>1. k - 1 \in i .. (size - 2) /\ (k - 1) + 1 = k
      BY <2>2, <1>1
    <3> QED
      BY <3>1, <1>1, <1>2
  <2> QED
    BY <2>1, <2>2, <1>5, <1>1
<1>6. Stored' = { array'[j] : j \in 0 .. (size - 2) }
  BY <1>1 DEF Stored
<1>7. array[i] \in Items \cap Stored
  BY DEF Stored, IInv, TypeOK
<1>8. Stored' \subseteq Stored \ {array[i]}
  BY <1>3, <1>4, <1>6 DEF Stored
<1>9. Stored \ {array[i]} \subseteq Stored'
  BY <1>5, <1>6 DEF Stored
<1> QED
  BY <1>7, <1>8, <1>9

\* The ordered array implements the abstract set: insert adds its argument,
\* remove takes the item at its index, and nothing else changes the
\* contents.
THEOREM Refinement == Spec => ImplementsItemSet
<1>1. Init => Abstract!Init
  BY OrderedArrayAssumption DEF Init, place_ordered_array, Abstract!Init, Stored
<1>2. IInv /\ [Next]_vars => [Abstract!Next]_Stored
  <2> SUFFICES ASSUME IInv, [Next]_vars PROVE [Abstract!Next]_Stored
    OBVIOUS
  <2>1. ASSUME NEW item \in Items \ Stored, size < max_size,
               insert_ordered_array(item)
        PROVE  Abstract!Next
    BY <2>1, InsertAdds DEF Abstract!Next, Abstract!Add
  <2>2. ASSUME NEW i \in 0 .. (size - 1), remove_ordered_array(i)
        PROVE  Abstract!Next
    BY <2>2, RemoveTakes DEF Abstract!Next, Abstract!Take
  <2>3. CASE UNCHANGED vars
    BY <2>3 DEF vars, Stored
  <2> QED
    BY <2>1, <2>2, <2>3 DEF Next
<1> QED
  BY <1>1, <1>2, Invariance, PTL DEF Spec, ImplementsItemSet, Abstract!Spec
=============================================================================
