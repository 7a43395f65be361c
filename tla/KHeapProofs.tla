----------------------------- MODULE KHeapProofs -----------------------------
(***************************************************************************)
(* The heap works for the clients of SpecD, whatever the sizes of heap,    *)
(* pages and requests: regions tile the heap, footers lead to neighbours,  *)
(* clients' data is not touched, nothing panics, and kmalloc and kfree     *)
(* implement module Allocator.                                             *)
(***************************************************************************)
EXTENDS KHeap, FiniteSetTheorems, SequenceTheorems, WellFoundedInduction, TLAPS

\* r is the header of a hole or block of n words.  A block's footer leads back
\* to it; a hole's does, or is none, or ends the heap.
Sound(m, r, hole, n, e) ==
  /\ magic(m, r) /\ is_hole(m, r) = hole /\ size_of(m, r) = n
  /\ hole = 0 => magic(m, r + n - Footer) /\ header_of(m, r + n - Footer) = r
  /\ magic(m, r + n - Footer) /\ r + n # e => header_of(m, r + n - Footer) = r

\* Regions of the sizes s lie side by side from start_address to e.
Tiles(R, s, e) ==
  /\ s \in [R -> Nat] /\ e \in Nat
  /\ start_address \in R
  /\ \A r \in R :
       /\ r \in Nat /\ start_address <= r /\ s[r] >= Overhead
       /\ r + s[r] <= e /\ r + s[r] \in R \cup {e}
       /\ \A q \in R : r < q => r + s[r] <= q

-----------------------------------------------------------------------------
(***************************************************************************)
(* Tilings                                                                 *)
(***************************************************************************)

\* The sizes after region h was split at distance a
split(R, s, h, a) ==
  [r \in R \cup {h + a} |->
     IF r = h THEN a ELSE IF r = h + a THEN s[h] - a ELSE s[r]]

LEMMA Split ==
  ASSUME NEW R, NEW s, NEW e, Tiles(R, s, e), NEW h \in R,
         NEW a \in Nat, a >= Overhead, s[h] - a >= Overhead
  PROVE  h + a \notin R /\ Tiles(R \cup {h + a}, split(R, s, h, a), e)
<1> DEFINE p == h + a
           Q == R \cup {p}
           t == split(R, s, h, a)
<1>1. /\ s \in [R -> Nat] /\ e \in Nat /\ start_address \in R
      /\ \A r \in R : /\ r \in Nat /\ start_address <= r /\ s[r] >= 5
                      /\ r + s[r] <= e /\ r + s[r] \in R \cup {e} /\ s[r] \in Nat
      /\ \A r, q \in R : r < q => r + s[r] <= q
  BY DEF Tiles, Overhead, Header, Footer
<1>2. h \in Nat /\ s[h] \in Nat /\ a >= 5 /\ s[h] - a >= 5 /\ s[h] - a \in Nat
      /\ start_address \in Nat /\ h + s[h] <= e
  BY <1>1 DEF Overhead, Header, Footer
<1>3. p \notin R
  BY <1>1, <1>2
<1>4. t = [r \in Q |-> IF r = h THEN a ELSE IF r = p THEN s[h] - a ELSE s[r]]
  BY DEF split
<1>5. t[h] = a /\ t[p] = s[h] - a /\ \A r \in R : r # h => t[r] = s[r]
  BY <1>2, <1>3, <1>4
<1>6. t \in [Q -> Nat]
  BY <1>1, <1>2, <1>4
<1> HIDE DEF t
<1>7. p \in Nat /\ p + t[p] = h + s[h] /\ h + t[h] = p /\ p > h
  BY <1>2, <1>5
<1> HIDE DEF p
<1>8. \A r \in Q : /\ r \in Nat /\ start_address <= r /\ t[r] >= 5
                   /\ r + t[r] <= e /\ r + t[r] \in Q \cup {e}
  <2> SUFFICES ASSUME NEW r \in Q
               PROVE  /\ r \in Nat /\ start_address <= r /\ t[r] >= 5
                      /\ r + t[r] <= e /\ r + t[r] \in Q \cup {e}
    OBVIOUS
  <2>1. CASE r = h
    BY <1>1, <1>2, <1>5, <1>7, <2>1
  <2>2. CASE r = p
    BY <1>1, <1>2, <1>5, <1>7, <2>2
  <2>3. CASE r # h /\ r \in R
    BY <1>1, <1>5, <2>3
  <2> QED
    BY <2>1, <2>2, <2>3
<1>9. \A r, q \in Q : r < q => r + t[r] <= q
  <2> SUFFICES ASSUME NEW r \in Q, NEW q \in Q, r < q PROVE r + t[r] <= q
    OBVIOUS
  <2>1. CASE r \in R /\ q \in R
    <3>1. r + s[r] <= q
      BY <1>1, <2>1
    <3> QED
      BY <1>1, <1>2, <1>5, <2>1, <3>1
  <2>2. CASE r \in R /\ q = p
    <3>1. CASE r = h
      BY <1>7, <2>2, <3>1
    <3>2. CASE r # h
      <4>1. r < h \/ h < r
        BY <1>1, <1>2, <2>2, <3>2
      <4>2. ~ (h < r)
        BY <1>1, <1>2, <1>5, <1>7, <2>2
      <4> QED
        BY <1>1, <1>2, <1>5, <1>7, <2>2, <3>2, <4>1, <4>2
    <3> QED
      BY <3>1, <3>2
  <2>3. CASE r = p /\ q \in R
    <3>1. h + s[h] <= q
      BY <1>1, <1>2, <1>7, <2>3
    <3> QED
      BY <1>7, <2>3, <3>1
  <2>4. CASE r = p /\ q = p
    BY <1>7, <2>4
  <2> QED
    BY <2>1, <2>2, <2>3, <2>4
<1>10. Tiles(Q, t, e)
  BY <1>1, <1>6, <1>8, <1>9 DEF Tiles, Overhead, Header, Footer
<1> QED
  BY <1>3, <1>10 DEF p, t

\* The sizes after region l swallowed its right neighbour r
join(R, s, l, r) == [q \in R \ {r} |-> IF q = l THEN s[l] + s[r] ELSE s[q]]

LEMMA Join ==
  ASSUME NEW R, NEW s, NEW e, Tiles(R, s, e), NEW l \in R, NEW r \in R, r = l + s[l]
  PROVE  Tiles(R \ {r}, join(R, s, l, r), e)
<1> DEFINE Q == R \ {r}
           t == join(R, s, l, r)
<1>1. /\ s \in [R -> Nat] /\ e \in Nat /\ start_address \in R
      /\ \A x \in R : /\ x \in Nat /\ start_address <= x /\ s[x] >= 5
                      /\ x + s[x] <= e /\ x + s[x] \in R \cup {e} /\ s[x] \in Nat
      /\ \A x, y \in R : x < y => x + s[x] <= y
  BY DEF Tiles, Overhead, Header, Footer
<1>2. /\ l \in Nat /\ s[l] \in Nat /\ s[l] >= 5 /\ r \in Nat /\ s[r] \in Nat /\ s[r] >= 5
      /\ start_address <= l /\ l < r
  BY <1>1
<1>3. t = [q \in Q |-> IF q = l THEN s[l] + s[r] ELSE s[q]]
  BY DEF join
<1>4. l \in Q /\ t[l] = s[l] + s[r] /\ \A q \in Q : q # l => t[q] = s[q]
  BY <1>2, <1>3
<1>5. t \in [Q -> Nat]
  <2>1. s[l] + s[r] \in Nat /\ \A q \in Q : s[q] \in Nat
    BY <1>1, <1>2
  <2> QED
    BY <1>3, <2>1
<1> HIDE DEF t
<1>6. start_address \in Q
  BY <1>1, <1>2
<1>7. l + t[l] = r + s[r]
  BY <1>2, <1>4
<1>8. \A x \in Q : x # l => x + t[x] # r
  <2> SUFFICES ASSUME NEW x \in Q, x # l, x + s[x] = r PROVE FALSE
    BY <1>4
  <2>1. x \in Nat /\ s[x] \in Nat /\ s[x] >= 5 /\ (x < l \/ l < x)
    BY <1>1, <1>2
  <2>2. CASE x < l
    BY <1>1, <1>2, <2>1, <2>2
  <2>3. CASE l < x
    BY <1>1, <1>2, <2>1, <2>3
  <2> QED
    BY <2>1, <2>2, <2>3
<1>9. \A x \in Q : /\ x \in Nat /\ start_address <= x /\ t[x] >= 5
                   /\ x + t[x] <= e /\ x + t[x] \in Q \cup {e}
  <2> SUFFICES ASSUME NEW x \in Q
               PROVE  /\ x \in Nat /\ start_address <= x /\ t[x] >= 5
                      /\ x + t[x] <= e /\ x + t[x] \in Q \cup {e}
    OBVIOUS
  <2>1. CASE x = l
    <3>1. r + s[r] \in R \cup {e} /\ r + s[r] # r /\ r + s[r] <= e
      BY <1>1, <1>2
    <3> QED
      BY <1>1, <1>2, <1>4, <1>7, <2>1, <3>1
  <2>2. CASE x # l
    <3>1. x + t[x] \in R \cup {e} /\ x + t[x] # r
      BY <1>1, <1>4, <1>8, <2>2
    <3> QED
      BY <1>1, <1>4, <2>2, <3>1
  <2> QED
    BY <2>1, <2>2
<1>10. \A x, y \in Q : x < y => x + t[x] <= y
  <2> SUFFICES ASSUME NEW x \in Q, NEW y \in Q, x < y PROVE x + t[x] <= y
    OBVIOUS
  <2>1. x + s[x] <= y
    BY <1>1
  <2>2. CASE x = l
    <3>1. r <= y /\ y # r /\ y \in Nat
      BY <1>1, <2>1, <2>2
    <3>2. r + s[r] <= y
      BY <1>1, <1>2, <3>1
    <3> QED
      BY <1>7, <2>2, <3>2
  <2>3. CASE x # l
    BY <1>4, <2>1, <2>3
  <2> QED
    BY <2>2, <2>3
<1>11. Tiles(Q, t, e)
  BY <1>1, <1>5, <1>6, <1>9, <1>10 DEF Tiles, Overhead, Header, Footer
<1> QED
  BY <1>11 DEF t

\* The last region grows with the heap.
LEMMA Stretch ==
  ASSUME NEW R, NEW s, NEW e, Tiles(R, s, e), NEW h \in R, h + s[h] = e, NEW g \in Nat
  PROVE  Tiles(R, [r \in R |-> IF r = h THEN s[h] + g ELSE s[r]], e + g)
<1> DEFINE t == [r \in R |-> IF r = h THEN s[h] + g ELSE s[r]]
<1>1. /\ s \in [R -> Nat] /\ e \in Nat /\ start_address \in R
      /\ \A x \in R : /\ x \in Nat /\ start_address <= x /\ s[x] >= 5
                      /\ x + s[x] <= e /\ x + s[x] \in R \cup {e} /\ s[x] \in Nat
      /\ \A x, y \in R : x < y => x + s[x] <= y
  BY DEF Tiles, Overhead, Header, Footer
<1>2. t[h] = s[h] + g /\ \A r \in R : r # h => t[r] = s[r]
  OBVIOUS
<1>3. t \in [R -> Nat]
  BY <1>1
<1> HIDE DEF t
<1>4. \A x \in R : x # h => x + s[x] \in R
  <2> SUFFICES ASSUME NEW x \in R, x # h, x + s[x] = e PROVE FALSE
    BY <1>1
  <2>1. x < h \/ h < x
    BY <1>1
  <2> QED
    BY <1>1, <2>1
<1>5. \A x \in R : /\ x \in Nat /\ start_address <= x /\ t[x] >= 5
                   /\ x + t[x] <= e + g /\ x + t[x] \in R \cup {e + g}
  <2> SUFFICES ASSUME NEW x \in R
               PROVE  /\ x \in Nat /\ start_address <= x /\ t[x] >= 5
                      /\ x + t[x] <= e + g /\ x + t[x] \in R \cup {e + g}
    OBVIOUS
  <2>1. CASE x = h
    BY <1>1, <1>2, <2>1
  <2>2. CASE x # h
    BY <1>1, <1>2, <1>4, <2>2
  <2> QED
    BY <2>1, <2>2
<1>6. \A x, y \in R : x < y => x + t[x] <= y
  <2> SUFFICES ASSUME NEW x \in R, NEW y \in R, x < y PROVE x + t[x] <= y
    OBVIOUS
  <2>1. x + s[x] <= y
    BY <1>1
  <2>2. x # h
    BY <1>1, <2>1
  <2> QED
    BY <1>2, <2>1, <2>2
<1> HIDE DEF t
<1>7. Tiles(R, t, e + g)
  BY <1>1, <1>3, <1>5, <1>6 DEF Tiles, Overhead, Header, Footer
<1> QED
  BY <1>7 DEF t

\* A region is added at the end.
LEMMA Extend ==
  ASSUME NEW R, NEW s, NEW e, Tiles(R, s, e), NEW g \in Nat, g >= Overhead
  PROVE  e \notin R /\ Tiles(R \cup {e}, [r \in R \cup {e} |-> IF r = e THEN g ELSE s[r]],
                             e + g)
<1> DEFINE Q == R \cup {e}
           t == [r \in Q |-> IF r = e THEN g ELSE s[r]]
<1>1. /\ s \in [R -> Nat] /\ e \in Nat /\ start_address \in R
      /\ \A x \in R : /\ x \in Nat /\ start_address <= x /\ s[x] >= 5
                      /\ x + s[x] <= e /\ x + s[x] \in R \cup {e} /\ s[x] \in Nat
      /\ \A x, y \in R : x < y => x + s[x] <= y
  BY DEF Tiles, Overhead, Header, Footer
<1>2. g >= 5
  BY DEF Overhead, Header, Footer
<1>3. e \notin R
  BY <1>1
<1>4. t[e] = g /\ \A r \in R : t[r] = s[r]
  BY <1>3
<1>5. t \in [Q -> Nat]
  BY <1>1
<1> HIDE DEF t
<1>6. start_address \in Nat /\ start_address <= e
  BY <1>1
<1>7. \A x \in Q : /\ x \in Nat /\ start_address <= x /\ t[x] >= 5
                   /\ x + t[x] <= e + g /\ x + t[x] \in Q \cup {e + g}
  <2> SUFFICES ASSUME NEW x \in Q
               PROVE  /\ x \in Nat /\ start_address <= x /\ t[x] >= 5
                      /\ x + t[x] <= e + g /\ x + t[x] \in Q \cup {e + g}
    OBVIOUS
  <2>1. CASE x = e
    BY <1>1, <1>2, <1>4, <1>6, <2>1
  <2>2. CASE x \in R
    BY <1>1, <1>4, <2>2
  <2> QED
    BY <2>1, <2>2
<1>8. \A x, y \in Q : x < y => x + t[x] <= y
  <2> SUFFICES ASSUME NEW x \in Q, NEW y \in Q, x < y PROVE x + t[x] <= y
    OBVIOUS
  <2>1. CASE x \in R
    BY <1>1, <1>4, <2>1
  <2>2. CASE x = e
    <3>1. y \in R
      BY <1>1, <2>2
    <3> QED
      BY <1>1, <2>2, <3>1
  <2> QED
    BY <2>1, <2>2
<1>9. Tiles(Q, t, e + g)
  BY <1>1, <1>5, <1>7, <1>8 DEF Tiles, Overhead, Header, Footer
<1> QED
  BY <1>3, <1>9 DEF t

-----------------------------------------------------------------------------
(***************************************************************************)
(* Least and greatest numbers                                              *)
(***************************************************************************)
LEMMA NatMin ==
  ASSUME NEW T, T \subseteq Nat, T # {}
  PROVE  \E x \in T : \A y \in T : x <= y
<1> DEFINE R == OpToRel(<, Nat)
<1>1. IsWellFoundedOn(R, Nat)
  BY NatLessThanWellFounded
<1>2. \A i, j \in Nat : j < i => <<j, i>> \in R
  BY DEF OpToRel
<1> HIDE DEF R
<1>3. PICK x \in T : \A y \in T : ~ (<<y, x>> \in R)
  BY <1>1, WFMin
<1>4. ASSUME NEW y \in T PROVE x <= y
  <2>1. x \in Nat /\ y \in Nat
    OBVIOUS
  <2>2. ~ (y < x)
    BY <1>2, <1>3, <2>1
  <2> QED
    BY <2>1, <2>2
<1> QED
  BY <1>4

LEMMA NatMax ==
  ASSUME NEW T, T \subseteq Nat, T # {}, NEW b \in Nat, \A x \in T : x <= b
  PROVE  \E x \in T : \A y \in T : y <= x
<1> DEFINE D == { b - x : x \in T }
<1>1. D \subseteq Nat /\ D # {}
  <2>1. \A x \in T : b - x \in Nat
    OBVIOUS
  <2>2. PICK x \in T : TRUE
    OBVIOUS
  <2>3. b - x \in D
    OBVIOUS
  <2> QED
    BY <2>1, <2>3
<1> HIDE DEF D
<1>2. PICK d \in D : \A y \in D : d <= y
  BY <1>1, NatMin
<1>3. PICK x \in T : d = b - x
  BY DEF D
<1>4. ASSUME NEW y \in T PROVE y <= x
  <2>1. b - y \in D
    BY DEF D
  <2>2. b - x <= b - y
    BY <1>2, <1>3, <2>1
  <2>3. x \in Nat /\ y \in Nat
    OBVIOUS
  <2> QED
    BY <2>2, <2>3
<1> QED
  BY <1>4

\* Every region but the first has a left neighbour.
LEMMA Predecessor ==
  ASSUME NEW R, NEW s, NEW e, Tiles(R, s, e), NEW h \in R, h # start_address
  PROVE  \E l \in R : l # h /\ l + s[l] = h
<1>1. /\ s \in [R -> Nat] /\ e \in Nat /\ start_address \in R
      /\ \A x \in R : /\ x \in Nat /\ start_address <= x /\ s[x] >= 5
                      /\ x + s[x] <= e /\ x + s[x] \in R \cup {e} /\ s[x] \in Nat
      /\ \A x, y \in R : x < y => x + s[x] <= y
  BY DEF Tiles, Overhead, Header, Footer
<1> DEFINE T == { x \in R : x < h }
<1>2. T \subseteq Nat /\ T # {} /\ h \in Nat /\ \A x \in T : x <= h
  BY <1>1
<1>3. PICK l \in T : \A y \in T : y <= l
  BY <1>2, NatMax
<1>4. l \in R /\ l < h /\ l + s[l] <= h /\ l + s[l] \in R \cup {e} /\ l \in Nat
      /\ s[l] \in Nat /\ s[l] >= 5
  BY <1>1
<1>5. h < e
  BY <1>1
<1>6. l + s[l] \in R
  BY <1>1, <1>4, <1>5
<1>7. ~ (l + s[l] < h)
  BY <1>3, <1>4, <1>6
<1> QED
  BY <1>1, <1>4, <1>7

-----------------------------------------------------------------------------
(***************************************************************************)
(* Words                                                                   *)
(***************************************************************************)
LEMMA Numbers ==
  /\ PAGE \in Nat /\ PAGE >= 5 /\ TABLE \in Nat /\ TABLE > 0 /\ W \in Nat
  /\ start_address \in Nat /\ initial_end \in Nat /\ max_address \in Nat
  /\ PAGE <= start_address /\ start_address < initial_end
  /\ initial_end <= max_address /\ max_address + 2 * PAGE < W
  /\ start_address % PAGE = 0 /\ initial_end % PAGE = 0
  /\ StackDepth \in Nat /\ StackDepth >= 2
  /\ \A n \in Sizes \cup AlignedSizes : n \in Nat /\ max_address + n + 5 + PAGE < W
  /\ Header = 3 /\ Footer = 2 /\ Overhead = 5 /\ HEAP_MAGIC = -1
BY KHeapAssumption DEF Header, Footer, Overhead, HEAP_MAGIC

LEMMA Mod == \A a \in Nat : a < W => a % W = a
BY Numbers

LEMMA WordIs ==
  ASSUME NEW m, NEW a \in Nat, a < W
  PROVE  word(m, a) = IF a \in DOMAIN m THEN m[a] ELSE 0
BY Mod DEF word

LEMMA WordOver ==
  ASSUME NEW new, NEW m, NEW a \in Nat, a < W
  PROVE  word(over(new, m), a) = IF a \in DOMAIN new THEN new[a] ELSE word(m, a)
<1>1. DOMAIN over(new, m) = DOMAIN new \cup DOMAIN m
  BY DEF over
<1>2. ASSUME a \in DOMAIN new \cup DOMAIN m
      PROVE  over(new, m)[a] = IF a \in DOMAIN new THEN new[a] ELSE m[a]
  BY <1>2 DEF over
<1> QED
  BY <1>1, <1>2, WordIs

LEMMA SetWord ==
  ASSUME NEW a \in Nat, a < W, NEW v
  PROVE  DOMAIN set_word(a, v) = {a} /\ set_word(a, v)[a] = v
BY Mod DEF set_word

LEMMA PutFooter ==
  ASSUME NEW f \in Nat, f + 1 < W, NEW h
  PROVE  /\ DOMAIN put_footer(f, h) = {f, f + 1}
         /\ put_footer(f, h)[f] = HEAP_MAGIC /\ put_footer(f, h)[f + 1] = h
<1> DEFINE u == set_word(f, HEAP_MAGIC)
           v == set_word(f + 1, h)
<1>1. f + 1 \in Nat /\ f < W /\ f + 1 # f
  BY Numbers
<1>2. DOMAIN u = {f} /\ u[f] = HEAP_MAGIC /\ DOMAIN v = {f + 1} /\ v[f + 1] = h
  BY <1>1, SetWord
<1> HIDE DEF u, v
<1>3. put_footer(f, h) = over(u, v)
  BY DEF put_footer, u, v
<1> QED
  BY <1>1, <1>2, <1>3 DEF over

LEMMA PutHeader ==
  ASSUME NEW h \in Nat, h + 2 < W, NEW hole, NEW n \in Nat, n < W,
         NEW y, y = put_header(h, hole, n)
  PROVE  y[h] = HEAP_MAGIC /\ y[h + 1] = hole /\ y[h + 2] = n
<1> DEFINE u == set_word(h, HEAP_MAGIC)
           v == set_word(h + 1, hole)
           w == set_word(h + 2, n % W)
<1>1. /\ h + 1 \in Nat /\ h + 2 \in Nat /\ h < W /\ h + 1 < W
      /\ h + 1 # h /\ h + 2 # h /\ h + 2 # h + 1
  BY Numbers
<1>2. n % W = n
  BY Mod
<1>3. /\ DOMAIN u = {h} /\ u[h] = HEAP_MAGIC /\ DOMAIN v = {h + 1} /\ v[h + 1] = hole
      /\ DOMAIN w = {h + 2} /\ w[h + 2] = n
  BY <1>1, <1>2, SetWord
<1> HIDE DEF u, v, w
<1>4. put_header(h, hole, n) = over(u, over(v, w))
  BY DEF put_header, u, v, w
<1>5. /\ DOMAIN over(v, w) = {h + 1, h + 2}
      /\ over(v, w)[h + 1] = hole /\ over(v, w)[h + 2] = n
  BY <1>1, <1>3 DEF over
<1> DEFINE x == over(v, w)
<1> HIDE DEF x
<1>6. DOMAIN x = {h + 1, h + 2} /\ x[h + 1] = hole /\ x[h + 2] = n
  BY <1>5 DEF x
<1>7. put_header(h, hole, n) = over(u, x)
  BY <1>4 DEF x
<1> QED
  BY <1>1, <1>3, <1>6, <1>7 DEF over

LEMMA HeaderDomain ==
  ASSUME NEW h \in Nat, h + 2 < W, NEW hole, NEW n \in Nat, n < W,
         NEW y, y = put_header(h, hole, n)
  PROVE  DOMAIN y = {h, h + 1, h + 2}
<1>1. h % W = h /\ (h + 1) % W = h + 1 /\ (h + 2) % W = h + 2
  <2>1. h < W /\ h + 1 \in Nat /\ h + 1 < W /\ h + 2 \in Nat
    BY Numbers
  <2> QED
    BY <2>1, Mod
<1> QED
  BY <1>1 DEF put_header, over, set_word

\* Two memories hold the same words from lo up to hi.
Same(m, m2, lo, hi) == \A a \in Nat : lo <= a /\ a < hi => word(m2, a) = word(m, a)

\* Two memories differ only between lo and hi.
Within(m, m2, lo, hi) ==
  \A a \in Nat : a < W /\ (a < lo \/ hi <= a) => word(m2, a) = word(m, a)

\* What a header says depends on the region's own words.
LEMMA SoundLocal ==
  ASSUME NEW m, NEW m2, NEW r \in Nat, NEW n \in Nat, n >= 5, NEW hole, NEW e, NEW e2,
         Same(m, m2, r, r + n), Sound(m, r, hole, n, e), r + n = e => hole = 0 \/ e2 = e
  PROVE  Sound(m2, r, hole, n, e2)
<1> DEFINE f == r + n - Footer
<1>1. f \in Nat /\ f = r + n - 2
  BY Numbers
<1>2. /\ word(m2, r) = word(m, r) /\ word(m2, r + 1) = word(m, r + 1)
      /\ word(m2, r + 2) = word(m, r + 2)
  BY DEF Same
<1>3. word(m2, f) = word(m, f) /\ word(m2, f + 1) = word(m, f + 1)
  BY <1>1 DEF Same
<1> HIDE DEF f
<1>4. /\ magic(m, r) /\ is_hole(m, r) = hole /\ size_of(m, r) = n
      /\ hole = 0 => magic(m, f) /\ header_of(m, f) = r
      /\ magic(m, f) /\ r + n # e => header_of(m, f) = r
  BY DEF Sound, f
<1>5. /\ magic(m2, r) /\ is_hole(m2, r) = hole /\ size_of(m2, r) = n
      /\ magic(m2, f) <=> magic(m, f)
      /\ header_of(m2, f) = header_of(m, f)
  BY <1>2, <1>3, <1>4 DEF magic, is_hole, size_of, header_of
<1>6. Sound(m2, r, hole, n, e2) <=>
        /\ magic(m2, r) /\ is_hole(m2, r) = hole /\ size_of(m2, r) = n
        /\ hole = 0 => magic(m2, f) /\ header_of(m2, f) = r
        /\ magic(m2, f) /\ r + n # e2 => header_of(m2, f) = r
  BY DEF Sound, f
<1> QED
  BY <1>4, <1>5, <1>6

-----------------------------------------------------------------------------
(***************************************************************************)
(* Blocks B and holes H, as the memory m describes them, tile the heap.    *)
(***************************************************************************)
Lay(m, B, H, e) ==
  /\ Tiles(B \cup H, [r \in B \cup H |-> size_of(m, r)], e)
  /\ \A r \in B : Sound(m, r, 0, size_of(m, r), e)
  /\ \A r \in H : Sound(m, r, 1, size_of(m, r), e)

LEMMA LayFacts ==
  ASSUME NEW m, NEW B, NEW H, NEW e, Lay(m, B, H, e)
  PROVE  /\ B \cap H = {} /\ e \in Nat /\ start_address \in B \cup H
         /\ \A r \in B \cup H :
              /\ r \in Nat /\ start_address <= r
              /\ size_of(m, r) \in Nat /\ size_of(m, r) >= 5
              /\ r + size_of(m, r) <= e /\ r + size_of(m, r) \in B \cup H \cup {e}
         /\ \A r, q \in B \cup H : r < q => r + size_of(m, r) <= q
<1> DEFINE R == B \cup H
           s == [r \in R |-> size_of(m, r)]
<1>1. \A r \in R : s[r] = size_of(m, r)
  OBVIOUS
<1>2. Tiles(R, s, e)
  BY DEF Lay
<1> HIDE DEF s
<1>3. /\ s \in [R -> Nat] /\ e \in Nat /\ start_address \in R
      /\ \A r \in R :
           /\ r \in Nat /\ start_address <= r /\ s[r] >= 5
           /\ r + s[r] <= e /\ r + s[r] \in R \cup {e}
           /\ \A q \in R : r < q => r + s[r] <= q
  BY <1>2, Numbers DEF Tiles
<1>4. B \cap H = {}
  <2> SUFFICES ASSUME NEW r \in B, r \in H PROVE FALSE
    OBVIOUS
  <2>1. is_hole(m, r) = 0 /\ is_hole(m, r) = 1
    BY DEF Lay, Sound
  <2> QED
    BY <2>1
<1> QED
  BY <1>1, <1>3, <1>4

LEMMA LayFrom ==
  ASSUME NEW m, NEW B, NEW H, NEW e, NEW s, Tiles(B \cup H, s, e),
         \A r \in B : Sound(m, r, 0, s[r], e),
         \A r \in H : Sound(m, r, 1, s[r], e)
  PROVE  Lay(m, B, H, e)
<1>1. \A r \in B \cup H : size_of(m, r) = s[r]
  BY DEF Sound
<1>2. s = [r \in B \cup H |-> size_of(m, r)]
  <2>1. s \in [B \cup H -> Nat]
    BY DEF Tiles
  <2> QED
    BY <1>1, <2>1
<1> QED
  BY <1>1, <1>2, Zenon DEF Lay

\* A region away from the words that were written keeps its header and footer.
LEMMA Away ==
  ASSUME NEW m, NEW B, NEW H, NEW e, Lay(m, B, H, e), e < W,
         NEW m2, NEW lo \in Nat, NEW hi \in Nat, Within(m, m2, lo, hi),
         NEW r \in B \cup H, r + size_of(m, r) <= lo \/ hi <= r
  PROVE  /\ r \in B => Sound(m2, r, 0, size_of(m, r), e)
         /\ r \in H => Sound(m2, r, 1, size_of(m, r), e)
<1> DEFINE n == size_of(m, r)
<1>1. r \in Nat /\ n \in Nat /\ n >= 5 /\ r + n <= e /\ e \in Nat
  BY LayFacts
<1>2. Same(m, m2, r, r + n)
  <2> HIDE DEF n
  <2> SUFFICES ASSUME NEW a \in Nat, r <= a, a < r + n PROVE word(m2, a) = word(m, a)
    BY DEF Same
  <2>1. a < W /\ (a < lo \/ hi <= a)
    BY <1>1, Numbers DEF n
  <2> QED
    BY <2>1 DEF Within
<1>3. ASSUME r \in B PROVE Sound(m2, r, 0, n, e)
  <2>1. Sound(m, r, 0, n, e)
    BY <1>3 DEF Lay
  <2> HIDE DEF n
  <2> QED
    BY <1>1, <1>2, <2>1, SoundLocal
<1>4. ASSUME r \in H PROVE Sound(m2, r, 1, n, e)
  <2>1. Sound(m, r, 1, n, e)
    BY <1>4 DEF Lay
  <2> HIDE DEF n
  <2> QED
    BY <1>1, <1>2, <2>1, SoundLocal
<1> QED
  BY <1>3, <1>4

LEMMA Others ==
  ASSUME NEW m, NEW B, NEW H, NEW e, Lay(m, B, H, e), e < W,
         NEW h \in B \cup H, NEW m2, Within(m, m2, h, h + size_of(m, h))
  PROVE  /\ \A r \in B : r # h => Sound(m2, r, 0, size_of(m, r), e)
         /\ \A r \in H : r # h => Sound(m2, r, 1, size_of(m, r), e)
<1> DEFINE lo == h
           hi == h + size_of(m, h)
<1>1. lo \in Nat /\ hi \in Nat
  BY LayFacts
<1>2. ASSUME NEW r \in B \cup H, r # h PROVE r + size_of(m, r) <= lo \/ hi <= r
  <2>1. r < h \/ h < r
    BY <1>2, LayFacts
  <2> QED
    BY <2>1, LayFacts
<1>3. Within(m, m2, lo, hi)
  OBVIOUS
<1> HIDE DEF lo, hi
<1> QED
  BY <1>1, <1>2, <1>3, Away

-----------------------------------------------------------------------------
\* A block becomes a hole or a hole a block.
LEMMA LayWhole ==
  ASSUME NEW m, NEW B, NEW H, NEW e, Lay(m, B, H, e), e < W, NEW h \in H,
         NEW m2, Within(m, m2, h, h + size_of(m, h)), Sound(m2, h, 0, size_of(m, h), e)
  PROVE  Lay(m2, B \cup {h}, H \ {h}, e)
<1> DEFINE s == [r \in B \cup H |-> size_of(m, r)]
<1>1. (B \cup {h}) \cup (H \ {h}) = B \cup H
  OBVIOUS
<1>2. Tiles(B \cup H, s, e)
  BY DEF Lay
<1>3. \A r \in B \cup {h} : Sound(m2, r, 0, s[r], e)
  BY Others
<1>4. \A r \in H \ {h} : Sound(m2, r, 1, s[r], e)
  BY Others
<1> HIDE DEF s
<1> QED
  BY <1>1, <1>2, <1>3, <1>4, LayFrom

LEMMA LayFree ==
  ASSUME NEW m, NEW B, NEW H, NEW e, Lay(m, B, H, e), e < W, NEW h \in B,
         NEW m2, Within(m, m2, h, h + size_of(m, h)), Sound(m2, h, 1, size_of(m, h), e)
  PROVE  Lay(m2, B \ {h}, H \cup {h}, e)
<1> DEFINE s == [r \in B \cup H |-> size_of(m, r)]
<1>1. (B \ {h}) \cup (H \cup {h}) = B \cup H
  OBVIOUS
<1>2. Tiles(B \cup H, s, e)
  BY DEF Lay
<1>3. \A r \in B \ {h} : Sound(m2, r, 0, s[r], e)
  BY Others
<1>4. \A r \in H \cup {h} : Sound(m2, r, 1, s[r], e)
  BY Others
<1> HIDE DEF s
<1> QED
  BY <1>1, <1>2, <1>3, <1>4, LayFrom

\* A block is cut from the front of a hole.
LEMMA LayFront ==
  ASSUME NEW m, NEW B, NEW H, NEW e, Lay(m, B, H, e), e < W, NEW h \in H,
         NEW m2, Within(m, m2, h, h + size_of(m, h)),
         NEW a \in Nat, a >= 5, NEW b \in Nat, b >= 5, size_of(m, h) = a + b,
         Sound(m2, h, 0, a, e), Sound(m2, h + a, 1, b, e)
  PROVE  h + a \notin B \cup H /\ Lay(m2, B \cup {h}, (H \ {h}) \cup {h + a}, e)
<1> DEFINE R == B \cup H
           s == [r \in R |-> size_of(m, r)]
           t == split(R, s, h, a)
           B2 == B \cup {h}
           H2 == (H \ {h}) \cup {h + a}
<1>1. Tiles(R, s, e) /\ h \in R /\ s[h] = a + b
  BY DEF Lay
<1>2. a >= Overhead /\ s[h] - a = b /\ s[h] - a >= Overhead
  BY <1>1, Numbers
<1>3. h + a \notin R /\ Tiles(R \cup {h + a}, t, e)
  <2> HIDE DEF s, R, t
  <2> QED
    BY <1>1, <1>2, Split DEF t
<1>4. B2 \cup H2 = R \cup {h + a}
  OBVIOUS
<1>5. h \in Nat /\ h # h + a
  BY LayFacts
<1>6. t[h] = a /\ t[h + a] = b /\ \A r \in R : r # h => t[r] = size_of(m, r)
  BY <1>2, <1>3, <1>5 DEF split
<1>7. B \cap H = {}
  BY LayFacts
<1> HIDE DEF s, t
<1>8. \A r \in B2 : Sound(m2, r, 0, t[r], e)
  BY <1>6, <1>7, Others
<1>9. \A r \in H2 : Sound(m2, r, 1, t[r], e)
  BY <1>6, Others
<1> HIDE DEF B2, H2
<1>10. Lay(m2, B2, H2, e)
  BY <1>3, <1>4, <1>8, <1>9, LayFrom
<1> QED
  BY <1>3, <1>10 DEF B2, H2

\* A block is cut from the back of a hole.
LEMMA LayBack ==
  ASSUME NEW m, NEW B, NEW H, NEW e, Lay(m, B, H, e), e < W, NEW h \in H,
         NEW m2, Within(m, m2, h, h + size_of(m, h)),
         NEW a \in Nat, a >= 5, NEW b \in Nat, b >= 5, size_of(m, h) = a + b,
         Sound(m2, h, 1, a, e), Sound(m2, h + a, 0, b, e)
  PROVE  h + a \notin B \cup H /\ Lay(m2, B \cup {h + a}, H, e)
<1> DEFINE R == B \cup H
           s == [r \in R |-> size_of(m, r)]
           t == split(R, s, h, a)
           B2 == B \cup {h + a}
<1>1. Tiles(R, s, e) /\ h \in R /\ s[h] = a + b
  BY DEF Lay
<1>2. a >= Overhead /\ s[h] - a = b /\ s[h] - a >= Overhead
  BY <1>1, Numbers
<1>3. h + a \notin R /\ Tiles(R \cup {h + a}, t, e)
  <2> HIDE DEF s, R, t
  <2> QED
    BY <1>1, <1>2, Split DEF t
<1>4. B2 \cup H = R \cup {h + a}
  OBVIOUS
<1>5. h \in Nat /\ h # h + a
  BY LayFacts
<1>6. t[h] = a /\ t[h + a] = b /\ \A r \in R : r # h => t[r] = size_of(m, r)
  BY <1>2, <1>3, <1>5 DEF split
<1>7. B \cap H = {}
  BY LayFacts
<1> HIDE DEF s, t
<1>8. \A r \in B2 : Sound(m2, r, 0, t[r], e)
  BY <1>6, <1>7, Others
<1>9. \A r \in H : Sound(m2, r, 1, t[r], e)
  BY <1>6, Others
<1> HIDE DEF B2
<1>10. Lay(m2, B2, H, e)
  BY <1>3, <1>4, <1>8, <1>9, LayFrom
<1> QED
  BY <1>3, <1>10 DEF B2

\* A block is cut from the middle of a hole.
LEMMA LayMiddle ==
  ASSUME NEW m, NEW B, NEW H, NEW e, Lay(m, B, H, e), e < W, NEW h \in H,
         NEW m2, Within(m, m2, h, h + size_of(m, h)),
         NEW a \in Nat, a >= 5, NEW b \in Nat, b >= 5, NEW c \in Nat, c >= 5,
         size_of(m, h) = a + b + c,
         Sound(m2, h, 1, a, e), Sound(m2, h + a, 0, b, e), Sound(m2, h + a + b, 1, c, e)
  PROVE  /\ h + a \notin B \cup H /\ h + a + b \notin B \cup H
         /\ Lay(m2, B \cup {h + a}, H \cup {h + a + b}, e)
<1> DEFINE R == B \cup H
           s == [r \in R |-> size_of(m, r)]
           t == split(R, s, h, a)
           R1 == R \cup {h + a}
           u == split(R1, t, h + a, b)
           B2 == B \cup {h + a}
           H2 == H \cup {h + a + b}
<1>1. Tiles(R, s, e) /\ h \in R /\ s[h] = a + b + c
  BY DEF Lay
<1>2. a >= Overhead /\ s[h] - a = b + c /\ s[h] - a >= Overhead
  BY <1>1, Numbers
<1>3. h + a \notin R /\ Tiles(R1, t, e)
  <2> HIDE DEF s, R, t
  <2> QED
    BY <1>1, <1>2, Split DEF t
<1>4. h \in Nat /\ h # h + a /\ h + a + b # h /\ h + a + b # h + a
  BY LayFacts
<1>5. t[h] = a /\ t[h + a] = b + c /\ \A r \in R : r # h => t[r] = size_of(m, r)
  BY <1>2, <1>3, <1>4 DEF split
<1> HIDE DEF s, t
<1>6. h + a \in R1 /\ b >= Overhead /\ t[h + a] - b = c /\ t[h + a] - b >= Overhead
  BY <1>5, Numbers
<1>7. h + a + b \notin R1 /\ Tiles(R1 \cup {h + a + b}, u, e)
  <2> HIDE DEF R1, u
  <2> QED
    BY <1>3, <1>6, Split DEF u
<1>8. /\ u[h] = a /\ u[h + a] = b /\ u[h + a + b] = c
      /\ \A r \in R : r # h => u[r] = size_of(m, r)
  <2>1. u[h + a] = b /\ u[h + a + b] = c
    BY <1>4, <1>6, <1>7 DEF split
  <2>2. \A r \in R : u[r] = t[r]
    BY <1>3, <1>7 DEF split
  <2> QED
    BY <1>5, <2>1, <2>2
<1>9. B \cap H = {}
  BY LayFacts
<1> HIDE DEF u
<1>10. B2 \cup H2 = R1 \cup {h + a + b}
  OBVIOUS
<1>11. \A r \in B2 : Sound(m2, r, 0, u[r], e)
  BY <1>8, <1>9, Others
<1>12. \A r \in H2 : Sound(m2, r, 1, u[r], e)
  BY <1>8, Others
<1> HIDE DEF B2, H2
<1>13. Lay(m2, B2, H2, e)
  BY <1>7, <1>10, <1>11, <1>12, LayFrom
<1> QED
  BY <1>3, <1>7, <1>13 DEF B2, H2

\* Two neighbouring holes become one.
LEMMA LayJoin ==
  ASSUME NEW m, NEW B, NEW H, NEW e, Lay(m, B, H, e), e < W,
         NEW l \in H, NEW r \in H, r = l + size_of(m, l),
         NEW m2, Within(m, m2, l, r + size_of(m, r)),
         Sound(m2, l, 1, size_of(m, l) + size_of(m, r), e)
  PROVE  Lay(m2, B, H \ {r}, e)
<1> DEFINE R == B \cup H
           s == [x \in R |-> size_of(m, x)]
           t == join(R, s, l, r)
           H2 == H \ {r}
           lo == l
           hi == r + size_of(m, r)
<1>1. Tiles(R, s, e) /\ l \in R /\ r \in R /\ r = l + s[l]
  BY DEF Lay
<1>2. Tiles(R \ {r}, t, e)
  <2> HIDE DEF s, R, t
  <2> QED
    BY <1>1, Join DEF t
<1>3. B \cap H = {} /\ l # r /\ lo \in Nat /\ hi \in Nat
  BY LayFacts
<1>4. B \cup H2 = R \ {r}
  BY <1>3
<1>5. t[l] = size_of(m, l) + size_of(m, r)
      /\ \A x \in R \ {r} : x # l => t[x] = size_of(m, x)
  BY <1>3 DEF join
<1>6. ASSUME NEW x \in R, x # l, x # r PROVE x + size_of(m, x) <= lo \/ hi <= x
  <2>1. x < l \/ l < x
    BY <1>6, LayFacts
  <2>2. CASE x < l
    BY <2>2, LayFacts
  <2>3. CASE l < x
    <3>1. l + size_of(m, l) <= x /\ x \in Nat /\ r \in Nat
      BY <2>3, LayFacts
    <3>2. r < x
      BY <1>6, <3>1
    <3> QED
      BY <3>2, LayFacts
  <2> QED
    BY <2>1, <2>2, <2>3
<1>7. Within(m, m2, lo, hi)
  OBVIOUS
<1> HIDE DEF s, t, lo, hi
<1>8. \A x \in B : Sound(m2, x, 0, t[x], e)
  <2> SUFFICES ASSUME NEW x \in B PROVE Sound(m2, x, 0, t[x], e)
    OBVIOUS
  <2>1. x \in R \ {r} /\ x # l /\ x # r
    BY <1>3
  <2>2. Sound(m2, x, 0, size_of(m, x), e)
    BY <1>3, <1>6, <1>7, <2>1, Away
  <2> QED
    BY <1>5, <2>1, <2>2
<1>9. \A x \in H2 : Sound(m2, x, 1, t[x], e)
  <2> SUFFICES ASSUME NEW x \in H2, x # l PROVE Sound(m2, x, 1, t[x], e)
    BY <1>5
  <2>1. x \in R \ {r} /\ x # r
    OBVIOUS
  <2>2. Sound(m2, x, 1, size_of(m, x), e)
    BY <1>3, <1>6, <1>7, <2>1, Away
  <2> QED
    BY <1>5, <2>1, <2>2
<1> HIDE DEF H2
<1>10. Lay(m2, B, H2, e)
  BY <1>2, <1>4, <1>8, <1>9, LayFrom
<1> QED
  BY <1>10 DEF H2

\* A footer that does not end the heap stays right when the end moves.
LEMMA EndMoves ==
  ASSUME NEW m, NEW r, NEW hole, NEW n, NEW e, NEW e2,
         Sound(m, r, hole, n, e), hole = 0 \/ r + n # e
  PROVE  Sound(m, r, hole, n, e2)
BY DEF Sound

\* The heap grows, and its last hole with it.
LEMMA LayStretch ==
  ASSUME NEW m, NEW B, NEW H, NEW e, Lay(m, B, H, e), NEW g \in Nat, e + g < W,
         NEW h \in H, h + size_of(m, h) = e, NEW m2, Within(m, m2, h, e + g),
         Sound(m2, h, 1, size_of(m, h) + g, e + g)
  PROVE  Lay(m2, B, H, e + g)
<1> DEFINE R == B \cup H
           s == [x \in R |-> size_of(m, x)]
           t == [x \in R |-> IF x = h THEN s[h] + g ELSE s[x]]
           lo == h
           hi == e + g
<1>1. Tiles(R, s, e) /\ h \in R /\ h + s[h] = e
  BY DEF Lay
<1>2. Tiles(R, t, e + g)
  <2> HIDE DEF s, R
  <2> QED
    BY <1>1, Stretch
<1>3. t[h] = size_of(m, h) + g /\ \A x \in R : x # h => t[x] = size_of(m, x)
  OBVIOUS
<1>4. B \cap H = {} /\ lo \in Nat /\ hi \in Nat /\ e \in Nat /\ e < W
  BY LayFacts, Numbers
<1>5. ASSUME NEW x \in R, x # h PROVE x + size_of(m, x) <= lo /\ x + size_of(m, x) # e
  <2>1. x < h \/ h < x
    BY <1>5, LayFacts
  <2>2. ~ (h < x)
    BY LayFacts
  <2>3. x + size_of(m, x) <= h /\ h < e
    BY <2>1, <2>2, LayFacts
  <2> QED
    BY <2>3, LayFacts
<1>6. Within(m, m2, lo, hi)
  OBVIOUS
<1> HIDE DEF s, t, lo, hi
<1>7. \A x \in B : Sound(m2, x, 0, t[x], e + g)
  <2> SUFFICES ASSUME NEW x \in B PROVE Sound(m2, x, 0, t[x], e + g)
    OBVIOUS
  <2>1. x \in R /\ x # h
    BY <1>4
  <2>2. Sound(m2, x, 0, size_of(m, x), e)
    BY <1>4, <1>5, <1>6, <2>1, Away
  <2>3. Sound(m2, x, 0, size_of(m, x), e + g)
    BY <2>2, EndMoves
  <2> QED
    BY <1>3, <2>1, <2>3
<1>8. \A x \in H : Sound(m2, x, 1, t[x], e + g)
  <2> SUFFICES ASSUME NEW x \in H, x # h PROVE Sound(m2, x, 1, t[x], e + g)
    BY <1>3
  <2>1. x \in R
    OBVIOUS
  <2>2. Sound(m2, x, 1, size_of(m, x), e)
    BY <1>4, <1>5, <1>6, <2>1, Away
  <2>3. Sound(m2, x, 1, size_of(m, x), e + g)
    BY <1>5, <2>1, <2>2, EndMoves
  <2> QED
    BY <1>3, <2>1, <2>3
<1> QED
  BY <1>2, <1>7, <1>8, LayFrom

\* The heap grows by a hole, when there was none.
LEMMA LayExtend ==
  ASSUME NEW m, NEW B, NEW e, Lay(m, B, {}, e), NEW g \in Nat, g >= 5, e + g < W,
         NEW m2, Within(m, m2, e, e + g), Sound(m2, e, 1, g, e + g)
  PROVE  e \notin B /\ Lay(m2, B, {e}, e + g)
<1> DEFINE s == [x \in B |-> size_of(m, x)]
           t == [x \in B \cup {e} |-> IF x = e THEN g ELSE s[x]]
           hi == e + g
<1>1. Tiles(B, s, e)
  <2>1. B \cup {} = B
    OBVIOUS
  <2> QED
    BY <2>1 DEF Lay
<1>2. e \notin B /\ Tiles(B \cup {e}, t, e + g)
  <2>1. g >= Overhead
    BY Numbers
  <2> HIDE DEF s
  <2> QED
    BY <1>1, <2>1, Extend
<1>3. t[e] = g /\ \A x \in B : t[x] = size_of(m, x)
  BY <1>2
<1>4. hi \in Nat /\ e \in Nat /\ e < W
  BY LayFacts, Numbers
<1>5. Within(m, m2, e, hi)
  OBVIOUS
<1> HIDE DEF s, t, hi
<1>6. \A x \in B : Sound(m2, x, 0, t[x], e + g)
  <2> SUFFICES ASSUME NEW x \in B PROVE Sound(m2, x, 0, t[x], e + g)
    OBVIOUS
  <2>1. x + size_of(m, x) <= e /\ x \in B \cup {}
    BY LayFacts
  <2>2. Sound(m2, x, 0, size_of(m, x), e)
    BY <1>4, <1>5, <2>1, Away
  <2>3. Sound(m2, x, 0, size_of(m, x), e + g)
    BY <2>2, EndMoves
  <2> QED
    BY <1>3, <2>3
<1>7. \A x \in {e} : Sound(m2, x, 1, t[x], e + g)
  BY <1>3
<1> QED
  BY <1>2, <1>6, <1>7, LayFrom

-----------------------------------------------------------------------------
(***************************************************************************)
(* The index                                                               *)
(***************************************************************************)
Distinct(idx) == \A j, k \in 1 .. Len(idx) : idx[j] = idx[k] => j = k

LEMMA Elements ==
  ASSUME NEW idx \in Seq(Nat)
  PROVE  /\ \A x : x \in ToSet(idx) <=> \E k \in 1 .. Len(idx) : idx[k] = x
         /\ ToSet(idx) \subseteq Nat
         /\ idx = << >> <=> ToSet(idx) = {}
<1>1. DOMAIN idx = 1 .. Len(idx)
  OBVIOUS
<1>2. \A x : x \in ToSet(idx) <=> \E k \in 1 .. Len(idx) : idx[k] = x
  BY <1>1 DEF ToSet
<1>3. ToSet(idx) \subseteq Nat
  BY <1>2
<1>4. ASSUME idx # << >> PROVE idx[1] \in ToSet(idx)
  <2>1. Len(idx) # 0 /\ Len(idx) \in Nat
    BY <1>4
  <2> QED
    BY <1>2, <2>1
<1>5. ASSUME idx = << >> PROVE ToSet(idx) = {}
  BY <1>5 DEF ToSet
<1> QED
  BY <1>2, <1>3, <1>4, <1>5

LEMMA Concat ==
  ASSUME NEW a \in Seq(Nat), NEW b \in Seq(Nat)
  PROVE  /\ a \o b \in Seq(Nat) /\ Len(a \o b) = Len(a) + Len(b)
         /\ Len(a) \in Nat /\ Len(b) \in Nat
         /\ \A k \in Nat : 1 <= k /\ k <= Len(a) => (a \o b)[k] = a[k]
         /\ \A k \in Nat : Len(a) < k /\ k <= Len(a) + Len(b) =>
              (a \o b)[k] = b[k - Len(a)]
OBVIOUS

LEMMA InsertAtFacts ==
  ASSUME NEW idx \in Seq(Nat), NEW h \in Nat, NEW i \in Nat, 1 <= i, i <= Len(idx) + 1
  PROVE  /\ InsertAt(idx, i, h) \in Seq(Nat)
         /\ Len(InsertAt(idx, i, h)) = Len(idx) + 1
         /\ \A k \in 1 .. (Len(idx) + 1) :
              InsertAt(idx, i, h)[k] =
                IF k < i THEN idx[k] ELSE IF k = i THEN h ELSE idx[k - 1]
<1> DEFINE n == Len(idx)
           a == SubSeq(idx, 1, i - 1)
           b == SubSeq(idx, i, n)
           c == << h >>
<1>1. n \in Nat
  OBVIOUS
<1>2. a \in Seq(Nat) /\ Len(a) = i - 1 /\ \A k \in 1 .. (i - 1) : a[k] = idx[k]
  OBVIOUS
<1>3. b \in Seq(Nat) /\ Len(b) = n - i + 1 /\ \A k \in 1 .. (n - i + 1) : b[k] = idx[i + k - 1]
  OBVIOUS
<1>4. c \in Seq(Nat) /\ Len(c) = 1 /\ c[1] = h
  OBVIOUS
<1>5. InsertAt(idx, i, h) = a \o c \o b
  BY DEF InsertAt
<1> HIDE DEF a, b, c, n
<1> DEFINE d == a \o c
<1>6. /\ d \in Seq(Nat) /\ Len(d) = i /\ d[i] = h
      /\ \A k \in 1 .. (i - 1) : d[k] = idx[k]
  <2>1. /\ d \in Seq(Nat) /\ Len(d) = Len(a) + Len(c)
        /\ \A k \in Nat : 1 <= k /\ k <= Len(a) => d[k] = a[k]
        /\ \A k \in Nat : Len(a) < k /\ k <= Len(a) + Len(c) => d[k] = c[k - Len(a)]
    BY <1>2, <1>4, Concat
  <2> HIDE DEF d
  <2>2. i - (i - 1) = 1
    OBVIOUS
  <2>3. d[i] = c[1]
    BY <1>2, <1>4, <2>1, <2>2
  <2> QED
    BY <1>2, <1>4, <2>1, <2>3
<1> HIDE DEF d
<1> DEFINE r == d \o b
<1>7. r \in Seq(Nat) /\ Len(r) = n + 1
  <2>1. r \in Seq(Nat) /\ Len(r) = Len(d) + Len(b)
    BY <1>3, <1>6, Concat
  <2> QED
    BY <1>1, <1>3, <1>6, <2>1
<1>9. /\ \A k \in Nat : 1 <= k /\ k <= i => r[k] = d[k]
      /\ \A k \in Nat : i < k /\ k <= n + 1 => r[k] = b[k - i]
  <2>1. Len(d) + Len(b) = n + 1
    BY <1>1, <1>3, <1>6
  <2> QED
    BY <1>3, <1>6, <2>1, Concat
<1> HIDE DEF r
<1>8. ASSUME NEW k \in 1 .. (n + 1)
      PROVE  r[k] = IF k < i THEN idx[k] ELSE IF k = i THEN h ELSE idx[k - 1]
  <2>1. CASE k <= i
    <3>1. k \in 1 .. Len(d)
      BY <1>1, <1>6, <2>1
    <3>2. r[k] = d[k]
      BY <1>9, <2>1
    <3>3. k = i \/ k \in 1 .. (i - 1)
      BY <2>1
    <3> QED
      BY <1>6, <2>1, <3>2, <3>3
  <2>2. CASE k > i
    <3>1. k - i \in 1 .. (n - i + 1) /\ k \in (i + 1) .. (n + 1)
      BY <1>1, <2>2
    <3>2. r[k] = b[k - i]
      BY <1>1, <1>9, <2>2
    <3>3. i + (k - i) - 1 = k - 1
      OBVIOUS
    <3>4. b[k - i] = idx[k - 1]
      BY <1>3, <3>1, <3>3
    <3> QED
      BY <2>2, <3>2, <3>4
  <2> QED
    BY <1>1, <2>1, <2>2
<1> QED
  BY <1>5, <1>7, <1>8 DEF n, d, r

\* insert_ordered_array adds the header and moves the others.
LEMMA InsertFacts ==
  ASSUME NEW m, NEW idx \in Seq(Nat), NEW h \in Nat, h \notin ToSet(idx), Distinct(idx)
  PROVE  /\ insert(m, idx, h) \in Seq(Nat)
         /\ ToSet(insert(m, idx, h)) = ToSet(idx) \cup {h}
         /\ Distinct(insert(m, idx, h))
<1> DEFINE T == { i \in 1 .. Len(idx) : ~ (size_of(m, idx[i]) < size_of(m, h)) }
           it == IF T # {} THEN Min(T) ELSE 0
           i == IF it = 0 THEN Len(idx) + 1 ELSE it
           r == insert(m, idx, h)
           n == Len(idx)
<1>1. it = SelectInSeq(idx, LAMBDA x : ~ (size_of(m, x) < size_of(m, h)))
  BY DEF SelectInSeq
<1>2. r = InsertAt(idx, i, h)
  BY <1>1 DEF insert
<1>3. n \in Nat /\ T \subseteq 1 .. n
  OBVIOUS
<1> HIDE DEF T
<1>4. ASSUME T # {} PROVE Min(T) \in T
  <2>1. T \subseteq Nat
    BY <1>3
  <2>2. \E x \in T : \A y \in T : x <= y
    BY <1>4, <2>1, NatMin
  <2> QED
    BY <2>2 DEF Min
<1>5. i \in Nat /\ 1 <= i /\ i <= n + 1
  <2>1. CASE T = {}
    BY <1>3, <2>1
  <2>2. CASE T # {}
    <3>1. Min(T) \in 1 .. n
      BY <1>3, <1>4, <2>2
    <3> HIDE DEF n
    <3>2. i = Min(T)
      BY <1>3, <2>2, <3>1
    <3> QED
      BY <1>3, <3>1, <3>2
  <2> QED
    BY <2>1, <2>2
<1> HIDE DEF i, r
<1>6. /\ r \in Seq(Nat) /\ Len(r) = n + 1
      /\ \A k \in 1 .. (n + 1) :
           r[k] = IF k < i THEN idx[k] ELSE IF k = i THEN h ELSE idx[k - 1]
  <2> DEFINE q == InsertAt(idx, i, h)
  <2>1. /\ q \in Seq(Nat) /\ Len(q) = Len(idx) + 1
        /\ \A k \in 1 .. (Len(idx) + 1) :
             q[k] = IF k < i THEN idx[k] ELSE IF k = i THEN h ELSE idx[k - 1]
    BY <1>5, InsertAtFacts
  <2> HIDE DEF q
  <2>2. r = q
    BY <1>2 DEF q
  <2> QED
    BY <2>1, <2>2
<1>7. \A k \in 1 .. n : idx[k] # h /\ idx[k] \in ToSet(idx)
  BY Elements
<1> HIDE DEF n
<1>8. ASSUME NEW j \in 1 .. (n + 1), NEW k \in 1 .. (n + 1), r[j] = r[k] PROVE j = k
  <2> DEFINE back(x) == IF x < i THEN x ELSE x - 1
  <2>1. \A x \in 1 .. (n + 1) : x # i => back(x) \in 1 .. n /\ r[x] = idx[back(x)]
    BY <1>3, <1>5, <1>6
  <2>2. r[i] = h
    BY <1>3, <1>5, <1>6
  <2>3. CASE j = i \/ k = i
    BY <1>7, <1>8, <2>1, <2>2, <2>3
  <2>4. CASE j # i /\ k # i
    <3>1. back(j) = back(k)
      BY <1>8, <2>1, <2>4 DEF Distinct, n
    <3> QED
      BY <1>3, <1>5, <2>4, <3>1
  <2> QED
    BY <2>3, <2>4
<1>9. ASSUME NEW x PROVE (\E k \in 1 .. (n + 1) : r[k] = x) <=> x \in ToSet(idx) \cup {h}
  <2>1. ASSUME NEW k \in 1 .. (n + 1) PROVE r[k] \in ToSet(idx) \cup {h}
    <3>1. CASE k < i
      <4>1. k \in 1 .. n
        BY <1>3, <1>5, <3>1
      <4> QED
        BY <1>6, <1>7, <3>1, <4>1
    <3>2. CASE k = i
      BY <1>6, <3>2
    <3>3. CASE k > i
      <4>1. k - 1 \in 1 .. n
        BY <1>3, <1>5, <3>3
      <4>2. r[k] = idx[k - 1]
        BY <1>3, <1>5, <1>6, <3>3
      <4> QED
        BY <1>7, <4>1, <4>2
    <3> QED
      BY <1>3, <1>5, <3>1, <3>2, <3>3
  <2>2. ASSUME x \in ToSet(idx) PROVE \E k \in 1 .. (n + 1) : r[k] = x
    <3>1. PICK k \in 1 .. n : idx[k] = x
      BY <2>2, Elements DEF n
    <3>2. CASE k < i
      <4>1. k \in 1 .. (n + 1)
        BY <1>3
      <4> QED
        BY <1>6, <3>1, <3>2, <4>1
    <3>3. CASE ~ (k < i)
      <4>1. k + 1 \in 1 .. (n + 1) /\ ~ (k + 1 < i) /\ k + 1 # i /\ (k + 1) - 1 = k
        BY <1>3, <1>5, <3>3
      <4>2. r[k + 1] = idx[k]
        BY <1>6, <4>1
      <4> QED
        BY <3>1, <4>1, <4>2
    <3> QED
      BY <3>2, <3>3
  <2>3. i \in 1 .. (n + 1) /\ r[i] = h
    BY <1>3, <1>5, <1>6
  <2> QED
    BY <2>1, <2>2, <2>3
<1>10. ToSet(r) = ToSet(idx) \cup {h}
  BY <1>6, <1>9, Elements
<1>11. Distinct(r)
  BY <1>6, <1>8 DEF Distinct
<1> QED
  BY <1>6, <1>10, <1>11 DEF r

\* The first position of a set of positions, as SelectInSeq finds it.
LEMMA FirstOf ==
  ASSUME NEW n \in Nat, NEW T, T \subseteq 1 .. n, NEW it, it = IF T # {} THEN Min(T) ELSE 0
  PROVE  IF T = {} THEN it = 0 ELSE it \in T /\ it \in 1 .. n /\ it # 0
<1>1. ASSUME T # {} PROVE Min(T) \in T
  <2>1. T \subseteq Nat
    OBVIOUS
  <2>2. \E x \in T : \A y \in T : x <= y
    BY <1>1, <2>1, NatMin
  <2> QED
    BY <2>2 DEF Min
<1>2. CASE T = {}
  BY <1>2
<1>3. CASE T # {}
  <2>1. it = Min(T)
    BY <1>3
  <2>2. it \in T
    BY <1>1, <1>3, <2>1
  <2> QED
    BY <1>3, <2>2
<1> QED
  BY <1>2, <1>3

LEMMA RemoveAtFacts ==
  ASSUME NEW idx \in Seq(Nat), NEW i \in 1 .. Len(idx)
  PROVE  /\ RemoveAt(idx, i) \in Seq(Nat)
         /\ Len(RemoveAt(idx, i)) = Len(idx) - 1
         /\ \A k \in 1 .. (Len(idx) - 1) :
              RemoveAt(idx, i)[k] = IF k < i THEN idx[k] ELSE idx[k + 1]
<1> DEFINE a == SubSeq(idx, 1, i - 1)
           b == SubSeq(idx, i + 1, Len(idx))
           n == Len(idx)
<1>1. n \in Nat /\ i \in Nat /\ 1 <= i /\ i <= n
  OBVIOUS
<1>2. /\ a \in Seq(Nat) /\ Len(a) = i - 1
      /\ \A k \in 1 .. (i - 1) : a[k] = idx[k]
  OBVIOUS
<1>3. /\ b \in Seq(Nat) /\ Len(b) = n - i
      /\ \A k \in 1 .. (n - i) : b[k] = idx[i + k]
  OBVIOUS
<1>4. RemoveAt(idx, i) = a \o b
  BY DEF RemoveAt
<1> HIDE DEF a, b, n
<1> DEFINE r == a \o b
<1>5. /\ r \in Seq(Nat) /\ Len(r) = Len(a) + Len(b)
      /\ \A k \in Nat : 1 <= k /\ k <= Len(a) => r[k] = a[k]
      /\ \A k \in Nat : Len(a) < k /\ k <= Len(a) + Len(b) => r[k] = b[k - Len(a)]
  BY <1>2, <1>3, Concat
<1> HIDE DEF r
<1>6. ASSUME NEW k \in 1 .. (n - 1) PROVE r[k] = IF k < i THEN idx[k] ELSE idx[k + 1]
  <2>1. CASE k < i
    <3>1. k \in 1 .. (i - 1) /\ k <= Len(a)
      BY <1>1, <1>2, <2>1
    <3> QED
      BY <1>2, <1>5, <2>1, <3>1
  <2>2. CASE ~ (k < i)
    <3>1. k - (i - 1) \in 1 .. (n - i) /\ i + (k - (i - 1)) = k + 1
      BY <1>1, <2>2
    <3>2. Len(a) < k /\ k <= Len(a) + Len(b)
      BY <1>1, <1>2, <1>3, <2>2
    <3>3. r[k] = b[k - (i - 1)]
      BY <1>2, <1>5, <3>2
    <3>4. b[k - (i - 1)] = idx[k + 1]
      BY <1>3, <3>1
    <3> QED
      BY <2>2, <3>3, <3>4
  <2> QED
    BY <2>1, <2>2
<1>7. Len(r) = n - 1
  BY <1>1, <1>2, <1>3, <1>5
<1> QED
  BY <1>4, <1>5, <1>6, <1>7 DEF r, n

\* remove_ordered_array takes the header out and keeps the others.
LEMMA UnlinkFacts ==
  ASSUME NEW idx \in Seq(Nat), NEW h \in ToSet(idx), Distinct(idx)
  PROVE  /\ unlink(idx, h) \in Seq(Nat)
         /\ ToSet(unlink(idx, h)) = ToSet(idx) \ {h}
         /\ Distinct(unlink(idx, h))
<1> DEFINE T == { i \in 1 .. Len(idx) : idx[i] = h }
           it == IF T # {} THEN Min(T) ELSE 0
           r == unlink(idx, h)
           n == Len(idx)
<1>1. it = SelectInSeq(idx, LAMBDA x : x = h)
  BY DEF SelectInSeq
<1>2. n \in Nat /\ T \subseteq 1 .. n
  OBVIOUS
<1>3. T # {}
  BY Elements
<1>4. it \in T /\ it \in 1 .. n /\ it # 0
  <2> HIDE DEF T, n
  <2>1. IF T = {} THEN it = 0 ELSE it \in T /\ it \in 1 .. n /\ it # 0
    <3> HIDE DEF it
    <3>1. it = IF T # {} THEN Min(T) ELSE 0
      BY DEF it
    <3> QED
      BY <1>2, <3>1, FirstOf
  <2> QED
    BY <1>3, <2>1
<1> HIDE DEF it
<1>5. idx[it] = h
  BY <1>4
<1>6. r = RemoveAt(idx, it)
  BY <1>1, <1>4 DEF unlink
<1>7. /\ r \in Seq(Nat) /\ Len(r) = n - 1
      /\ \A k \in 1 .. (n - 1) : r[k] = IF k < it THEN idx[k] ELSE idx[k + 1]
  <2> DEFINE q == RemoveAt(idx, it)
  <2>1. /\ q \in Seq(Nat) /\ Len(q) = Len(idx) - 1
        /\ \A k \in 1 .. (Len(idx) - 1) : q[k] = IF k < it THEN idx[k] ELSE idx[k + 1]
    BY <1>4, RemoveAtFacts
  <2> HIDE DEF q, r
  <2>2. r = q
    BY <1>6 DEF q
  <2> QED
    BY <2>1, <2>2
<1> HIDE DEF T, r, n
<1> DEFINE on(k) == IF k < it THEN k ELSE k + 1
<1>8. \A k \in 1 .. (n - 1) : on(k) \in 1 .. n /\ on(k) # it /\ r[k] = idx[on(k)]
  BY <1>2, <1>4, <1>7
<1>9. \A j, k \in 1 .. n : idx[j] = idx[k] => j = k
  BY DEF Distinct, n
<1>10. \A j, k \in 1 .. (n - 1) : r[j] = r[k] => j = k
  <2> TAKE j, k \in 1 .. (n - 1)
  <2>1. r[j] = r[k] => on(j) = on(k)
    BY <1>8, <1>9
  <2>2. on(j) = on(k) => j = k
    BY <1>2, <1>4
  <2> QED
    BY <2>1, <2>2
<1>11. ASSUME NEW x PROVE (\E k \in 1 .. (n - 1) : r[k] = x) <=> x \in ToSet(idx) \ {h}
  <2>1. ASSUME NEW k \in 1 .. (n - 1) PROVE r[k] \in ToSet(idx) \ {h}
    <3>1. on(k) \in 1 .. n /\ on(k) # it /\ r[k] = idx[on(k)]
      BY <1>8
    <3>2. idx[on(k)] # h
      BY <1>4, <1>5, <1>9, <3>1
    <3>3. idx[on(k)] \in ToSet(idx)
      BY <3>1, Elements DEF n
    <3> QED
      BY <3>1, <3>2, <3>3
  <2>2. ASSUME x \in ToSet(idx), x # h PROVE \E k \in 1 .. (n - 1) : r[k] = x
    <3>1. PICK k \in 1 .. n : idx[k] = x
      BY <2>2, Elements DEF n
    <3>2. k # it
      BY <1>5, <2>2, <3>1
    <3>3. CASE k < it
      <4>1. k \in 1 .. (n - 1)
        BY <1>2, <1>4, <3>3
      <4> QED
        BY <1>7, <3>1, <3>3, <4>1
    <3>4. CASE k > it
      <4>1. k - 1 \in 1 .. (n - 1) /\ ~ (k - 1 < it) /\ (k - 1) + 1 = k
        BY <1>2, <1>4, <3>4
      <4>2. r[k - 1] = idx[k]
        BY <1>7, <4>1
      <4> QED
        BY <3>1, <4>1, <4>2
    <3> QED
      BY <1>4, <3>2, <3>3, <3>4
  <2> QED
    BY <2>1, <2>2
<1>12. ToSet(r) = ToSet(idx) \ {h}
  <2>1. \A x : x \in ToSet(r) <=> \E k \in 1 .. (n - 1) : r[k] = x
    BY <1>7, Elements
  <2>2. \A x : x \in ToSet(r) <=> x \in ToSet(idx) \ {h}
    BY <1>11, <2>1, Zenon
  <2> QED
    BY <2>2, Zenon
<1>13. Distinct(r)
  BY <1>7, <1>10 DEF Distinct
<1> QED
  BY <1>7, <1>12, <1>13 DEF r

-----------------------------------------------------------------------------
(***************************************************************************)
(* Searching the index                                                     *)
(***************************************************************************)

\* find_smallest_hole gives a position whose hole fits, or no hole fits.
LEMMA FindFacts ==
  ASSUME index \in Seq(Nat), NEW need, NEW align,
         NEW it, it = find_smallest_hole(need, align)
  PROVE  /\ it # 0 => it \in 1 .. Len(index) /\ fits(index[it], need, align)
         /\ it = 0 => \A k \in 1 .. Len(index) : ~ fits(index[k], need, align)
<1> DEFINE n == Len(index)
           T == { i \in 1 .. n : fits(index[i], need, align) }
<1>1. n \in Nat /\ T \subseteq 1 .. n
  OBVIOUS
<1>2. it = IF T # {} THEN Min(T) ELSE 0
  BY DEF find_smallest_hole, SelectInSeq
<1>3. IF T = {} THEN it = 0 ELSE it \in T /\ it \in 1 .. n /\ it # 0
  <2> HIDE DEF T, n
  <2> QED
    BY <1>1, <1>2, FirstOf
<1> QED
  BY <1>1, <1>3

\* The same of the state after a step, for requests without alignment.
LEMMA FindFactsAfter ==
  ASSUME index' \in Seq(Nat), NEW need, NEW k \in 1 .. Len(index'),
         size_of(mem', index'[k]) >= need
  PROVE  find_smallest_hole(need, FALSE)' # 0
<1> DEFINE n == Len(index')
           T == { i \in 1 .. n : size_of(mem', index'[i]) >= need }
           it == IF T # {} THEN Min(T) ELSE 0
<1>1. n \in Nat /\ T \subseteq 1 .. n /\ T # {}
  OBVIOUS
<1>2. find_smallest_hole(need, FALSE)' = it
  BY DEF find_smallest_hole, SelectInSeq, fits, size_of, word
<1>3. IF T = {} THEN it = 0 ELSE it \in T /\ it \in 1 .. n /\ it # 0
  <2> HIDE DEF T, n, it
  <2>1. it = IF T # {} THEN Min(T) ELSE 0
    BY DEF it
  <2> QED
    BY <1>1, <2>1, FirstOf
<1> QED
  BY <1>1, <1>2, <1>3

\* The hole with the highest address
LEMMA HighestHole ==
  ASSUME NEW T, T \subseteq Nat, T # {}, NEW b \in Nat, \A x \in T : x <= b
  PROVE  Max(T) \in T /\ \A y \in T : y <= Max(T)
<1>1. \E x \in T : \A y \in T : y <= x
  BY NatMax
<1>2. \E x \in T : \A y \in T : x >= y
  BY <1>1
<1>3. Max(T) \in T /\ \A y \in T : Max(T) >= y
  BY <1>2 DEF Max
<1> QED
  BY <1>3

-----------------------------------------------------------------------------
(***************************************************************************)
(* Pages                                                                   *)
(***************************************************************************)

LEMMA Division ==
  ASSUME NEW a \in Nat, NEW d \in Nat, d > 0
  PROVE  /\ a \div d \in Nat /\ a % d \in Nat
         /\ a = d * (a \div d) + (a % d) /\ a % d < d
  OBVIOUS

LEMMA DivisionUnique ==
  ASSUME NEW d \in Nat, d > 0, NEW q \in Int, NEW r \in Nat, r < d, NEW a \in Nat,
         a = d * q + r
  PROVE  a \div d = q /\ a % d = r
  OBVIOUS

\* Comparing products with the same factor
LEMMA Products ==
  ASSUME NEW d \in Nat, d > 0, NEW x \in Int, NEW y \in Int
  PROVE  /\ d * x < d * y <=> x < y
         /\ d * x <= d * y <=> x <= y
         /\ d * (x + 1) = d * x + d /\ d * (x - 1) = d * x - d
         /\ d * (x - y) = d * x - d * y /\ d * (x + y) = d * x + d * y
  OBVIOUS

\* The number of a page, and of the page that ends where it begins
LEMMA PageNumber ==
  ASSUME NEW a \in Nat, a < W
  PROVE  /\ page_of(a) \in Nat /\ page_of(a) = a \div PAGE
         /\ PAGE * page_of(a) <= a /\ a < PAGE * page_of(a) + PAGE
         /\ a % PAGE = 0 => PAGE * page_of(a) = a
<1>1. page_of(a) = a \div PAGE
  BY Mod DEF page_of
<1>2. /\ a \div PAGE \in Nat /\ a % PAGE \in Nat
      /\ a = PAGE * (a \div PAGE) + (a % PAGE) /\ a % PAGE < PAGE
  <2>1. PAGE \in Nat /\ PAGE > 0
    BY Numbers
  <2> QED
    BY <2>1, Division
<1> HIDE DEF page_of
<1>3. PAGE * (a \div PAGE) \in Nat
  BY <1>2, Numbers
<1> DEFINE x == PAGE * (a \div PAGE)
           y == a % PAGE
<1>4. x \in Nat /\ y \in Nat /\ a = x + y /\ y < PAGE
  BY <1>2, <1>3
<1> HIDE DEF x, y
<1>5. x <= a /\ a < x + PAGE /\ (y = 0 => x = a)
  BY <1>4, Numbers
<1> QED
  BY <1>1, <1>2, <1>5 DEF x, y

\* Pages follow the order of addresses.
LEMMA PagesOrdered ==
  ASSUME NEW a \in Nat, NEW b \in Nat, a <= b, b < W
  PROVE  page_of(a) <= page_of(b)
<1>1. /\ page_of(a) \in Nat /\ PAGE * page_of(a) <= a
      /\ page_of(b) \in Nat /\ b < PAGE * page_of(b) + PAGE
  BY PageNumber, Numbers
<1> DEFINE x == page_of(a)
           y == page_of(b)
<1> HIDE DEF x, y
<1>2. x \in Nat /\ y \in Nat /\ PAGE * x <= a /\ b < PAGE * y + PAGE
  BY <1>1 DEF x, y
<1>3. PAGE * (y + 1) = PAGE * y + PAGE /\ (PAGE * x < PAGE * (y + 1) <=> x < y + 1)
  BY <1>2, Numbers, Products
<1>4. PAGE * x \in Nat /\ PAGE * y \in Nat
  BY <1>2, Numbers
<1>5. PAGE * x < PAGE * (y + 1)
  <2> DEFINE u == PAGE * x
             v == PAGE * y
  <2> HIDE DEF u, v
  <2>1. u \in Nat /\ v \in Nat /\ u <= a /\ b < v + PAGE /\ PAGE * (y + 1) = v + PAGE
    BY <1>2, <1>3, <1>4 DEF u, v
  <2>2. u < v + PAGE
    BY <2>1, Numbers
  <2> QED
    BY <2>1, <2>2 DEF u
<1> QED
  BY <1>2, <1>3, <1>5 DEF x, y

\* The page behind a page
LEMMA NextPage ==
  ASSUME NEW a \in Nat, a + PAGE < W
  PROVE  page_of(a + PAGE) = page_of(a) + 1
<1> DEFINE q == a \div PAGE
           r == a % PAGE
<1>1. q \in Nat /\ r \in Nat /\ a = PAGE * q + r /\ r < PAGE
  BY Numbers, Division
<1>2. PAGE * (q + 1) = PAGE * q + PAGE
  BY <1>1, Numbers, Products
<1>3. page_of(a) = q
  BY PageNumber, Numbers
<1> HIDE DEF q, r
<1>4. a + PAGE = PAGE * (q + 1) + r
  <2> DEFINE u == PAGE * q
  <2>1. u \in Nat
    BY <1>1, Numbers
  <2> HIDE DEF u
  <2>2. a = u + r /\ PAGE * (q + 1) = u + PAGE
    BY <1>1, <1>2 DEF u
  <2> QED
    BY <1>1, <2>1, <2>2, Numbers
<1>5. (a + PAGE) \div PAGE = q + 1
  <2>1. PAGE \in Nat /\ PAGE > 0 /\ a + PAGE \in Nat /\ q + 1 \in Int
    BY <1>1, Numbers
  <2> QED
    BY <1>1, <1>4, <2>1, DivisionUnique
<1>6. page_of(a + PAGE) = (a + PAGE) \div PAGE
  BY PageNumber, Numbers
<1> QED
  BY <1>3, <1>5, <1>6

\* The page in front of a page boundary
LEMMA LastPage ==
  ASSUME NEW a \in Nat, NEW b \in Nat, a < b, b < W, b <= a + PAGE, b % PAGE = 0
  PROVE  page_of(a) = page_of(b) - 1
<1>1. /\ page_of(a) \in Nat /\ PAGE * page_of(a) <= a /\ a < PAGE * page_of(a) + PAGE
      /\ page_of(b) \in Nat /\ PAGE * page_of(b) = b
  <2>1. a < W
    BY Numbers
  <2>2. page_of(a) \in Nat /\ PAGE * page_of(a) <= a /\ a < PAGE * page_of(a) + PAGE
    BY <2>1, PageNumber
  <2>3. page_of(b) \in Nat /\ PAGE * page_of(b) = b
    BY PageNumber
  <2> QED
    BY <2>2, <2>3
<1> DEFINE x == page_of(a)
           y == page_of(b)
           u == PAGE * x
<1> HIDE DEF x, y
<1>2. x \in Nat /\ y \in Nat /\ PAGE * x <= a /\ a < PAGE * x + PAGE /\ PAGE * y = b
  BY <1>1 DEF x, y
<1>3. /\ PAGE * (x + 1) = PAGE * x + PAGE
      /\ PAGE * (x + 2) = PAGE * (x + 1) + PAGE
      /\ PAGE * x < PAGE * y <=> x < y
      /\ PAGE * y < PAGE * (x + 2) <=> y < x + 2
  <2>1. PAGE \in Nat /\ PAGE > 0 /\ x + 1 \in Int /\ x + 2 \in Int /\ (x + 1) + 1 = x + 2
    BY <1>2, Numbers
  <2>2. PAGE * ((x + 1) + 1) = PAGE * (x + 1) + PAGE
    BY <2>1, Products
  <2> QED
    BY <1>2, <2>1, <2>2, Products
<1>4. u \in Nat
  BY <1>2, Numbers
<1> HIDE DEF u
<1>5. PAGE * x = u /\ PAGE * (x + 1) = u + PAGE /\ PAGE * (x + 2) = u + PAGE + PAGE
  BY <1>3 DEF u
<1>6. x < y
  BY <1>2, <1>3, <1>4, <1>5, Numbers
<1>7. y < x + 2
  BY <1>2, <1>3, <1>4, <1>5, Numbers
<1> QED
  BY <1>2, <1>6, <1>7 DEF x, y

\* The pages of the heap, with the one before it
LEMMA PageRange ==
  ASSUME NEW e \in Nat, start_address < e, e < W, e % PAGE = 0,
         NEW a \in Nat, start_address <= a + PAGE, a < e
  PROVE  page_of(a) \in gap_page .. (page_of(e) - 1)
<1> DEFINE lo == start_address - PAGE
           hi == e - 1
<1>1. lo \in Nat /\ hi \in Nat /\ lo <= a /\ a <= hi /\ hi < W /\ a < W
      /\ lo + PAGE = start_address /\ start_address < W
      /\ hi < e /\ e <= hi + PAGE
  BY Numbers
<1> HIDE DEF lo, hi
<1>2. page_of(lo + PAGE) = page_of(lo) + 1
  BY <1>1, NextPage
<1>3. page_of(lo) <= page_of(a) /\ page_of(a) <= page_of(hi)
  BY <1>1, PagesOrdered
<1>4. page_of(hi) = page_of(e) - 1
  BY <1>1, LastPage
<1>5. page_of(lo) \in Nat /\ page_of(a) \in Nat /\ page_of(hi) \in Nat /\ page_of(e) \in Nat
  <2>1. lo < W
    BY <1>1, Numbers
  <2> QED
    BY <1>1, <2>1, PageNumber
<1>6. gap_page = page_of(lo)
  BY <1>1, <1>2, <1>5 DEF gap_page
<1> QED
  BY <1>3, <1>4, <1>5, <1>6

LEMMA MultipleOf ==
  ASSUME NEW a \in Nat, NEW x \in Int, a = PAGE * x
  PROVE  a % PAGE = 0
<1>1. PAGE \in Nat /\ PAGE > 0 /\ 0 \in Nat /\ 0 < PAGE
  BY Numbers
<1>2. a = PAGE * x + 0
  BY <1>1
<1> QED
  BY <1>1, <1>2, DivisionUnique

\* Sums and differences of multiples of PAGE are multiples of PAGE.
LEMMA Multiples ==
  ASSUME NEW a \in Nat, NEW b \in Nat, a % PAGE = 0, b % PAGE = 0
  PROVE  (a + b) % PAGE = 0 /\ (b <= a => (a - b) % PAGE = 0)
<1> DEFINE x == a \div PAGE
           y == b \div PAGE
<1>1. PAGE \in Nat /\ PAGE > 0
  BY Numbers
<1>2. x \in Nat /\ y \in Nat /\ a = PAGE * x + 0 /\ b = PAGE * y + 0
  BY <1>1, Division
<1> HIDE DEF x, y
<1>3. PAGE * (x - y) = PAGE * x - PAGE * y /\ PAGE * (x + y) = PAGE * x + PAGE * y
  BY <1>1, <1>2, Products
<1>4. PAGE * x \in Nat /\ PAGE * y \in Nat
  BY <1>1, <1>2
<1> DEFINE u == x + y
           v == x - y
           c == a + b
           d == a - b
<1>5. c = PAGE * u /\ d = PAGE * v /\ u \in Int /\ v \in Int /\ c \in Nat
  BY <1>2, <1>3, <1>4
<1>6. b <= a => d \in Nat
  OBVIOUS
<1> HIDE DEF u, v, c, d
<1>7. c % PAGE = 0
  BY <1>5, MultipleOf
<1>8. b <= a => d % PAGE = 0
  BY <1>5, <1>6, MultipleOf
<1> QED
  BY <1>7, <1>8 DEF c, d

\* Between two multiples of PAGE there is room for a page.
LEMMA RoomForPage ==
  ASSUME NEW a \in Nat, NEW b \in Nat, a % PAGE = 0, b % PAGE = 0, a < b
  PROVE  a + PAGE <= b
<1> DEFINE x == a \div PAGE
           y == b \div PAGE
<1>1. PAGE \in Nat /\ PAGE > 0
  BY Numbers
<1>2. x \in Nat /\ y \in Nat /\ a = PAGE * x + 0 /\ b = PAGE * y + 0
  BY <1>1, Division
<1> HIDE DEF x, y
<1>3. /\ PAGE * x < PAGE * y <=> x < y
      /\ PAGE * (x + 1) = PAGE * x + PAGE
      /\ PAGE * (x + 1) <= PAGE * y <=> x + 1 <= y
  BY <1>1, <1>2, Products
<1>4. PAGE * x \in Nat /\ PAGE * y \in Nat
  BY <1>1, <1>2
<1>5. x < y
  BY <1>2, <1>3, <1>4
<1>6. PAGE * (x + 1) <= PAGE * y
  BY <1>2, <1>3, <1>5
<1> QED
  BY <1>1, <1>2, <1>3, <1>4, <1>6

\* expand asks for whole pages, and for more than it was asked for.
LEMMA ExpandedLength ==
  ASSUME NEW n \in Nat, n >= PAGE, n + PAGE < W
  PROVE  /\ expanded_length(n) \in Nat /\ expanded_length(n) % PAGE = 0
         /\ n < expanded_length(n) /\ expanded_length(n) <= n + PAGE
<1> DEFINE x == n \div PAGE
           r == n % PAGE
<1>1. PAGE \in Nat /\ PAGE > 0 /\ W \in Nat
  BY Numbers
<1>2. x \in Nat /\ r \in Nat /\ n = PAGE * x + r /\ r < PAGE
  BY <1>1, Division
<1>3. expanded_length(n) = (x * PAGE + PAGE) % W
  BY DEF expanded_length
<1> HIDE DEF x, r
<1>4. PAGE * x \in Nat /\ x * PAGE = PAGE * x /\ PAGE * (x + 1) = PAGE * x + PAGE
  BY <1>1, <1>2, Products
<1> DEFINE u == PAGE * x
<1> HIDE DEF u
<1>5. u \in Nat /\ x * PAGE = u /\ PAGE * (x + 1) = u + PAGE /\ n = u + r
  BY <1>2, <1>4 DEF u
<1>6. u + PAGE < W /\ u + PAGE \in Nat /\ n < u + PAGE /\ u <= n
  BY <1>1, <1>2, <1>5
<1>7. expanded_length(n) = u + PAGE
  BY <1>3, <1>5, <1>6, Mod
<1>8. (u + PAGE) % PAGE = 0
  <2> DEFINE v == u + PAGE
             y == x + 1
  <2>1. v = PAGE * y /\ y \in Int /\ v \in Nat
    BY <1>1, <1>2, <1>5
  <2> HIDE DEF v, y
  <2>2. v % PAGE = 0
    BY <2>1, MultipleOf
  <2> QED
    BY <2>2 DEF v
<1> QED
  BY <1>1, <1>5, <1>6, <1>7, <1>8

-----------------------------------------------------------------------------
(***************************************************************************)
(* Words written together                                                  *)
(***************************************************************************)

LEMMA OverFacts ==
  ASSUME NEW x, NEW y, NEW z, z = over(x, y)
  PROVE  /\ DOMAIN z = DOMAIN x \cup DOMAIN y
         /\ \A a \in DOMAIN z : z[a] = IF a \in DOMAIN x THEN x[a] ELSE y[a]
  BY DEF over

\* The words b are the header at p and the footer at f.
Marked(b, p, hole, n, f) ==
  /\ b[p] = HEAP_MAGIC /\ b[p + 1] = hole /\ b[p + 2] = n
  /\ b[f] = HEAP_MAGIC /\ b[f + 1] = p

LEMMA RegionWords ==
  ASSUME NEW p \in Nat, NEW n \in Nat, n < W, NEW hole,
         NEW f \in Nat, f >= p + 3, f + 1 < W,
         NEW b, b = over(put_footer(f, p), put_header(p, hole, n))
  PROVE  Marked(b, p, hole, n, f)
<1>1. /\ f \in Nat /\ f + 1 < W /\ p + 2 < W /\ n < W /\ f >= p + 3
      /\ p # f /\ p # f + 1 /\ p + 1 # f /\ p + 1 # f + 1 /\ p + 2 # f /\ p + 2 # f + 1
  BY Numbers
<1> DEFINE x == put_footer(f, p)
           y == put_header(p, hole, n)
<1>2. DOMAIN x = {f, f + 1} /\ x[f] = HEAP_MAGIC /\ x[f + 1] = p
  BY <1>1, PutFooter
<1>3. /\ DOMAIN y = {p, p + 1, p + 2}
      /\ y[p] = HEAP_MAGIC /\ y[p + 1] = hole /\ y[p + 2] = n
  <2> HIDE DEF y
  <2>1. y = put_header(p, hole, n)
    BY DEF y
  <2>2. p + 2 < W /\ n < W
    BY <1>1
  <2>3. DOMAIN y = {p, p + 1, p + 2}
    BY <2>1, <2>2, HeaderDomain
  <2>4. y[p] = HEAP_MAGIC /\ y[p + 1] = hole /\ y[p + 2] = n
    BY <2>1, <2>2, PutHeader
  <2> QED
    BY <2>3, <2>4
<1> HIDE DEF x, y
<1>4. b = over(x, y)
  BY DEF x, y
<1>5. /\ DOMAIN b = DOMAIN x \cup DOMAIN y
      /\ \A a \in DOMAIN b : b[a] = IF a \in DOMAIN x THEN x[a] ELSE y[a]
  BY <1>4 DEF over
<1>7. b[f] = HEAP_MAGIC /\ b[f + 1] = p
  BY <1>2, <1>5
<1>8. p \notin DOMAIN x /\ p + 1 \notin DOMAIN x /\ p + 2 \notin DOMAIN x
  BY <1>1, <1>2
<1>9. b[p] = HEAP_MAGIC /\ b[p + 1] = hole /\ b[p + 2] = n
  BY <1>3, <1>5, <1>8
<1> QED
  BY <1>7, <1>9 DEF Marked

\* The addresses of the header at p and the footer at f
marks(p, f) == {p, p + 1, p + 2, f, f + 1}

LEMMA RegionDomain ==
  ASSUME NEW p \in Nat, NEW n \in Nat, n < W, NEW hole,
         NEW f \in Nat, f >= p + 3, f + 1 < W,
         NEW b, b = over(put_footer(f, p), put_header(p, hole, n))
  PROVE  DOMAIN b = marks(p, f)
<1>1. f \in Nat /\ f + 1 < W /\ p + 2 < W /\ n < W
  BY Numbers
<1>2. DOMAIN put_footer(f, p) = {f, f + 1}
  BY <1>1, PutFooter
<1>3. DOMAIN put_header(p, hole, n) = {p, p + 1, p + 2}
  BY <1>1, HeaderDomain
<1>4. DOMAIN b = DOMAIN put_footer(f, p) \cup DOMAIN put_header(p, hole, n)
  BY DEF over
<1> QED
  BY <1>2, <1>3, <1>4 DEF marks

LEMMA SoundRegion ==
  ASSUME NEW m, NEW p \in Nat, NEW n \in Nat, n >= 5, p + n < W, NEW hole, NEW e,
         word(m, p) = HEAP_MAGIC, word(m, p + 1) = hole, word(m, p + 2) = n,
         word(m, p + n - 2) = HEAP_MAGIC, word(m, p + n - 1) = p
  PROVE  Sound(m, p, hole, n, e)
<1>1. p + n - Footer = p + n - 2 /\ (p + n - 2) + 1 = p + n - 1
  BY Numbers
<1>2. magic(m, p) /\ is_hole(m, p) = hole /\ size_of(m, p) = n
  BY DEF magic, is_hole, size_of
<1>3. magic(m, p + n - 2) /\ header_of(m, p + n - 2) = p
  BY <1>1 DEF magic, header_of
<1> QED
  BY <1>1, <1>2, <1>3 DEF Sound

\* The words w were written in three parts, r over b over l, into m, giving m2.
InParts(w, m2, r, b, l, m) ==
  /\ DOMAIN w = DOMAIN r \cup DOMAIN b \cup DOMAIN l
  /\ \A a \in DOMAIN w : w[a] = IF a \in DOMAIN r THEN r[a]
                                ELSE IF a \in DOMAIN b THEN b[a] ELSE l[a]
  /\ \A a \in Nat : a < W =>
       word(m2, a) = IF a \in DOMAIN r THEN r[a]
                     ELSE IF a \in DOMAIN b THEN b[a]
                     ELSE IF a \in DOMAIN l THEN l[a] ELSE word(m, a)

LEMMA Patched ==
  ASSUME NEW r, NEW b, NEW l, NEW m, NEW w, w = over(r, over(b, l)),
         NEW m2, m2 = over(w, m)
  PROVE  InParts(w, m2, r, b, l, m)
<1> DEFINE bl == over(b, l)
<1>1. /\ DOMAIN bl = DOMAIN b \cup DOMAIN l
      /\ \A a \in DOMAIN bl : bl[a] = IF a \in DOMAIN b THEN b[a] ELSE l[a]
  BY DEF over
<1> HIDE DEF bl
<1>2. w = over(r, bl)
  BY DEF bl
<1>3. /\ DOMAIN w = DOMAIN r \cup DOMAIN bl
      /\ \A a \in DOMAIN w : w[a] = IF a \in DOMAIN r THEN r[a] ELSE bl[a]
  BY <1>2 DEF over
<1>4. \A a \in Nat : a < W => word(m2, a) = IF a \in DOMAIN w THEN w[a] ELSE word(m, a)
  BY WordOver
<1>5. DOMAIN w = DOMAIN r \cup DOMAIN b \cup DOMAIN l
  BY <1>1, <1>3
<1>6. \A a \in DOMAIN w : w[a] = IF a \in DOMAIN r THEN r[a]
                                 ELSE IF a \in DOMAIN b THEN b[a] ELSE l[a]
  BY <1>1, <1>3
<1> QED
  BY <1>4, <1>5, <1>6 DEF InParts

-----------------------------------------------------------------------------
(***************************************************************************)
(* The invariant                                                           *)
(***************************************************************************)

Layout == Lay(mem, BlockHeaders, Holes, end_address) /\ Distinct(index)

\* A block has room for what its client asked for, and holds no word of the
\* heap's once it is filled.
Blocks ==
  \A p \in DOMAIN live :
    /\ p \in Nat /\ live[p].size \in Sizes \cup AlignedSizes \cup {PAGE}
    /\ live[p].size + Overhead <= size_of(mem, p - Header)
    /\ live[p].written => Payload(p, live[p].size) \cap DOMAIN mem = {}

Memory ==
  /\ DOMAIN mem \subseteq start_address .. (end_address - 1)
  /\ \A a \in DOMAIN mem : mem[a] \in {HEAP_MAGIC} \cup 0 .. (W - 1)
  /\ index \in Seq(Nat)
  /\ end_address \in initial_end .. max_address /\ end_address % PAGE = 0
  /\ gap_page .. (page_of(end_address) - 1) \subseteq mapped
  /\ mapped \subseteq 0 .. (W \div PAGE)

\* Tables that the rest of the loop of expand asks for
Needed(c) ==
  { table_of(g) : g \in page_of(start_address + c.it)
                        .. page_of(start_address + c.new_size - 1) } \ tables

\* A page table can be had from a hole, and the tail stays on top.
TableReady ==
  LET it == find_smallest_hole(PAGE + Overhead, TRUE)
      c == carve(it, PAGE, TRUE)
  IN /\ it # 0 /\ AlignIsSafe(index[it], PAGE)
     /\ TailOnTop(over(c.words, mem), c.index)

\* The record of an activation of alloc
Call ==
  [size : Nat, align : BOOLEAN, pc : {"find", "expand"}, it : Nat, new_size : Nat,
   old_len : Nat, old_end_addr : Nat]

\* A call of alloc in the loop of expand
Expanding(c) ==
  /\ c \in Call /\ c.pc = "expand" /\ c.align = FALSE /\ c.size \in Sizes
  /\ c.old_len = heap_length /\ c.old_end_addr = end_address
  /\ c.new_size = expanded_length(heap_length + c.size + Overhead)
  /\ start_address + c.new_size <= max_address
  /\ c.it \in heap_length .. c.new_size /\ c.it % PAGE = 0
  /\ gap_page .. (page_of(start_address + c.it) - 1) \subseteq mapped
  /\ \/ Needed(c) = {} /\ TailOnTop(mem, index)
     \/ (\E t : Needed(c) = {t}) /\ TableReady

\* A call of alloc that looks for a hole
Asked(c) ==
  /\ c \in Call /\ c.pc = "find" /\ c.align \in BOOLEAN
  /\ c.size \in IF c.align THEN AlignedSizes ELSE Sizes
  /\ AllocIsSafe(c.size, c.align)

\* At most the call of a client, and the one that get_page makes.  A kernel
\* that has stopped is still in the call it stopped in.
Calls ==
  \/ calls = << >>
  \/ status = "out_of_memory" /\ Len(calls) = 1
  \/ \E c : calls = << c >> /\ (Asked(c) \/ Expanding(c))
  \/ \E c : /\ calls = << c, new_call(PAGE, TRUE) >>
            /\ Expanding(c) /\ c.it < c.new_size
            /\ table_of(page_of(start_address + c.it)) \notin tables

IInv == Layout /\ Blocks /\ Memory /\ Calls /\ status \in {"ok", "out_of_memory"}

-----------------------------------------------------------------------------
(***************************************************************************)
(* alloc splits a hole                                                     *)
(***************************************************************************)

\* The result c of carve makes a block of at least size words out of hole h
\* and leaves a heap that is laid out.
Carved(c, h, size) ==
  /\ h \in Holes
  /\ DOMAIN c.words \subseteq h .. (h + size_of(mem, h) - 1)
  /\ \A a \in DOMAIN c.words : c.words[a] \in {HEAP_MAGIC} \cup 0 .. (W - 1)
  /\ c.index \in Seq(Nat) /\ Distinct(c.index)
  /\ c.addr \in Nat /\ c.addr - 3 \in Nat /\ c.addr - 3 \notin BlockHeaders
  /\ Lay(over(c.words, mem), BlockHeaders \cup {c.addr - 3}, ToSet(c.index), end_address)
  /\ size + 5 <= size_of(over(c.words, mem), c.addr - 3)

LEMMA HoleFacts ==
  ASSUME Layout, Memory, NEW it \in 1 .. Len(index), NEW h, h = index[it],
         NEW n, n = size_of(mem, h)
  PROVE  /\ h \in Holes /\ h \in Nat /\ n \in Nat /\ n >= 5 /\ h + n <= end_address
         /\ start_address <= h /\ end_address \in Nat /\ end_address <= max_address
         /\ end_address < W /\ index \in Seq(Nat) /\ Distinct(index)
<1>1. index \in Seq(Nat) /\ end_address \in initial_end .. max_address
  BY DEF Memory
<1>2. h \in Holes
  BY <1>1, Elements DEF Holes
<1>3. Lay(mem, BlockHeaders, Holes, end_address) /\ Distinct(index)
  BY DEF Layout
<1>4. h \in Nat /\ start_address <= h /\ n \in Nat /\ n >= 5 /\ h + n <= end_address
  BY <1>2, <1>3, LayFacts
<1>5. end_address \in Nat /\ end_address <= max_address /\ end_address < W
  BY <1>1, Numbers
<1> QED
  BY <1>1, <1>2, <1>3, <1>4, <1>5

\* The result of carve for a block whose header is at p
carving(w, idx, p) == [words |-> w, index |-> idx, addr |-> p + 3]

\* The words and the index after a hole of s words at p gave its first n words
\* to a block
plain_words(p, s, n) ==
  over(IF s - n > 0 THEN over(put_footer(p + s - 2, p + n), put_header(p + n, 1, s - n))
       ELSE nothing,
       over(over(put_footer(p + n - 2, p), put_header(p, 0, n)), nothing))

plain_index(p, s, n) ==
  IF s - n > 0 THEN insert(over(plain_words(p, s, n), mem), unlink(index, p), p + n)
  ELSE unlink(index, p)

\* The words of the hole that the block takes
taken(s, size) == IF s - (size + 5) < 5 THEN s ELSE size + 5

CarvesPlain(it, size, p, s) ==
  LET n == taken(s, size)
  IN carve(it, size, FALSE) = carving(plain_words(p, s, n), plain_index(p, s, n), p)

LEMMA CarvePlainIs ==
  ASSUME NEW it, NEW size \in Nat,
         index[it] \in Nat, size_of(mem, index[it]) \in Nat,
         size_of(mem, index[it]) >= size + 5,
         end_address \in Nat, end_address < W,
         index[it] + size_of(mem, index[it]) <= end_address
  PROVE  CarvesPlain(it, size, index[it], size_of(mem, index[it]))
<1> DEFINE p0 == index[it]
           s0 == size_of(mem, p0)
           n == taken(s0, size)
<1> HIDE DEF p0, s0
<1>a. /\ p0 \in Nat /\ s0 \in Nat /\ s0 >= size + 5 /\ p0 + s0 <= end_address
      /\ p0 = index[it] /\ s0 = size_of(mem, p0)
      /\ end_address \in Nat /\ end_address < W
  BY DEF p0, s0
<1>b. n \in Nat /\ n = IF s0 - (size + 5) < 5 THEN s0 ELSE size + 5
  BY <1>a DEF taken
<1> HIDE DEF n
<1>c. n >= 5 /\ n <= s0
  BY <1>a, <1>b
<1>1. whole_hole(s0, size + Overhead) <=> s0 - (size + 5) < 5
  <2>1. s0 - (size + Overhead) = s0 - (size + 5) /\ s0 - (size + 5) \in Nat
        /\ s0 - (size + 5) < W
    BY <1>a, <1>b, <1>c, Numbers
  <2>2. (s0 - (size + Overhead)) % W = s0 - (size + 5)
    BY <2>1, Mod
  <2> QED
    BY <2>2, Numbers DEF whole_hole
<1>2. (IF whole_hole(s0, size + Overhead) THEN s0 ELSE size + Overhead) = n
  BY <1>1, <1>a, <1>b, <1>c, Numbers
<1>3. payload_length(size, n) = n - 5
  <2>1. n - 5 \in Nat /\ n - 5 < W /\ n - Overhead = n - 5
    BY <1>a, <1>b, <1>c, Numbers
  <2> QED
    BY <2>1, Mod DEF payload_length
<1>4. (s0 - n) % W = s0 - n
  <2>1. s0 - n \in Nat /\ s0 - n < W
    BY <1>a, <1>b, <1>c, Numbers
  <2> QED
    BY <2>1, Mod
<1>5. p0 + Header + (n - 5) = p0 + n - 2
  BY <1>a, <1>b, Numbers
<1>6. (p0 + Header + (n - 5) + Footer) % W = p0 + n
  <2>1. p0 + n \in Nat /\ p0 + n < W /\ p0 + Header + (n - 5) + Footer = p0 + n
    BY <1>a, <1>b, <1>c, Numbers
  <2> QED
    BY <2>1, Mod
<1>7. (p0 + n + (s0 - n) - Footer) % W = p0 + s0 - 2 /\ p0 + s0 - 2 < end_address
  <2>1. p0 + s0 - 2 \in Nat /\ p0 + s0 - 2 < W /\ p0 + n + (s0 - n) - Footer = p0 + s0 - 2
        /\ p0 + s0 - 2 < end_address
    BY <1>a, <1>b, <1>c, Numbers
  <2> QED
    BY <2>1, Mod
<1>8. (p0 + Header) % W = p0 + 3
  <2>1. p0 + 3 \in Nat /\ p0 + 3 < W /\ p0 + Header = p0 + 3
    BY <1>a, <1>b, <1>c, Numbers
  <2> QED
    BY <2>1, Mod
<1>9. carve(it, size, FALSE) = carving(plain_words(p0, s0, n), plain_index(p0, s0, n), p0)
  BY <1>a, <1>2, <1>3, <1>4, <1>5, <1>6, <1>7, <1>8
     DEF carve, carving, plain_words, plain_index
<1> QED
  BY <1>9 DEF CarvesPlain, n, s0, p0

LEMMA OverWithin ==
  ASSUME NEW w, NEW m, NEW m2, m2 = over(w, m), NEW lo \in Nat, NEW hi \in Nat,
         \A a \in DOMAIN w : lo <= a /\ a < hi
  PROVE  Within(m, m2, lo, hi)
<1>1. ASSUME NEW a \in Nat, a < W, a < lo \/ hi <= a PROVE word(m2, a) = word(m, a)
  <2>1. a \notin DOMAIN w
    BY <1>1
  <2> QED
    BY <1>1, <2>1, WordOver
<1> QED
  BY <1>1 DEF Within

\* A region that was just written
LEMMA WrittenRegion ==
  ASSUME NEW m, NEW p \in Nat, NEW n \in Nat, n >= 5, p + n < W, NEW hole, NEW e,
         NEW b, b = over(put_footer(p + n - 2, p), put_header(p, hole, n)),
         \A a \in DOMAIN b : word(m, a) = b[a]
  PROVE  Sound(m, p, hole, n, e)
<1> DEFINE f == p + n - 2
<1> HIDE DEF f
<1>1. /\ f = p + n - 2 /\ f + 1 = p + n - 1
      /\ f \in Nat /\ f >= p + 3 /\ f + 1 < W /\ n < W
  BY Numbers DEF f
<1>2. b = over(put_footer(f, p), put_header(p, hole, n))
  BY DEF f
<1>3. DOMAIN b = marks(p, f)
  BY <1>1, <1>2, RegionDomain
<1>4. /\ b[p] = HEAP_MAGIC /\ b[p + 1] = hole /\ b[p + 2] = n
      /\ b[f] = HEAP_MAGIC /\ b[f + 1] = p
  <2>1. Marked(b, p, hole, n, f)
    BY <1>1, <1>2, RegionWords
  <2> QED
    BY <2>1 DEF Marked
<1>5. /\ word(m, p) = HEAP_MAGIC /\ word(m, p + 1) = hole /\ word(m, p + 2) = n
      /\ word(m, f) = HEAP_MAGIC /\ word(m, f + 1) = p
  BY <1>3, <1>4 DEF marks
<1>6. word(m, p + n - 2) = HEAP_MAGIC /\ word(m, p + n - 1) = p
  BY <1>1, <1>5
<1> QED
  BY <1>5, <1>6, SoundRegion

\* Where the words of a region lie, and what they are
LEMMA RegionRange ==
  ASSUME NEW p \in Nat, NEW n \in Nat, n >= 5, p + n < W, NEW hole \in {0, 1},
         NEW b, b = over(put_footer(p + n - 2, p), put_header(p, hole, n))
  PROVE  /\ \A a \in DOMAIN b : a \in Nat /\ p <= a /\ a < p + n
         /\ \A a \in DOMAIN b : b[a] \in {HEAP_MAGIC} \cup 0 .. (W - 1)
<1> DEFINE f == p + n - 2
<1> HIDE DEF f
<1>1. f = p + n - 2 /\ f \in Nat /\ f >= p + 3 /\ f + 1 < W /\ n < W
  BY Numbers DEF f
<1>2. b = over(put_footer(f, p), put_header(p, hole, n))
  BY DEF f
<1>3. DOMAIN b = marks(p, f)
  BY <1>1, <1>2, RegionDomain
<1>4. /\ b[p] = HEAP_MAGIC /\ b[p + 1] = hole /\ b[p + 2] = n
      /\ b[f] = HEAP_MAGIC /\ b[f + 1] = p
  <2>1. Marked(b, p, hole, n, f)
    BY <1>1, <1>2, RegionWords
  <2> QED
    BY <2>1 DEF Marked
<1>5. n \in 0 .. (W - 1) /\ p \in 0 .. (W - 1) /\ hole \in 0 .. (W - 1)
  BY Numbers
<1>6. \A a \in DOMAIN b : a \in Nat /\ p <= a /\ a < p + n
  BY <1>1, <1>3 DEF marks
<1>7. \A a \in DOMAIN b : b[a] \in {HEAP_MAGIC} \cup 0 .. (W - 1)
  BY <1>3, <1>4, <1>5 DEF marks
<1> QED
  BY <1>6, <1>7

LEMMA Nothing ==
  DOMAIN nothing = {}
BY DEF nothing

LEMMA CarvedFrom ==
  ASSUME NEW w, NEW idx, NEW p \in Nat, NEW c,
         c = carving(w, idx, p),
         NEW h \in Holes, NEW size, NEW m2, m2 = over(w, mem), NEW n, n = size_of(mem, h),
         DOMAIN w \subseteq h .. (h + n - 1),
         \A a \in DOMAIN w : w[a] \in {HEAP_MAGIC} \cup 0 .. (W - 1),
         idx \in Seq(Nat), Distinct(idx), p \notin BlockHeaders,
         NEW H, ToSet(idx) = H, Lay(m2, BlockHeaders \cup {p}, H, end_address),
         size + 5 <= size_of(m2, p)
  PROVE  Carved(c, h, size)
<1>1. c.words = w /\ c.index = idx /\ c.addr = p + 3
  BY DEF carving
<1>2. c.addr - 3 = p /\ c.addr \in Nat
  BY <1>1
<1> QED
  BY <1>1, <1>2 DEF Carved

\* A hole becomes a block, whole or with a hole left behind it.
LEMMA CarvePlain ==
  ASSUME Layout, Memory, NEW it \in 1 .. Len(index), NEW size \in Nat,
         size_of(mem, index[it]) >= size + 5
  PROVE  Carved(carve(it, size, FALSE), index[it], size)
<1> DEFINE p0 == index[it]
           s0 == size_of(mem, p0)
           n == taken(s0, size)
           b == over(put_footer(p0 + n - 2, p0), put_header(p0, 0, n))
           r == IF s0 - n > 0
                THEN over(put_footer(p0 + s0 - 2, p0 + n), put_header(p0 + n, 1, s0 - n))
                ELSE nothing
           w == over(r, over(b, nothing))
           m2 == over(w, mem)
           c == carve(it, size, FALSE)
           e == end_address
           rest == s0 - n
<1>1. /\ p0 \in Holes /\ p0 \in Nat /\ s0 \in Nat /\ s0 >= 5 /\ p0 + s0 <= e
      /\ start_address <= p0 /\ e \in Nat /\ e < W /\ index \in Seq(Nat)
      /\ Distinct(index) /\ s0 >= size + 5
  BY HoleFacts
<1>2. Lay(mem, BlockHeaders, Holes, e)
  BY DEF Layout
<1> HIDE DEF p0, s0, e
<1>3. /\ n \in Nat /\ n >= 5 /\ n >= size + 5 /\ n <= s0 /\ rest \in Nat
      /\ rest = 0 \/ rest >= 5
  BY <1>1 DEF taken
<1> HIDE DEF n
<1> DEFINE new_index == IF s0 - n > 0 THEN insert(over(w, mem), unlink(index, p0), p0 + n)
                        ELSE unlink(index, p0)
<1>5. c = carving(w, new_index, p0)
  <2>1. /\ p0 = index[it] /\ s0 = size_of(mem, p0)
        /\ end_address \in Nat /\ end_address < W /\ p0 + s0 <= end_address
    BY <1>1 DEF p0, s0, e
  <2>2. c = carving(plain_words(p0, s0, n), plain_index(p0, s0, n), p0)
    <3>1. CarvesPlain(it, size, index[it], size_of(mem, index[it]))
      BY <1>1, <2>1, CarvePlainIs
    <3> QED
      BY <2>1, <3>1 DEF CarvesPlain, n
  <2>3. plain_words(p0, s0, n) = w
    BY DEF plain_words
  <2>4. plain_index(p0, s0, n) = new_index
    BY <2>3 DEF plain_index
  <2> QED
    BY <2>2, <2>3, <2>4
<1>6. unlink(index, p0) \in Seq(Nat) /\ ToSet(unlink(index, p0)) = Holes \ {p0}
      /\ Distinct(unlink(index, p0))
  BY <1>1, UnlinkFacts DEF Holes
<1>7. p0 \notin BlockHeaders
  BY <1>1, <1>2, LayFacts
<1>8. p0 + n < W
  BY <1>1, <1>3, Numbers
<1>9. /\ \A a \in DOMAIN b : a \in Nat /\ p0 <= a /\ a < p0 + n
      /\ \A a \in DOMAIN b : b[a] \in {HEAP_MAGIC} \cup 0 .. (W - 1)
  <2> HIDE DEF b
  <2>1. b = over(put_footer(p0 + n - 2, p0), put_header(p0, 0, n))
    BY DEF b
  <2> QED
    BY <1>1, <1>3, <1>8, <2>1, RegionRange
<1>10. /\ DOMAIN w = DOMAIN r \cup DOMAIN b
       /\ \A a \in DOMAIN w : w[a] = IF a \in DOMAIN r THEN r[a] ELSE b[a]
       /\ \A a \in Nat : a < W =>
            word(m2, a) = IF a \in DOMAIN r THEN r[a]
                          ELSE IF a \in DOMAIN b THEN b[a] ELSE word(mem, a)
  <2> HIDE DEF r, b, w, m2
  <2>1. w = over(r, over(b, nothing)) /\ m2 = over(w, mem)
    BY DEF w, m2
  <2>2. InParts(w, m2, r, b, nothing, mem)
    BY <2>1, Patched
  <2> QED
    BY <2>2, Nothing DEF InParts
<1> HIDE DEF b, w, m2
<1>11. m2 = over(w, mem) /\ b = over(put_footer(p0 + n - 2, p0), put_header(p0, 0, n))
  BY DEF m2, b
<1> HIDE DEF c
<1>12. ASSUME \A a \in DOMAIN w : a \in Nat /\ p0 <= a /\ a < p0 + s0
       PROVE  Within(mem, m2, p0, p0 + s0)
  <2>1. p0 + s0 \in Nat
    BY <1>1
  <2> QED
    BY <1>1, <1>11, <1>12, <2>1, OverWithin
<1>13. CASE rest = 0
  <2>1. n = s0 /\ ~ (rest > 0) /\ r = nothing
    BY <1>1, <1>3, <1>13
  <2> HIDE DEF r
  <2>2. DOMAIN w = DOMAIN b /\ DOMAIN r = {}
    BY <1>10, <2>1, Nothing
  <2>3. \A a \in DOMAIN b : word(m2, a) = b[a]
    <3>1. \A a \in DOMAIN b : a \in Nat /\ a < W
      BY <1>1, <1>3, <1>8, <1>9, Numbers
    <3> QED
      BY <1>10, <2>2, <3>1
  <2>4. Sound(m2, p0, 0, n, e)
    BY <1>1, <1>3, <1>8, <1>11, <2>3, WrittenRegion
  <2>5. Within(mem, m2, p0, p0 + s0)
    BY <1>9, <1>12, <2>1, <2>2
  <2>6. Lay(m2, BlockHeaders \cup {p0}, Holes \ {p0}, e)
    BY <1>1, <1>2, <2>1, <2>4, <2>5, LayWhole DEF s0
  <2>7. size_of(m2, p0) = n
    BY <2>4 DEF Sound
  <2>8. c = carving(w, unlink(index, p0), p0)
    BY <1>5, <2>1
  <2>10. \A a \in DOMAIN w : w[a] \in {HEAP_MAGIC} \cup 0 .. (W - 1)
    BY <1>9, <1>10, <2>2
  <2>11. DOMAIN w \subseteq p0 .. (p0 + s0 - 1)
    BY <1>1, <1>9, <2>1, <2>2
  <2>13. s0 = size_of(mem, p0) /\ Lay(m2, BlockHeaders \cup {p0}, Holes \ {p0}, end_address)
    BY <2>6 DEF s0, e
  <2>14. size + 5 <= size_of(m2, p0)
    BY <1>1, <1>3, <2>7
  <2> HIDE DEF c
  <2>12. Carved(c, p0, size)
    BY <1>1, <1>6, <1>7, <1>11, <2>8, <2>10, <2>11, <2>13, <2>14, CarvedFrom
  <2> QED
    BY <2>12 DEF c, p0
<1>14. CASE rest >= 5
  <2> DEFINE q == p0 + n
             f == p0 + s0 - 2
  <2>1. r = over(put_footer(f, q), put_header(q, 1, rest)) /\ rest > 0
    BY <1>1, <1>3, <1>14
  <2>2. q \in Nat /\ q + rest = p0 + s0 /\ f = q + rest - 2 /\ q + rest < W
        /\ s0 = n + rest /\ p0 <= q
    BY <1>1, <1>3, Numbers
  <2> HIDE DEF r, q, f, rest
  <2>3. r = over(put_footer(q + rest - 2, q), put_header(q, 1, rest))
    BY <2>1, <2>2
  <2>4. /\ \A a \in DOMAIN r : a \in Nat /\ q <= a /\ a < q + rest
        /\ \A a \in DOMAIN r : r[a] \in {HEAP_MAGIC} \cup 0 .. (W - 1)
    BY <1>3, <1>14, <2>2, <2>3, RegionRange
  <2>5. \A a \in DOMAIN r : word(m2, a) = r[a]
    <3>1. \A a \in DOMAIN r : a \in Nat /\ a < W
      BY <1>3, <2>2, <2>4, Numbers
    <3> QED
      BY <1>10, <3>1
  <2>6. \A a \in DOMAIN b : word(m2, a) = b[a]
    <3>1. \A a \in DOMAIN b : a \in Nat /\ a < W
      BY <1>1, <1>3, <1>8, <1>9, Numbers
    <3>2. \A a \in DOMAIN b : a \notin DOMAIN r
      BY <1>9, <2>4, <1>1, <1>3 DEF q
    <3> QED
      BY <1>10, <3>1, <3>2
  <2>7. Sound(m2, p0, 0, n, e)
    BY <1>1, <1>3, <1>8, <1>11, <2>6, WrittenRegion
  <2>8. Sound(m2, q, 1, rest, e)
    BY <1>3, <1>14, <2>2, <2>3, <2>5, WrittenRegion
  <2>9. \A a \in DOMAIN w : a \in Nat /\ p0 <= a /\ a < p0 + s0
    BY <1>1, <1>3, <1>9, <1>10, <2>2, <2>4
  <2>10. Within(mem, m2, p0, p0 + s0)
    BY <1>12, <2>9
  <2>11. q \notin BlockHeaders \cup Holes
         /\ Lay(m2, BlockHeaders \cup {p0}, (Holes \ {p0}) \cup {q}, e)
    <3>1. Sound(m2, p0 + n, 1, rest, e)
      BY <2>8 DEF q
    <3>2. size_of(mem, p0) = n + rest /\ Within(mem, m2, p0, p0 + size_of(mem, p0))
      BY <2>2, <2>10 DEF s0
    <3>3. p0 + n \notin BlockHeaders \cup Holes
          /\ Lay(m2, BlockHeaders \cup {p0}, (Holes \ {p0}) \cup {p0 + n}, e)
      BY <1>1, <1>2, <1>3, <1>14, <2>7, <3>1, <3>2, LayFront
    <3> QED
      BY <3>3 DEF q
  <2>12. size_of(m2, p0) = n
    BY <2>7 DEF Sound
  <2> DEFINE idx == insert(m2, unlink(index, p0), q)
  <2>13. idx \in Seq(Nat) /\ ToSet(idx) = (Holes \ {p0}) \cup {q} /\ Distinct(idx)
    BY <1>6, <2>2, <2>11, InsertFacts
  <2>14. c = carving(w, idx, p0)
    BY <1>5, <2>1 DEF q, m2, rest
  <2>16. \A a \in DOMAIN w : w[a] \in {HEAP_MAGIC} \cup 0 .. (W - 1)
    BY <1>9, <1>10, <2>4
  <2>17. DOMAIN w \subseteq p0 .. (p0 + s0 - 1)
    BY <1>1, <2>9
  <2>15. /\ s0 = size_of(mem, p0)
         /\ Lay(m2, BlockHeaders \cup {p0}, (Holes \ {p0}) \cup {q}, end_address)
    BY <2>11 DEF s0, e
  <2>19. size + 5 <= size_of(m2, p0)
    BY <1>1, <1>3, <2>12
  <2> HIDE DEF c, idx
  <2>18. Carved(c, p0, size)
    BY <1>1, <1>7, <1>11, <2>13, <2>14, <2>15, <2>16, <2>17, <2>19, CarvedFrom
  <2> QED
    BY <2>18 DEF c, p0
<1> QED
  BY <1>3, <1>13, <1>14

\* The hole that is left before an aligned block: its footer is a word too
\* low, so that the two words before the block do not look like one.
LEMMA WrittenLead ==
  ASSUME NEW m, NEW p \in Nat, NEW n \in Nat, n >= 6, p + n < W, NEW e,
         NEW b, b = over(put_footer(p + n - 3, p), put_header(p, 1, n)),
         \A a \in DOMAIN b : word(m, a) = b[a]
  PROVE  Sound(m, p, 1, n, e)
<1> DEFINE f == p + n - 3
<1> HIDE DEF f
<1>1. f = p + n - 3 /\ f + 1 = p + n - 2 /\ f \in Nat /\ f >= p + 3 /\ f + 1 < W /\ n < W
  BY Numbers DEF f
<1>2. b = over(put_footer(f, p), put_header(p, 1, n))
  BY DEF f
<1>3. DOMAIN b = marks(p, f)
  BY <1>1, <1>2, RegionDomain
<1>4. b[p] = HEAP_MAGIC /\ b[p + 1] = 1 /\ b[p + 2] = n /\ b[f + 1] = p
  <2>1. Marked(b, p, 1, n, f)
    BY <1>1, <1>2, RegionWords
  <2> QED
    BY <2>1 DEF Marked
<1>5. word(m, p) = HEAP_MAGIC /\ word(m, p + 1) = 1 /\ word(m, p + 2) = n
      /\ word(m, f + 1) = p
  BY <1>3, <1>4 DEF marks
<1>6. ~ magic(m, p + n - Footer)
  <2>1. p + n - Footer = f + 1 /\ p # HEAP_MAGIC
    BY <1>1, Numbers
  <2> QED
    BY <1>5, <2>1 DEF magic
<1>7. magic(m, p) /\ is_hole(m, p) = 1 /\ size_of(m, p) = n
  BY <1>5 DEF magic, is_hole, size_of
<1> QED
  BY <1>6, <1>7 DEF Sound

LEMMA LeadRange ==
  ASSUME NEW p \in Nat, NEW n \in Nat, n >= 6, p + n < W,
         NEW b, b = over(put_footer(p + n - 3, p), put_header(p, 1, n))
  PROVE  /\ \A a \in DOMAIN b : a \in Nat /\ p <= a /\ a < p + n
         /\ \A a \in DOMAIN b : b[a] \in {HEAP_MAGIC} \cup 0 .. (W - 1)
<1> DEFINE f == p + n - 3
<1> HIDE DEF f
<1>1. f = p + n - 3 /\ f \in Nat /\ f >= p + 3 /\ f + 1 < W /\ n < W
  BY Numbers DEF f
<1>2. b = over(put_footer(f, p), put_header(p, 1, n))
  BY DEF f
<1>3. DOMAIN b = marks(p, f)
  BY <1>1, <1>2, RegionDomain
<1>4. /\ b[p] = HEAP_MAGIC /\ b[p + 1] = 1 /\ b[p + 2] = n
      /\ b[f] = HEAP_MAGIC /\ b[f + 1] = p
  <2>1. Marked(b, p, 1, n, f)
    BY <1>1, <1>2, RegionWords
  <2> QED
    BY <2>1 DEF Marked
<1>5. n \in 0 .. (W - 1) /\ p \in 0 .. (W - 1) /\ 1 \in 0 .. (W - 1)
  BY Numbers
<1>6. \A a \in DOMAIN b : a \in Nat /\ p <= a /\ a < p + n
  BY <1>1, <1>3 DEF marks
<1>7. \A a \in DOMAIN b : b[a] \in {HEAP_MAGIC} \cup 0 .. (W - 1)
  BY <1>3, <1>4, <1>5 DEF marks
<1> QED
  BY <1>6, <1>7

\* The words and the index after a block of n words was made in a hole of s
\* words at p, with a hole of l words left before it
aligned_words(p, s, l, n) ==
  over(IF s - l - n > 0
       THEN over(put_footer(p + s - 2, p + l + n), put_header(p + l + n, 1, s - l - n))
       ELSE nothing,
       over(over(put_footer(p + l + n - 2, p + l), put_header(p + l, 0, n)),
            over(put_footer(p + l - 3, p), put_header(p, 1, l))))

aligned_index(p, s, l, n) ==
  IF s - l - n > 0 THEN insert(over(aligned_words(p, s, l, n), mem), index, p + l + n)
  ELSE index

lead_of(h) == PAGE - (h % PAGE) - 3

CarvesAligned(it, size, p, s) ==
  LET l == lead_of(p)
  IN carve(it, size, TRUE) =
       carving(aligned_words(p, s, l, size + 5), aligned_index(p, s, l, size + 5), p + l)

\* alloc reads the size of the hole in front again after it wrote the footer
\* of that hole, which does not reach the size.
LEMMA LeadSizeKept ==
  ASSUME NEW p \in Nat, NEW l \in Nat, l >= 6, p + l < W, NEW m
  PROVE  size_of(over(over(put_footer(p + l - 3, p), put_header(p, 1, l)), m), p) = l
<1>1. /\ p + l - 3 \in Nat /\ p + l - 3 + 1 < W /\ p + 2 \in Nat /\ p + 2 < W /\ l < W
      /\ p + 2 # p + l - 3 /\ p + 2 # p + l - 3 + 1
  BY Numbers
<1>2. PICK f : f = p + l - 3
  OBVIOUS
<1>3. PICK x : x = put_footer(f, p)
  OBVIOUS
<1>4. PICK y : y = put_header(p, 1, l)
  OBVIOUS
<1>5. DOMAIN x = {f, f + 1}
  BY <1>1, <1>2, <1>3, PutFooter
<1>6. DOMAIN y = {p, p + 1, p + 2}
  BY <1>1, <1>4, HeaderDomain
<1>7. y[p + 2] = l
  BY <1>1, <1>4, PutHeader
<1>8. PICK z : z = over(x, y)
  OBVIOUS
<1>9. p + 2 \in DOMAIN z /\ z[p + 2] = l
  <2>1. p + 2 \in DOMAIN y /\ p + 2 \notin DOMAIN x
    BY <1>1, <1>2, <1>5, <1>6
  <2>2. DOMAIN z = DOMAIN x \cup DOMAIN y
    BY <1>8 DEF over
  <2>3. \A a \in DOMAIN z : z[a] = IF a \in DOMAIN x THEN x[a] ELSE y[a]
    BY <1>8, Zenon DEF over
  <2>4. p + 2 \in DOMAIN z
    BY <2>1, <2>2
  <2> QED
    BY <1>7, <2>1, <2>3, <2>4, Zenon
<1>10. word(over(z, m), p + 2) = l
  BY <1>1, <1>9, WordOver
<1> QED
  BY <1>2, <1>3, <1>4, <1>8, <1>10 DEF size_of

LEMMA CarveAlignedIs ==
  ASSUME NEW it, NEW size \in Nat,
         index[it] \in Nat, size_of(mem, index[it]) \in Nat,
         start_address <= index[it], AlignIsSafe(index[it], size),
         end_address \in Nat, end_address < W,
         index[it] + size_of(mem, index[it]) <= end_address
  PROVE  CarvesAligned(it, size, index[it], size_of(mem, index[it]))
<1> DEFINE p0 == index[it]
           s0 == size_of(mem, p0)
           l == lead_of(p0)
           n == size + 5
<1> HIDE DEF p0, s0
<1>a. /\ p0 \in Nat /\ s0 \in Nat /\ p0 + s0 <= end_address
      /\ p0 = index[it] /\ s0 = size_of(mem, p0) /\ start_address <= p0
      /\ end_address \in Nat /\ end_address < W /\ AlignIsSafe(p0, size)
  BY DEF p0, s0
<1>b. p0 % PAGE \in Nat /\ PAGE - (p0 % PAGE) - Header = l /\ l \in Int
  <2>1. p0 % PAGE \in Nat
    BY <1>a, Numbers, Division
  <2> QED
    BY <2>1, Numbers DEF lead_of
<1>c. l >= 6 /\ (s0 - l - n = 0 \/ s0 - l - n >= 5)
  <2>1. /\ PAGE - (p0 % PAGE) - Header >= 2 * Header
        /\ \/ s0 - (PAGE - (p0 % PAGE) - Header) - size - Overhead = 0
           \/ s0 - (PAGE - (p0 % PAGE) - Header) - size - Overhead >= Overhead
    BY <1>a DEF AlignIsSafe
  <2> HIDE DEF l
  <2>2. s0 - l - size - Overhead = s0 - l - n
    BY <1>a, <1>b, Numbers
  <2> QED
    BY <1>a, <1>b, <2>1, <2>2, Numbers
<1> HIDE DEF l, n
<1>d. n \in Nat /\ n >= 5 /\ n = size + 5 /\ l \in Nat
  BY <1>b, <1>c DEF n
<1>e. p0 >= PAGE /\ l + n <= s0 /\ p0 + l + n <= end_address
  BY <1>a, <1>c, <1>d, Numbers
<1>1. ~ whole_hole(s0, size + Overhead)
  <2>1. s0 - (size + Overhead) = s0 - n /\ s0 - n \in Nat /\ s0 - n < W /\ s0 - n >= 6
    BY <1>a, <1>c, <1>d, <1>e, Numbers
  <2>2. (s0 - (size + Overhead)) % W = s0 - n
    BY <2>1, Mod
  <2> QED
    BY <2>1, <2>2, Numbers DEF whole_hole
<1>2. size + Overhead = n
  BY <1>d, Numbers
<1>3. payload_length(size, n) = n - 5
  <2>1. n - 5 \in Nat /\ n - 5 < W /\ n - Overhead = n - 5
    BY <1>a, <1>d, <1>e, Numbers
  <2> QED
    BY <2>1, Mod DEF payload_length
<1>4. (PAGE - (p0 % PAGE) - Header) % W = l
  <2>1. l < W
    BY <1>a, <1>d, <1>e, Numbers
  <2> QED
    BY <1>b, <1>d, <2>1, Mod
<1>5. (p0 + l) % W = p0 + l /\ (s0 - l) % W = s0 - l /\ (s0 - l - n) % W = s0 - l - n
  <2>1. /\ p0 + l \in Nat /\ p0 + l < W /\ s0 - l \in Nat /\ s0 - l < W
        /\ s0 - l - n \in Nat /\ s0 - l - n < W
    BY <1>a, <1>d, <1>e, Numbers
  <2> QED
    BY <2>1, Mod
<1>6. p0 + l - Header = p0 + l - 3 /\ p0 + l + Header + (n - 5) = p0 + l + n - 2
  BY <1>a, <1>d, Numbers
<1>7. (p0 + l + Header + (n - 5) + Footer) % W = p0 + l + n
  <2>1. /\ p0 + l + n \in Nat /\ p0 + l + n < W
        /\ p0 + l + Header + (n - 5) + Footer = p0 + l + n
    BY <1>a, <1>d, <1>e, Numbers
  <2> QED
    BY <2>1, Mod
<1>8. (p0 + l + n + (s0 - l - n) - Footer) % W = p0 + s0 - 2 /\ p0 + s0 - 2 < end_address
  <2>1. p0 + s0 - 2 \in Nat /\ p0 + s0 - 2 < W /\ p0 + s0 - 2 < end_address
        /\ p0 + l + n + (s0 - l - n) - Footer = p0 + s0 - 2
    BY <1>a, <1>d, <1>e, Numbers
  <2> QED
    BY <2>1, Mod
<1>9. (p0 + l + Header) % W = p0 + l + 3
  <2>1. p0 + l + 3 \in Nat /\ p0 + l + 3 < W /\ p0 + l + Header = p0 + l + 3
    BY <1>a, <1>d, <1>e, Numbers
  <2> QED
    BY <2>1, Mod
<1> DEFINE P == p0 + l
           S == s0 - l
           R == S - n
           F == P + n - 2
           Q == P + n
           Z == p0 + s0 - 2
           words == over(IF R > 0 THEN over(put_footer(Z, Q), put_header(Q, 1, R))
                         ELSE nothing,
                         over(over(put_footer(F, P), put_header(P, 0, n)),
                              over(put_footer(P - 3, p0), put_header(p0, 1, l))))
<1>10. /\ (p0 + l) % W = P /\ (s0 - l) % W = S /\ (S - n) % W = R
       /\ P - Header = P - 3 /\ P + Header + (n - 5) = F /\ (F + Footer) % W = Q
       /\ (Q + R - Footer) % W = Z /\ Z < end_address /\ (P + Header) % W = P + 3
  <2>1. P \in Nat /\ S \in Nat /\ R \in Nat /\ F \in Nat /\ Q \in Nat /\ Z \in Nat
    BY <1>a, <1>d, <1>e
  <2>2. F + Footer = Q /\ Q + R - Footer = Z /\ P + Header = P + 3
        /\ P - Header = P - 3 /\ P + Header + (n - 5) = F
    BY <1>a, <1>d, <1>e, Numbers
  <2>3. Q < W /\ Z < W /\ P + 3 < W /\ Z < end_address /\ R < W
    BY <1>a, <1>d, <1>e, Numbers
  <2>4. P + 3 \in Nat
    BY <2>1
  <2>5. (F + Footer) % W = Q /\ (Q + R - Footer) % W = Z /\ (P + Header) % W = P + 3
    <3> HIDE DEF P, S, R, F, Q, Z
    <3> QED
      BY <2>1, <2>2, <2>3, <2>4, Mod
  <2>6. (S - n) % W = R
    BY <1>5
  <2> QED
    BY <1>5, <2>2, <2>3, <2>5, <2>6
<1> HIDE DEF P, S, R, F, Q, Z
<1>r. size_of(over(over(put_footer(P - 3, p0), put_header(p0, 1, l)), mem), p0) = l
  <2>1. P - 3 = p0 + l - 3 /\ p0 + l < W
    BY <1>a, <1>d, <1>e, Numbers DEF P
  <2>2. p0 \in Nat /\ l \in Nat /\ l >= 6
    BY <1>a, <1>c, <1>d
  <2>3. size_of(over(over(put_footer(p0 + l - 3, p0), put_header(p0, 1, l)), mem), p0) = l
    BY <2>1, <2>2, LeadSizeKept, Zenon
  <2> QED
    BY <2>1, <2>3, Zenon
<1>11. carve(it, size, TRUE) =
         [words |-> words,
          index |-> IF R > 0 THEN insert(over(words, mem), index, Q) ELSE index,
          addr |-> P + 3]
  BY <1>a, <1>e, <1>1, <1>2, <1>3, <1>4, <1>10, <1>r DEF carve
<1>12. words = aligned_words(p0, s0, l, n)
  <2>1. P - 3 = p0 + l - 3
    BY <1>a, <1>d DEF P
  <2>2. words = over(IF R > 0 THEN over(put_footer(Z, Q), put_header(Q, 1, R)) ELSE nothing,
                     over(over(put_footer(F, P), put_header(P, 0, n)),
                          over(put_footer(p0 + l - 3, p0), put_header(p0, 1, l))))
    BY <2>1
  <2> QED
    BY <2>2, Zenon DEF aligned_words, P, S, R, F, Q, Z
<1>13. carve(it, size, TRUE) =
         carving(aligned_words(p0, s0, l, n), aligned_index(p0, s0, l, n), p0 + l)
  BY <1>11, <1>12 DEF carving, aligned_index, P, S, R, Q
<1> QED
  BY <1>13 DEF CarvesAligned, l, n, s0, p0

\* The first words of a hole stay a hole, and a block follows that begins on a
\* page boundary.
LEMMA CarveAligned ==
  ASSUME Layout, Memory, NEW it \in 1 .. Len(index), NEW size \in Nat,
         AlignIsSafe(index[it], size)
  PROVE  Carved(carve(it, size, TRUE), index[it], size)
<1> DEFINE p0 == index[it]
           s0 == size_of(mem, p0)
           l == lead_of(p0)
           n == size + 5
           q == p0 + l
           rest == s0 - l - n
           ld == over(put_footer(p0 + l - 3, p0), put_header(p0, 1, l))
           b == over(put_footer(q + n - 2, q), put_header(q, 0, n))
           r == IF rest > 0
                THEN over(put_footer(p0 + s0 - 2, q + n), put_header(q + n, 1, rest))
                ELSE nothing
           w == over(r, over(b, ld))
           m2 == over(w, mem)
           c == carve(it, size, TRUE)
           e == end_address
           new_index == IF rest > 0 THEN insert(m2, index, q + n) ELSE index
<1>1. /\ p0 \in Holes /\ p0 \in Nat /\ s0 \in Nat /\ s0 >= 5 /\ p0 + s0 <= e
      /\ start_address <= p0 /\ e \in Nat /\ e < W /\ index \in Seq(Nat)
      /\ Distinct(index)
  BY HoleFacts
<1>2. Lay(mem, BlockHeaders, Holes, e)
  BY DEF Layout
<1>3. c = carving(w, new_index, q)
  <2> HIDE DEF p0, s0
  <2>1. /\ index[it] = p0 /\ size_of(mem, index[it]) = s0
        /\ end_address \in Nat /\ end_address < W
    BY <1>1 DEF p0, s0
  <2>2. CarvesAligned(it, size, p0, s0)
    BY <1>1, <2>1, CarveAlignedIs
  <2>3. c = carving(aligned_words(p0, s0, l, n), aligned_index(p0, s0, l, n), p0 + l)
    BY <2>2 DEF CarvesAligned
  <2>4. aligned_words(p0, s0, l, n) = w
    BY DEF aligned_words
  <2>5. aligned_index(p0, s0, l, n) = new_index
    BY <2>4 DEF aligned_index
  <2> QED
    BY <2>3, <2>4, <2>5
<1>4. /\ l \in Nat /\ l >= 6 /\ n \in Nat /\ n >= 5 /\ n = size + 5
      /\ rest \in Nat /\ (rest = 0 \/ rest >= 5)
  <2> HIDE DEF p0, s0
  <2>1. p0 % PAGE \in Nat
    BY <1>1, Numbers, Division
  <2>2. PAGE - (p0 % PAGE) - Header = l /\ l \in Int
    BY <2>1, Numbers DEF lead_of
  <2>3. AlignIsSafe(p0, size)
    BY DEF p0
  <2>4. /\ PAGE - (p0 % PAGE) - Header >= 2 * Header
        /\ \/ s0 - (PAGE - (p0 % PAGE) - Header) - size - Overhead = 0
           \/ s0 - (PAGE - (p0 % PAGE) - Header) - size - Overhead >= Overhead
    BY <2>3 DEF AlignIsSafe, s0
  <2> HIDE DEF l
  <2>5. s0 - l - size - Overhead = s0 - l - n
    BY <1>1, <2>2, Numbers
  <2> QED
    BY <1>1, <2>2, <2>4, <2>5, Numbers
<1> HIDE DEF p0, s0, e, l, n, c
<1>5. /\ q \in Nat /\ q = p0 + l /\ q + n \in Nat /\ q + n + rest = p0 + s0
      /\ p0 + l < W /\ q + n < W /\ q + n + rest < W
      /\ s0 = l + n + rest /\ p0 + s0 \in Nat
  BY <1>1, <1>4, Numbers
<1>6. p0 + s0 - 2 = q + n + rest - 2
  BY <1>1, <1>4
<1> HIDE DEF q, rest
<1>7. /\ \A a \in DOMAIN ld : a \in Nat /\ p0 <= a /\ a < q
      /\ \A a \in DOMAIN ld : ld[a] \in {HEAP_MAGIC} \cup 0 .. (W - 1)
  <2> HIDE DEF ld
  <2>1. ld = over(put_footer(p0 + l - 3, p0), put_header(p0, 1, l))
    BY DEF ld
  <2>2. /\ \A a \in DOMAIN ld : a \in Nat /\ p0 <= a /\ a < p0 + l
        /\ \A a \in DOMAIN ld : ld[a] \in {HEAP_MAGIC} \cup 0 .. (W - 1)
    BY <1>1, <1>4, <1>5, <2>1, LeadRange
  <2> QED
    BY <1>5, <2>2
<1>8. /\ \A a \in DOMAIN b : a \in Nat /\ q <= a /\ a < q + n
      /\ \A a \in DOMAIN b : b[a] \in {HEAP_MAGIC} \cup 0 .. (W - 1)
  <2> HIDE DEF b
  <2>1. b = over(put_footer(q + n - 2, q), put_header(q, 0, n))
    BY DEF b
  <2>2. q \in Nat /\ n \in Nat /\ n >= 5 /\ q + n < W /\ 0 \in {0, 1}
    BY <1>4, <1>5
  <2> QED
    BY <2>1, <2>2, RegionRange, Zenon
<1>9. InParts(w, m2, r, b, ld, mem)
  <2> HIDE DEF r, b, w, m2, ld
  <2>1. w = over(r, over(b, ld)) /\ m2 = over(w, mem)
    BY DEF w, m2
  <2> QED
    BY <2>1, Patched
<1>10. /\ m2 = over(w, mem)
       /\ ld = over(put_footer(p0 + l - 3, p0), put_header(p0, 1, l))
       /\ b = over(put_footer(q + n - 2, q), put_header(q, 0, n))
  OBVIOUS
<1> HIDE DEF w, m2, ld, b
<1>11. /\ \A a \in DOMAIN r : a \in Nat /\ q + n <= a /\ a < p0 + s0
       /\ \A a \in DOMAIN r : r[a] \in {HEAP_MAGIC} \cup 0 .. (W - 1)
       /\ rest >= 5 => r = over(put_footer(q + n + rest - 2, q + n),
                                put_header(q + n, 1, rest))
  <2>1. CASE rest = 0
    <3>1. r = nothing
      BY <2>1
    <3> HIDE DEF r
    <3> QED
      BY <2>1, <3>1, Nothing
  <2>2. CASE rest >= 5
    <3>1. r = over(put_footer(q + n + rest - 2, q + n), put_header(q + n, 1, rest))
      BY <1>4, <1>6, <2>2
    <3> HIDE DEF r
    <3>2. /\ \A a \in DOMAIN r : a \in Nat /\ q + n <= a /\ a < q + n + rest
          /\ \A a \in DOMAIN r : r[a] \in {HEAP_MAGIC} \cup 0 .. (W - 1)
      <4> DEFINE z == q + n
      <4>1. z \in Nat /\ z + rest < W
        BY <1>5
      <4>2. r = over(put_footer(z + rest - 2, z), put_header(z, 1, rest))
        BY <3>1
      <4> HIDE DEF z
      <4>3. /\ \A a \in DOMAIN r : a \in Nat /\ z <= a /\ a < z + rest
            /\ \A a \in DOMAIN r : r[a] \in {HEAP_MAGIC} \cup 0 .. (W - 1)
        BY <1>4, <2>2, <4>1, <4>2, RegionRange
      <4> QED
        BY <4>3 DEF z
    <3> QED
      BY <1>5, <3>1, <3>2
  <2> QED
    BY <1>4, <2>1, <2>2
<1> HIDE DEF r
<1>12. DOMAIN w = DOMAIN r \cup DOMAIN b \cup DOMAIN ld
  BY <1>9 DEF InParts
<1>13. \A a \in DOMAIN w : a \in Nat /\ p0 <= a /\ a < p0 + s0
  BY <1>1, <1>4, <1>5, <1>7, <1>8, <1>11, <1>12
<1>14. \A a \in DOMAIN w : w[a] \in {HEAP_MAGIC} \cup 0 .. (W - 1)
  BY <1>7, <1>8, <1>9, <1>11 DEF InParts
<1>15. \A a \in DOMAIN w : a < W
  BY <1>1, <1>13, Numbers
<1>16. \A a \in DOMAIN ld : word(m2, a) = ld[a]
  <2>1. \A a \in DOMAIN ld : a \notin DOMAIN b /\ a \notin DOMAIN r /\ a \in Nat /\ a < W
    BY <1>4, <1>5, <1>7, <1>8, <1>11, <1>12, <1>15
  <2> QED
    BY <1>9, <2>1 DEF InParts
<1>17. \A a \in DOMAIN b : word(m2, a) = b[a]
  <2>1. \A a \in DOMAIN b : a \notin DOMAIN r /\ a \in Nat /\ a < W
    BY <1>4, <1>5, <1>8, <1>11, <1>12, <1>15
  <2> QED
    BY <1>9, <2>1 DEF InParts
<1>18. \A a \in DOMAIN r : word(m2, a) = r[a]
  <2>1. \A a \in DOMAIN r : a \in Nat /\ a < W
    BY <1>11, <1>12, <1>15
  <2> QED
    BY <1>9, <2>1 DEF InParts
<1>19. Sound(m2, p0, 1, l, e)
  BY <1>1, <1>4, <1>5, <1>10, <1>16, WrittenLead
<1>20. Sound(m2, q, 0, n, e) /\ size_of(m2, q) = n
  <2>1. Sound(m2, q, 0, n, e)
    BY <1>4, <1>5, <1>10, <1>17, WrittenRegion
  <2> QED
    BY <2>1 DEF Sound
<1>21. Within(mem, m2, p0, p0 + s0)
  BY <1>1, <1>5, <1>10, <1>13, OverWithin
<1>22. DOMAIN w \subseteq p0 .. (p0 + s0 - 1)
  BY <1>1, <1>13
<1>23. s0 = size_of(mem, p0) /\ e = end_address /\ size + 5 <= size_of(m2, q)
  BY <1>4, <1>20 DEF s0, e
<1>24. CASE rest = 0
  <2>1. size_of(mem, p0) = l + n /\ Sound(m2, p0 + l, 0, n, e)
        /\ Within(mem, m2, p0, p0 + size_of(mem, p0))
    BY <1>4, <1>5, <1>20, <1>21, <1>23, <1>24
  <2>2. p0 + l \notin BlockHeaders \cup Holes /\ Lay(m2, BlockHeaders \cup {p0 + l}, Holes, e)
    <3>1. l >= 5
      BY <1>4
    <3> QED
      BY <1>1, <1>2, <1>4, <1>19, <2>1, <3>1, LayBack
  <2>3. q \notin BlockHeaders /\ Lay(m2, BlockHeaders \cup {q}, Holes, end_address)
    BY <1>5, <1>23, <2>2
  <2>4. c = carving(w, index, q) /\ ToSet(index) = Holes
    BY <1>3, <1>24 DEF Holes
  <2>5. Carved(c, p0, size)
    BY <1>1, <1>5, <1>10, <1>14, <1>22, <1>23, <2>3, <2>4, CarvedFrom
  <2> QED
    BY <2>5 DEF c, p0
<1>25. CASE rest >= 5
  <2> DEFINE z == q + n
             idx == insert(m2, index, z)
  <2>1. r = over(put_footer(z + rest - 2, z), put_header(z, 1, rest))
    BY <1>11, <1>25
  <2>2. z \in Nat /\ z + rest < W /\ z = p0 + l + n
    BY <1>5
  <2> HIDE DEF z
  <2>3. Sound(m2, z, 1, rest, e)
    BY <1>4, <1>18, <1>25, <2>1, <2>2, WrittenRegion
  <2>4. /\ size_of(mem, p0) = l + n + rest /\ Sound(m2, p0 + l, 0, n, e)
        /\ Sound(m2, p0 + l + n, 1, rest, e)
        /\ Within(mem, m2, p0, p0 + size_of(mem, p0))
    BY <1>4, <1>5, <1>20, <1>21, <1>23, <2>2, <2>3
  <2>5. /\ p0 + l \notin BlockHeaders \cup Holes /\ p0 + l + n \notin BlockHeaders \cup Holes
        /\ Lay(m2, BlockHeaders \cup {p0 + l}, Holes \cup {p0 + l + n}, e)
    <3>1. l >= 5
      BY <1>4
    <3>2. /\ Lay(mem, BlockHeaders, Holes, e) /\ e < W /\ p0 \in Holes
          /\ l \in Nat /\ n \in Nat /\ n >= 5 /\ rest \in Nat /\ rest >= 5
          /\ Sound(m2, p0, 1, l, e)
      BY <1>1, <1>2, <1>4, <1>19, <1>25
    <3> QED
      BY <2>4, <3>1, <3>2, LayMiddle, Zenon
  <2>6. q \notin BlockHeaders /\ z \notin Holes
        /\ Lay(m2, BlockHeaders \cup {q}, Holes \cup {z}, end_address)
    BY <1>5, <1>23, <2>2, <2>5
  <2>7. idx \in Seq(Nat) /\ ToSet(idx) = Holes \cup {z} /\ Distinct(idx)
    BY <1>1, <2>2, <2>6, InsertFacts DEF Holes
  <2>8. c = carving(w, idx, q)
    <3>1. rest > 0
      BY <1>4, <1>25
    <3> QED
      BY <1>3, <3>1 DEF z
  <2> HIDE DEF idx
  <2>9. Carved(c, p0, size)
    BY <1>1, <1>5, <1>10, <1>14, <1>22, <1>23, <2>6, <2>7, <2>8, CarvedFrom
  <2> QED
    BY <2>9 DEF c, p0
<1> QED
  BY <1>4, <1>24, <1>25

-----------------------------------------------------------------------------
(***************************************************************************)
(* Regions and the words outside them                                      *)
(***************************************************************************)

LEMMA Apart ==
  ASSUME NEW m, NEW B, NEW H, NEW e, Lay(m, B, H, e), NEW r \in B \cup H,
         NEW h \in B \cup H, r # h, NEW a \in Int, r <= a, a < r + size_of(m, r)
  PROVE  a < h \/ h + size_of(m, h) <= a
<1>1. r \in Nat /\ h \in Nat /\ size_of(m, r) \in Nat /\ size_of(m, h) \in Nat
  BY LayFacts
<1>2. CASE r < h
  <2>1. r + size_of(m, r) <= h
    BY <1>2, LayFacts
  <2> QED
    BY <1>1, <2>1
<1>3. CASE h < r
  <2>1. h + size_of(m, h) <= r
    BY <1>3, LayFacts
  <2> QED
    BY <1>1, <2>1
<1> QED
  BY <1>1, <1>2, <1>3

LEMMA SizesKept ==
  ASSUME NEW m, NEW B, NEW H, NEW e, Lay(m, B, H, e), e < W,
         NEW h \in B \cup H, NEW m2, Within(m, m2, h, h + size_of(m, h)),
         NEW r \in B \cup H, r # h
  PROVE  size_of(m2, r) = size_of(m, r)
<1>1. CASE r \in B
  <2>1. Sound(m2, r, 0, size_of(m, r), e)
    BY <1>1, Others
  <2> QED
    BY <2>1 DEF Sound
<1>2. CASE r \in H
  <2>1. Sound(m2, r, 1, size_of(m, r), e)
    BY <1>2, Others
  <2> QED
    BY <2>1 DEF Sound
<1> QED
  BY <1>1, <1>2

LEMMA EraseWord ==
  ASSUME NEW m, NEW A, NEW a \in Nat, a < W
  PROVE  word(erase(m, A), a) = IF a \in A THEN 0 ELSE word(m, a)
<1>1. DOMAIN erase(m, A) = DOMAIN m \ A
  BY DEF erase
<1>2. ASSUME a \in DOMAIN m \ A PROVE erase(m, A)[a] = m[a]
  BY <1>2 DEF erase
<1> QED
  BY <1>1, <1>2, WordIs

\* A client's data does not change what headers and footers say.
LEMMA EraseLay ==
  ASSUME NEW m, NEW B, NEW H, NEW e, Lay(m, B, H, e), e < W, NEW b \in B,
         NEW k \in Nat, k + 5 <= size_of(m, b), NEW m2, m2 = erase(m, Payload(b + 3, k))
  PROVE  Lay(m2, B, H, e) /\ \A r \in B \cup H : size_of(m2, r) = size_of(m, r)
<1> DEFINE n == size_of(m, b)
           A == Payload(b + 3, k)
<1>1. b \in Nat /\ n \in Nat /\ n >= 5 /\ b + n <= e /\ e \in Nat /\ b + n < W
  <2>1. b \in Nat /\ n \in Nat /\ n >= 5 /\ b + n <= e /\ e \in Nat
    BY LayFacts
  <2> QED
    BY <2>1, Numbers
<1>2. k + 5 <= n /\ size_of(m, b) = n
  OBVIOUS
<1> HIDE DEF n
<1>3. \A a \in A : a \in Int /\ b + 3 <= a /\ a < b + n - 2
  BY <1>1, <1>2 DEF Payload
<1> HIDE DEF A
<1>4. \A a \in Nat : a < W => word(m2, a) = IF a \in A THEN 0 ELSE word(m, a)
  BY EraseWord DEF A
<1>5. Within(m, m2, b, b + n)
  <2>1. ASSUME NEW a \in Nat, a < W, a < b \/ b + n <= a PROVE word(m2, a) = word(m, a)
    <3>1. a \notin A
      BY <1>1, <1>3, <2>1
    <3> QED
      BY <1>4, <2>1, <3>1
  <2> QED
    BY <2>1 DEF Within
<1>6. Sound(m, b, 0, n, e)
  BY DEF Lay, n
<1>7. Sound(m2, b, 0, n, e)
  <2>1. \A a \in {b, b + 1, b + 2, b + n - 2, b + n - 1} :
           a \in Nat /\ a < W /\ a \notin A
    BY <1>1, <1>3, Numbers
  <2>2. \A a \in {b, b + 1, b + 2, b + n - 2, b + n - 1} : word(m2, a) = word(m, a)
    BY <1>4, <2>1
  <2>3. b + n - Footer = b + n - 2 /\ (b + n - 2) + 1 = b + n - 1
    BY <1>1, Numbers
  <2>4. /\ word(m2, b) = word(m, b) /\ word(m2, b + 1) = word(m, b + 1)
        /\ word(m2, b + 2) = word(m, b + 2)
        /\ word(m2, b + n - 2) = word(m, b + n - 2)
        /\ word(m2, b + n - 2 + 1) = word(m, b + n - 2 + 1)
    BY <2>2, <2>3
  <2>5. /\ magic(m2, b) = magic(m, b) /\ is_hole(m2, b) = is_hole(m, b)
        /\ size_of(m2, b) = size_of(m, b)
    BY <2>4 DEF magic, is_hole, size_of
  <2>6. /\ magic(m2, b + n - Footer) = magic(m, b + n - Footer)
        /\ header_of(m2, b + n - Footer) = header_of(m, b + n - Footer)
    BY <2>2, <2>3 DEF magic, header_of
  <2> QED
    BY <1>6, <2>5, <2>6 DEF Sound
<1>8. /\ \A r \in B : Sound(m2, r, 0, size_of(m, r), e)
      /\ \A r \in H : Sound(m2, r, 1, size_of(m, r), e)
  <2>1. /\ \A r \in B : r # b => Sound(m2, r, 0, size_of(m, r), e)
        /\ \A r \in H : r # b => Sound(m2, r, 1, size_of(m, r), e)
    BY <1>5, Others DEF n
  <2>2. b \notin H
    BY LayFacts
  <2> QED
    BY <1>7, <2>1, <2>2 DEF n
<1>9. \A r \in B \cup H : size_of(m2, r) = size_of(m, r)
  BY <1>8 DEF Sound
<1>10. Lay(m2, B, H, e)
  <2> DEFINE s == [r \in B \cup H |-> size_of(m, r)]
  <2>1. Tiles(B \cup H, s, e)
    BY DEF Lay
  <2>2. /\ \A r \in B : Sound(m2, r, 0, s[r], e)
        /\ \A r \in H : Sound(m2, r, 1, s[r], e)
    BY <1>8
  <2> HIDE DEF s
  <2> QED
    BY <2>1, <2>2, LayFrom
<1> QED
  BY <1>9, <1>10

-----------------------------------------------------------------------------
(***************************************************************************)
(* The steps.  First what alloc does to the heap when it found a hole.     *)
(***************************************************************************)

\* A block lies within its region.
LEMMA BlockFacts ==
  ASSUME Layout, Blocks, NEW p \in DOMAIN live
  PROVE  /\ p \in Nat /\ p - 3 \in BlockHeaders /\ p - 3 \in Nat /\ live[p].size \in Nat
         /\ size_of(mem, p - 3) \in Nat /\ live[p].size + 5 <= size_of(mem, p - 3)
         /\ start_address <= p - 3 /\ p - 3 + size_of(mem, p - 3) <= end_address
<1>1. p \in Nat /\ live[p].size \in Sizes \cup AlignedSizes \cup {PAGE}
      /\ live[p].size + Overhead <= size_of(mem, p - Header)
  BY DEF Blocks
<1>2. p - 3 = p - Header /\ p - Header \in BlockHeaders
  BY Numbers DEF BlockHeaders
<1>3. live[p].size \in Nat
  BY <1>1, Numbers
<1>4. Lay(mem, BlockHeaders, Holes, end_address)
  BY DEF Layout
<1>5. /\ p - 3 \in Nat /\ start_address <= p - 3 /\ size_of(mem, p - 3) \in Nat
      /\ p - 3 + size_of(mem, p - 3) <= end_address
  <2> DEFINE r == p - 3
  <2>1. r \in BlockHeaders
    BY <1>2
  <2> HIDE DEF r
  <2>2. r \in Nat /\ start_address <= r /\ size_of(mem, r) \in Nat
        /\ r + size_of(mem, r) <= end_address
    BY <1>4, <2>1, LayFacts
  <2> QED
    BY <2>2 DEF r
<1>6. live[p].size + 5 <= size_of(mem, p - 3)
  BY <1>1, <1>2, Numbers
<1> QED
  BY <1>1, <1>2, <1>3, <1>5, <1>6

\* What handing out a block at p does to the blocks
Handed(p, size, table) ==
  /\ DOMAIN live' = DOMAIN live \cup {p} /\ BlockHeaders' = BlockHeaders \cup {p - 3}
  /\ live'[p].size = size /\ live'[p].written = table /\ live'[p].table = table
  /\ \A q \in DOMAIN live : q # p => live'[q] = live[q]

LEMMA HandedOut ==
  ASSUME NEW p \in Nat, NEW size, NEW table, live' = handed_out(p, size, table)
  PROVE  Handed(p, size, table)
<1>1. DOMAIN live' = DOMAIN live \cup {p}
  BY DEF handed_out
<1>2. live'[p] = [size |-> size, written |-> table, table |-> table]
  BY DEF handed_out
<1>3. \A q \in DOMAIN live : q # p => live'[q] = live[q]
  BY DEF handed_out
<1>4. BlockHeaders' = BlockHeaders \cup {p - 3}
  BY <1>1, Numbers DEF BlockHeaders
<1> QED
  BY <1>1, <1>2, <1>3, <1>4 DEF Handed

\* The words in mem after some were written, none of them outside a region
LEMMA OverDomain ==
  ASSUME NEW w, NEW m, NEW m2, m2 = over(w, m), NEW S, NEW V,
         DOMAIN w \subseteq S, DOMAIN m \subseteq S,
         \A a \in DOMAIN w : w[a] \in V, \A a \in DOMAIN m : m[a] \in V
  PROVE  DOMAIN m2 \subseteq S /\ \A a \in DOMAIN m2 : m2[a] \in V
BY DEF over

LEMMA HitKeeps ==
  ASSUME Layout, Blocks, Memory, NEW c, NEW h,
         NEW size \in Sizes \cup AlignedSizes \cup {PAGE}, Carved(c, h, size),
         NEW table \in BOOLEAN, NEW m2, m2 = over(c.words, mem),
         \/ table /\ mem' = erase(m2, Payload(c.addr, size))
         \/ ~ table /\ mem' = m2,
         index' = c.index, live' = handed_out(c.addr, size, table),
         end_address' = end_address, mapped' = mapped
  PROVE  /\ Layout' /\ Blocks' /\ Memory'
         /\ \A r \in ToSet(c.index) : size_of(mem', r) = size_of(m2, r)
         /\ c.addr - 3 \notin BlockHeaders
<1> DEFINE b == c.addr - 3
           B2 == BlockHeaders \cup {b}
           H2 == ToSet(c.index)
           e == end_address
           n == size_of(mem, h)
<1>1. /\ h \in Holes /\ DOMAIN c.words \subseteq h .. (h + n - 1)
      /\ \A a \in DOMAIN c.words : c.words[a] \in {HEAP_MAGIC} \cup 0 .. (W - 1)
      /\ c.index \in Seq(Nat) /\ Distinct(c.index)
      /\ c.addr \in Nat /\ b \in Nat /\ b \notin BlockHeaders
      /\ Lay(m2, B2, H2, e) /\ size + 5 <= size_of(m2, b)
  BY DEF Carved
<1>2. Lay(mem, BlockHeaders, Holes, e)
  BY DEF Layout
<1>3. /\ h \in Nat /\ n \in Nat /\ h + n <= e /\ start_address <= h /\ e \in Nat /\ e < W
  <2>1. end_address \in initial_end .. max_address
    BY DEF Memory
  <2>2. h \in Nat /\ n \in Nat /\ h + n <= e /\ start_address <= h
    BY <1>1, <1>2, LayFacts
  <2> QED
    BY <2>1, <2>2, Numbers
<1>4. size \in Nat /\ b + 3 = c.addr
  BY <1>1, Numbers
<1>5. Within(mem, m2, h, h + n)
  <2>1. \A a \in DOMAIN c.words : h <= a /\ a < h + n
    BY <1>1, <1>3
  <2>2. h + n \in Nat
    BY <1>3
  <2> QED
    BY <1>3, <2>1, <2>2, OverWithin
<1>6. Lay(mem', B2, H2, e) /\ \A r \in B2 \cup H2 : size_of(mem', r) = size_of(m2, r)
  <2>1. CASE table
    <3>1. mem' = erase(m2, Payload(b + 3, size))
      BY <1>4, <2>1
    <3>2. b \in B2
      OBVIOUS
    <3> HIDE DEF b, B2, H2, e
    <3> QED
      BY <1>1, <1>3, <1>4, <3>1, <3>2, EraseLay
  <2>2. CASE ~ table
    BY <1>1, <2>2
  <2> QED
    BY <2>1, <2>2
<1>7. /\ DOMAIN live' = DOMAIN live \cup {c.addr} /\ BlockHeaders' = B2
      /\ live'[c.addr].size = size /\ live'[c.addr].written = table
      /\ \A q \in DOMAIN live : q # c.addr => live'[q] = live[q]
  <2>1. Handed(c.addr, size, table)
    BY <1>1, HandedOut
  <2> QED
    BY <2>1 DEF Handed
<1> HIDE DEF b, n
<1>8. Layout'
  <2>1. Holes' = H2
    BY DEF Holes
  <2>2. Lay(mem', BlockHeaders', Holes', end_address') /\ Distinct(index')
    BY <1>1, <1>6, <1>7, <2>1
  <2> QED
    BY <2>2 DEF Layout
<1>9. DOMAIN m2 \subseteq start_address .. (e - 1)
      /\ \A a \in DOMAIN m2 : m2[a] \in {HEAP_MAGIC} \cup 0 .. (W - 1)
  <2>1. DOMAIN c.words \subseteq start_address .. (e - 1)
    <3>1. h .. (h + n - 1) \subseteq start_address .. (e - 1)
      BY <1>3, Numbers
    <3> QED
      BY <1>1, <3>1
  <2>2. DOMAIN mem \subseteq start_address .. (e - 1)
        /\ \A a \in DOMAIN mem : mem[a] \in {HEAP_MAGIC} \cup 0 .. (W - 1)
    BY DEF Memory
  <2> DEFINE V == {HEAP_MAGIC} \cup 0 .. (W - 1)
             S == start_address .. (e - 1)
  <2> HIDE DEF V, S
  <2>3. /\ DOMAIN c.words \subseteq S /\ \A a \in DOMAIN c.words : c.words[a] \in V
        /\ DOMAIN mem \subseteq S /\ \A a \in DOMAIN mem : mem[a] \in V
    BY <1>1, <2>1, <2>2 DEF V, S
  <2>4. DOMAIN m2 \subseteq S /\ \A a \in DOMAIN m2 : m2[a] \in V
    BY <2>3, OverDomain
  <2> QED
    BY <2>4 DEF V, S
<1>10. /\ DOMAIN mem' \subseteq DOMAIN m2
       /\ \A a \in DOMAIN mem' : mem'[a] = m2[a]
       /\ table => DOMAIN mem' \cap Payload(c.addr, size) = {}
  <2>1. CASE table
    BY <2>1 DEF erase
  <2>2. CASE ~ table
    BY <2>2
  <2> QED
    BY <2>1, <2>2
<1>11. Memory'
  <2>1. DOMAIN mem' \subseteq start_address .. (end_address' - 1)
    BY <1>9, <1>10
  <2>2. \A a \in DOMAIN mem' : mem'[a] \in {HEAP_MAGIC} \cup 0 .. (W - 1)
    BY <1>9, <1>10
  <2> QED
    BY <1>1, <2>1, <2>2 DEF Memory, gap_page, page_of
<1>12. ASSUME NEW q \in DOMAIN live, q # c.addr
       PROVE  /\ live'[q] = live[q] /\ size_of(mem', q - 3) = size_of(mem, q - 3)
              /\ \A a \in Payload(q, live[q].size) : a \notin DOMAIN c.words
  <2> DEFINE r == q - 3
             k == live[q].size
             u == size_of(mem, r)
  <2>1. /\ q \in Nat /\ r \in BlockHeaders /\ r \in Nat /\ k \in Nat
        /\ u \in Nat /\ k + 5 <= u
    BY <1>12, BlockFacts
  <2>2. r # h
    BY <1>1, <1>2, <2>1, LayFacts
  <2>3. size_of(m2, r) = u
    BY <1>1, <1>2, <1>3, <1>5, <2>1, <2>2, SizesKept DEF n
  <2>4. size_of(mem', r) = u
    BY <1>6, <2>1, <2>3
  <2>5. ASSUME NEW a \in Payload(q, k) PROVE a \notin DOMAIN c.words
    <3>1. a \in Int /\ r <= a /\ a < r + u
      BY <2>1, <2>5 DEF Payload
    <3>2. a < h \/ h + size_of(mem, h) <= a
      <4> HIDE DEF r, u
      <4>1. u = size_of(mem, r)
        BY DEF u
      <4> QED
        BY <1>1, <1>2, <2>1, <2>2, <3>1, <4>1, Apart
    <3> QED
      BY <1>1, <1>3, <3>1, <3>2 DEF n
  <2> QED
    BY <1>7, <1>12, <2>4, <2>5
<1>13. Blocks'
  <2>1. ASSUME NEW q \in DOMAIN live'
        PROVE  /\ q \in Nat /\ live'[q].size \in Sizes \cup AlignedSizes \cup {PAGE}
               /\ live'[q].size + Overhead <= size_of(mem', q - Header)
               /\ live'[q].written => Payload(q, live'[q].size) \cap DOMAIN mem' = {}
    <3>1. CASE q = c.addr
      <4>1. q - Header = b /\ size_of(mem', b) = size_of(m2, b)
        BY <1>1, <1>6, <3>1, Numbers DEF b
      <4>2. size + Overhead <= size_of(mem', q - Header)
        BY <1>1, <4>1, Numbers
      <4>3. live'[q].size = size /\ live'[q].written = table
        BY <1>7, <3>1
      <4> QED
        BY <1>1, <1>10, <3>1, <4>2, <4>3
    <3>2. CASE q # c.addr
      <4>1. q \in DOMAIN live
        BY <1>7, <3>2
      <4>2. /\ live'[q] = live[q] /\ size_of(mem', q - 3) = size_of(mem, q - 3)
            /\ \A a \in Payload(q, live[q].size) : a \notin DOMAIN c.words
        BY <1>12, <3>2, <4>1
      <4>3. /\ q \in Nat /\ live[q].size \in Sizes \cup AlignedSizes \cup {PAGE}
            /\ live[q].size + Overhead <= size_of(mem, q - Header)
            /\ live[q].written => Payload(q, live[q].size) \cap DOMAIN mem = {}
        BY <4>1 DEF Blocks
      <4>4. DOMAIN mem' \subseteq DOMAIN c.words \cup DOMAIN mem
        BY <1>10 DEF over
      <4>5. q - Header = q - 3
        BY Numbers
      <4>6. ASSUME live[q].written PROVE Payload(q, live[q].size) \cap DOMAIN mem' = {}
        BY <4>2, <4>3, <4>4, <4>6
      <4> QED
        BY <4>2, <4>3, <4>5, <4>6
    <3> QED
      BY <3>1, <3>2
  <2> QED
    BY <2>1 DEF Blocks
<1> QED
  BY <1>1, <1>6, <1>8, <1>11, <1>13 DEF b

\* The heap's own pages are mapped, and the one before it.
LEMMA Reachable ==
  ASSUME Memory, NEW a \in Nat, start_address <= a + PAGE, a < end_address
  PROVE  accessible(a)
<1>1. /\ end_address \in initial_end .. max_address /\ end_address % PAGE = 0
      /\ gap_page .. (page_of(end_address) - 1) \subseteq mapped
  BY DEF Memory
<1>2. end_address \in Nat /\ start_address < end_address /\ end_address < W
  BY <1>1, Numbers
<1>3. page_of(a) \in gap_page .. (page_of(end_address) - 1)
  BY <1>1, <1>2, PageRange
<1> QED
  BY <1>1, <1>3 DEF accessible

LEMMA HeapNumbers ==
  ASSUME Memory
  PROVE  /\ end_address \in Nat /\ start_address < end_address
         /\ end_address <= max_address /\ end_address < W /\ end_address % PAGE = 0
         /\ heap_length \in Nat /\ heap_length % PAGE = 0 /\ heap_length >= PAGE
         /\ start_address + heap_length = end_address
<1>1. end_address \in initial_end .. max_address /\ end_address % PAGE = 0
  BY DEF Memory
<1>2. /\ end_address \in Nat /\ start_address < end_address
      /\ end_address <= max_address /\ end_address < W
  BY <1>1, Numbers
<1>3. heap_length \in Nat /\ start_address + heap_length = end_address
  BY <1>2, Numbers DEF heap_length
<1>4. heap_length % PAGE = 0
  <2>1. start_address \in Nat /\ start_address % PAGE = 0 /\ start_address <= end_address
    BY <1>2, Numbers
  <2>2. (end_address - start_address) % PAGE = 0
    BY <1>1, <1>2, <2>1, Multiples
  <2> QED
    BY <2>2 DEF heap_length
<1>5. start_address + PAGE <= end_address
  BY <1>1, <1>2, Numbers, RoomForPage
<1>6. heap_length >= PAGE
  BY <1>2, <1>3, <1>5, Numbers
<1> QED
  BY <1>1, <1>2, <1>3, <1>4, <1>6

\* What expand is asked for, and what it rounds up to
LEMMA Rounded ==
  ASSUME Memory, NEW size \in Sizes, NEW n, n = heap_length + size + Overhead
  PROVE  /\ n \in Nat /\ n = heap_length + size + 5 /\ n % W = n
         /\ expanded_length(n) \in Nat /\ expanded_length(n) % PAGE = 0
         /\ n < expanded_length(n) /\ expanded_length(n) <= n + PAGE
<1>1. heap_length \in Nat /\ heap_length >= PAGE /\ heap_length <= max_address
      /\ size \in Nat /\ max_address + size + 5 + PAGE < W
  <2>1. /\ heap_length \in Nat /\ heap_length >= PAGE /\ end_address \in Nat
        /\ end_address <= max_address /\ start_address + heap_length = end_address
    BY HeapNumbers
  <2>2. size \in Sizes \cup AlignedSizes
    OBVIOUS
  <2>3. size \in Nat /\ max_address + size + 5 + PAGE < W
    BY <2>2, Numbers
  <2> QED
    BY <2>1, <2>3, Numbers
<1>2. n \in Nat /\ n = heap_length + size + 5 /\ n >= PAGE /\ n + PAGE < W /\ n < W
  BY <1>1, Numbers
<1>3. n % W = n
  BY <1>2, Mod
<1>4. /\ expanded_length(n) \in Nat /\ expanded_length(n) % PAGE = 0
      /\ n < expanded_length(n) /\ expanded_length(n) <= n + PAGE
  BY <1>2, ExpandedLength
<1> QED
  BY <1>2, <1>3, <1>4

\* The loop variable of expand stays on page boundaries of the heap.
LEMMA LoopNumbers ==
  ASSUME Memory, NEW c, Expanding(c)
  PROVE  /\ c.it \in Nat /\ c.new_size \in Nat /\ c.it <= c.new_size
         /\ heap_length <= c.it /\ c.it % PAGE = 0 /\ c.new_size % PAGE = 0
         /\ start_address + c.new_size <= max_address
         /\ heap_length + c.size + 5 < c.new_size /\ c.size \in Nat
         /\ (start_address + c.it) % PAGE = 0 /\ (start_address + c.new_size) % PAGE = 0
         /\ start_address + c.it \in Nat /\ start_address + c.it < W
         /\ start_address + c.new_size \in Nat /\ start_address + c.new_size < W
<1>1. /\ c.size \in Sizes /\ c.new_size = expanded_length(heap_length + c.size + Overhead)
      /\ start_address + c.new_size <= max_address
      /\ c.it \in heap_length .. c.new_size /\ c.it % PAGE = 0
  BY DEF Expanding
<1> DEFINE n == heap_length + c.size + Overhead
<1> HIDE DEF n
<1>2. c.new_size = expanded_length(n) /\ n = heap_length + c.size + Overhead
  BY <1>1 DEF n
<1>3. /\ n \in Nat /\ n = heap_length + c.size + 5 /\ c.new_size \in Nat
      /\ c.new_size % PAGE = 0 /\ n < c.new_size
  BY <1>1, <1>2, Rounded
<1>4. heap_length \in Nat
  BY HeapNumbers
<1>5. c.it \in Nat /\ c.it <= c.new_size /\ heap_length <= c.it
  BY <1>1, <1>3, <1>4
<1>6. c.size \in Nat
  BY <1>1, Numbers
<1>7. (start_address + c.it) % PAGE = 0 /\ (start_address + c.new_size) % PAGE = 0
  BY <1>1, <1>3, <1>5, Numbers, Multiples
<1>8. /\ start_address + c.it \in Nat /\ start_address + c.it < W
      /\ start_address + c.new_size \in Nat /\ start_address + c.new_size < W
  BY <1>1, <1>3, <1>5, Numbers
<1> QED
  BY <1>1, <1>3, <1>5, <1>6, <1>7, <1>8

\* A table that the next iteration lacks is one that the loop needs.
LEMMA NeededNow ==
  ASSUME Memory, NEW c, Expanding(c), c.it < c.new_size,
         table_of(page_of(start_address + c.it)) \notin tables
  PROVE  table_of(page_of(start_address + c.it)) \in Needed(c)
<1> DEFINE a == start_address + c.it
           z == start_address + c.new_size - 1
<1>1. a \in Nat /\ z \in Nat /\ a <= z /\ z < W
  <2>1. /\ c.it \in Nat /\ c.new_size \in Nat /\ start_address + c.new_size < W
    BY LoopNumbers
  <2> QED
    BY <2>1, Numbers
<1> HIDE DEF a, z
<1>2. page_of(a) <= page_of(z)
  BY <1>1, PagesOrdered
<1>3. page_of(a) \in Nat /\ page_of(z) \in Nat
  <2>1. a < W
    BY <1>1, Numbers
  <2> QED
    BY <1>1, <2>1, PageNumber
<1>4. page_of(a) \in page_of(a) .. page_of(z)
  BY <1>2, <1>3
<1> QED
  BY <1>4 DEF Needed, a, z

-----------------------------------------------------------------------------
\* The stack of calls

LEMMA OneCall ==
  ASSUME NEW c, calls = << c >>
  PROVE  /\ top = c /\ calls # << >> /\ Len(calls) = 1 /\ Front(calls) = << >>
<1>1. top = c /\ calls # << >> /\ Len(calls) = 1
  BY DEF top, Last
<1>2. Front(calls) = << >>
  BY DEF Front
<1> QED
  BY <1>1, <1>2

LEMMA TwoCalls ==
  ASSUME NEW c, NEW d, calls = << c, d >>
  PROVE  /\ top = d /\ calls # << >> /\ Len(calls) = 2 /\ Front(calls) = << c >>
         /\ calls[Len(calls) - 1] = c
<1>1. top = d /\ calls # << >> /\ Len(calls) = 2 /\ calls[Len(calls) - 1] = c
  BY DEF top, Last
<1>2. Front(calls) = << c >>
  <2> DEFINE S == {c, d}
             f == SubSeq(calls, 1, 1)
             g == << c >>
  <2>1. calls \in Seq(S) /\ g \in Seq(S) /\ Len(g) = 1 /\ g[1] = c /\ calls[1] = c
    OBVIOUS
  <2> HIDE DEF S, g
  <2>2. f \in Seq(S) /\ Len(f) = 1 /\ f[1] = c
    BY <1>1, <2>1
  <2> HIDE DEF f
  <2>3. f = g
    BY <2>1, <2>2, SeqEqual
  <2> QED
    BY <1>1, <2>3 DEF Front, f, g
<1> QED
  BY <1>1, <1>2

LEMMA NewCall ==
  ASSUME NEW size, NEW align, NEW c, c = new_call(size, align)
  PROVE  c.size = size /\ c.align = align /\ c.pc = "find"
BY DEF new_call

\* The hole that alloc found can be split safely.
LEMMA HitCarved ==
  ASSUME IInv, running("find"),
         NEW it, it = find_smallest_hole(top.size + Overhead, top.align), it # 0
  PROVE  /\ Carved(carve(it, top.size, top.align), index[it], top.size)
         /\ top.size \in Sizes \cup AlignedSizes \cup {PAGE}
<1>1. Layout /\ Memory /\ Calls /\ index \in Seq(Nat)
  BY DEF IInv, Memory
<1>2. calls # << >> /\ top.pc = "find" /\ status = "ok"
  BY DEF running
<1>3. it \in 1 .. Len(index) /\ fits(index[it], top.size + Overhead, top.align)
  BY <1>1, FindFacts
<1>4. ASSUME NEW c, calls = << c >>, Asked(c)
      PROVE  /\ Carved(carve(it, top.size, top.align), index[it], top.size)
             /\ top.size \in Sizes \cup AlignedSizes \cup {PAGE}
  <2>1. top = c
    BY <1>4, OneCall
  <2>2. /\ c.align \in BOOLEAN /\ c.size \in Sizes \cup AlignedSizes
        /\ c.align => AlignIsSafe(index[it], c.size)
    BY <1>4, <2>1 DEF Asked, AllocIsSafe
  <2>3. c.size \in Nat
    BY <2>2, Numbers
  <2>4. CASE c.align
    <3>1. Carved(carve(it, c.size, TRUE), index[it], c.size)
      BY <1>1, <1>3, <2>2, <2>3, <2>4, CarveAligned
    <3>2. c.align = TRUE
      BY <2>2, <2>4
    <3> QED
      BY <2>1, <2>2, <3>1, <3>2
  <2>5. CASE ~ c.align
    <3>1. size_of(mem, index[it]) >= c.size + 5
      BY <1>3, <2>1, <2>5, Numbers DEF fits
    <3>2. Carved(carve(it, c.size, FALSE), index[it], c.size)
      BY <1>1, <1>3, <2>3, <3>1, CarvePlain
    <3>3. c.align = FALSE
      BY <2>2, <2>5
    <3> QED
      BY <2>1, <2>2, <3>2, <3>3
  <2> QED
    BY <2>4, <2>5
<1>5. ASSUME NEW c, calls = << c >>, Expanding(c) PROVE FALSE
  BY <1>2, <1>5, OneCall DEF Expanding
<1>6. ASSUME NEW c, calls = << c, new_call(PAGE, TRUE) >>, Expanding(c), c.it < c.new_size,
             table_of(page_of(start_address + c.it)) \notin tables
      PROVE  /\ Carved(carve(it, top.size, top.align), index[it], top.size)
             /\ top.size \in Sizes \cup AlignedSizes \cup {PAGE}
  <2>1. top = new_call(PAGE, TRUE)
    BY <1>6, TwoCalls
  <2>2. top.size = PAGE /\ top.align = TRUE
    BY <2>1, NewCall
  <2>3. Needed(c) # {}
    BY <1>1, <1>6, NeededNow
  <2>4. TableReady
    BY <1>6, <2>3 DEF Expanding
  <2>5. AlignIsSafe(index[it], PAGE)
    BY <2>2, <2>4 DEF TableReady
  <2>6. PAGE \in Nat
    BY Numbers
  <2>7. Carved(carve(it, PAGE, TRUE), index[it], PAGE)
    BY <1>1, <1>3, <2>5, <2>6, CarveAligned
  <2> QED
    BY <2>2, <2>7
<1> QED
  BY <1>1, <1>2, <1>4, <1>5, <1>6 DEF Calls

\* alloc takes a hole: the invariant holds again, and a new block is there.
LEMMA AllocHit ==
  ASSUME IInv, alloc_hit
  PROVE  /\ IInv'
         /\ \E p \in Nat : \E size \in Sizes \cup AlignedSizes \cup {PAGE} :
              \E table \in BOOLEAN :
                p \notin DOMAIN live /\ live' = handed_out(p, size, table)
<1> DEFINE it == find_smallest_hole(top.size + Overhead, top.align)
           c == carve(it, top.size, top.align)
           table == Len(calls) > 1
           t0 == table_of(page_of(start_address + calls[Len(calls) - 1].it))
           m2 == over(c.words, mem)
           size == top.size
<1>1. Layout /\ Blocks /\ Memory /\ Calls /\ status = "ok" /\ running("find") /\ it # 0
      /\ calls # << >> /\ top.pc = "find"
  BY DEF IInv, alloc_hit, running
<1>2. Carved(c, index[it], size) /\ size \in Sizes \cup AlignedSizes \cup {PAGE}
  <2> HIDE DEF it
  <2>1. it = find_smallest_hole(top.size + Overhead, top.align)
    BY DEF it
  <2> QED
    BY <1>1, <2>1, HitCarved
<1>3. \A a \in DOMAIN c.words : accessible(a)
  <2> DEFINE h == index[it]
             n == size_of(mem, h)
  <2>1. DOMAIN c.words \subseteq h .. (h + n - 1) /\ h \in Holes
    BY <1>2 DEF Carved
  <2>2. h \in Nat /\ n \in Nat /\ start_address <= h /\ h + n <= end_address
    BY <1>1, <2>1, LayFacts DEF Layout
  <2>3. end_address \in Nat
    BY <1>1, HeapNumbers
  <2> HIDE DEF h, n, c
  <2>4. ASSUME NEW a \in DOMAIN c.words PROVE accessible(a)
    <3>1. a \in Nat /\ start_address <= a + PAGE /\ a < end_address
      BY <2>1, <2>2, <2>3, Numbers
    <3> QED
      BY <1>1, <3>1, Reachable
  <2> QED
    BY <2>4
<1>4. /\ mem' = IF table THEN erase(m2, Payload(c.addr, size)) ELSE m2
      /\ index' = c.index /\ calls' = Front(calls)
      /\ live' = handed_out(c.addr, size, table)
      /\ tables' = IF table THEN table_added(page_of(start_address + calls[Len(calls) - 1].it))
                   ELSE tables
      /\ end_address' = end_address /\ mapped' = mapped /\ status' = status
  <2> HIDE DEF it
  <2> QED
    BY <1>3 DEF alloc_hit, it
<1>5. table => tables' = tables \cup {t0}
  BY <1>4 DEF table_added
<1>6. table \in BOOLEAN /\ (\/ table /\ mem' = erase(m2, Payload(c.addr, size))
                            \/ ~ table /\ mem' = m2)
  <2> HIDE DEF table, m2, c, size
  <2>1. table \in BOOLEAN
    BY DEF table
  <2> QED
    BY <1>4, <2>1
<1>7. /\ Layout' /\ Blocks' /\ Memory'
      /\ \A r \in ToSet(c.index) : size_of(mem', r) = size_of(m2, r)
      /\ c.addr - 3 \notin BlockHeaders
  <2> HIDE DEF table, m2, c, it, size
  <2>1. m2 = over(c.words, mem)
    BY DEF m2
  <2>2. /\ index' = c.index /\ live' = handed_out(c.addr, size, table)
        /\ end_address' = end_address /\ mapped' = mapped
    BY <1>4
  <2> QED
    BY <1>1, <1>2, <1>6, <2>1, <2>2, HitKeeps
<1>8. c.addr \in Nat /\ c.addr \notin DOMAIN live
  <2>1. c.addr \in Nat
    BY <1>2 DEF Carved
  <2>2. c.addr \in DOMAIN live => c.addr - 3 \in BlockHeaders
    BY <1>1, BlockFacts
  <2> QED
    BY <1>7, <2>1, <2>2
<1>9. status' = "ok"
  BY <1>1, <1>4
<1> HIDE DEF table, m2, c, it, size
<1>10. Calls'
  <2>1. ASSUME NEW d, calls = << d >> PROVE Calls'
    <3>1. calls' = << >>
      BY <1>4, <2>1, OneCall
    <3> QED
      BY <3>1 DEF Calls
  <2>2. ASSUME NEW d, calls = << d, new_call(PAGE, TRUE) >>, Expanding(d),
               d.it < d.new_size, table_of(page_of(start_address + d.it)) \notin tables
        PROVE  Calls'
    <3>1. /\ top = new_call(PAGE, TRUE) /\ Len(calls) = 2 /\ Front(calls) = << d >>
          /\ calls[Len(calls) - 1] = d
      BY <2>2, TwoCalls
    <3>2. table /\ calls' = << d >> /\ t0 = table_of(page_of(start_address + d.it))
      BY <1>4, <3>1 DEF table
    <3>3. top.size = PAGE /\ top.align = TRUE
      BY <3>1 DEF new_call
    <3>4. t0 \in Needed(d)
      BY <1>1, <2>2, <3>2, NeededNow
    <3>5. TableReady /\ \E t : Needed(d) = {t}
      BY <2>2, <3>4 DEF Expanding
    <3>6. it = find_smallest_hole(PAGE + Overhead, TRUE) /\ c = carve(it, PAGE, TRUE)
      BY <3>3 DEF it, c
    <3>7. TailOnTop(m2, c.index)
      BY <3>5, <3>6 DEF TableReady, m2
    <3>8. Needed(d)' = {}
      <4>1. Needed(d) = {t0}
        BY <3>4, <3>5
      <4>2. Needed(d)' = Needed(d) \ {t0}
        BY <1>5, <3>2 DEF Needed, page_of
      <4> QED
        BY <4>1, <4>2
    <3>9. TailOnTop(mem, index)'
      <4>1. ASSUME index' # << >>
            PROVE  Max(ToSet(index')) + size_of(mem', Max(ToSet(index'))) = end_address'
        <5> DEFINE T == ToSet(index')
        <5>1. Max(T) + size_of(m2, Max(T)) = end_address
          BY <1>4, <3>7, <4>1 DEF TailOnTop
        <5>2. Max(T) \in T
          <6>1. index' \in Seq(Nat) /\ end_address' \in Nat
            BY <1>1, <1>4, <1>7, HeapNumbers DEF Memory
          <6>2. T \subseteq Nat /\ T # {}
            BY <4>1, <6>1, Elements
          <6>3. Lay(mem', BlockHeaders', T, end_address')
            BY <1>7 DEF Layout, Holes
          <6>4. \A x \in T : x <= end_address'
            <7> HIDE DEF T
            <7>1. \A x \in T : x \in Nat /\ size_of(mem', x) \in Nat
                               /\ x + size_of(mem', x) <= end_address'
              BY <6>3, LayFacts
            <7> QED
              BY <6>1, <7>1
          <6> HIDE DEF T
          <6> QED
            BY <6>1, <6>2, <6>4, HighestHole
        <5>3. size_of(mem', Max(T)) = size_of(m2, Max(T))
          BY <1>4, <1>7, <5>2
        <5> QED
          BY <1>4, <5>1, <5>3
      <4> QED
        BY <4>1 DEF TailOnTop, size_of, word
    <3>10. Expanding(d)'
      <4>1. heap_length' = heap_length
        BY <1>4 DEF heap_length
      <4>2. /\ d \in Call /\ d.pc = "expand" /\ d.align = FALSE /\ d.size \in Sizes
            /\ d.old_len = heap_length' /\ d.old_end_addr = end_address'
            /\ d.new_size = expanded_length(heap_length' + d.size + Overhead)
            /\ start_address + d.new_size <= max_address
            /\ d.it \in heap_length' .. d.new_size /\ d.it % PAGE = 0
            /\ gap_page .. (page_of(start_address + d.it) - 1) \subseteq mapped'
        BY <1>4, <2>2, <4>1 DEF Expanding
      <4> QED
        BY <3>8, <3>9, <4>2 DEF Expanding, expanded_length, gap_page, page_of
    <3> QED
      BY <3>2, <3>10 DEF Calls
  <2> QED
    BY <1>1, <2>1, <2>2 DEF Calls
<1>11. IInv'
  BY <1>7, <1>9, <1>10 DEF IInv
<1> QED
  BY <1>2, <1>4, <1>6, <1>8, <1>11

\* A stack of one call, with its record changed
LEMMA ReplaceOnly ==
  ASSUME NEW c, calls = << c >>, NEW x
  PROVE  [calls EXCEPT ![Len(calls)] = x] = << x >>
<1> DEFINE S == {c, x}
           f == [calls EXCEPT ![Len(calls)] = x]
           g == << x >>
<1>1. Len(calls) = 1 /\ calls \in Seq(S) /\ g \in Seq(S) /\ Len(g) = 1 /\ g[1] = x
      /\ x \in S
  OBVIOUS
<1> HIDE DEF S, g
<1>2. f \in Seq(S) /\ Len(f) = 1 /\ f[1] = x
  BY <1>1
<1> HIDE DEF f
<1>3. f = g
  BY <1>1, <1>2, SeqEqual
<1> QED
  BY <1>3 DEF f, g

\* A set of table numbers with one element
LEMMA OneTable ==
  ASSUME NEW lo \in Nat, NEW hi \in Nat, NEW S, S \subseteq { table_of(g) : g \in lo .. hi },
         Cardinality(S) = 1
  PROVE  \E t : S = {t}
<1>1. ASSUME NEW g \in lo .. hi PROVE table_of(g) \in Nat /\ table_of(g) <= hi
  <2> DEFINE q == g \div TABLE
             r == g % TABLE
  <2>1. TABLE \in Nat /\ TABLE > 0 /\ g \in Nat /\ g <= hi
    BY Numbers
  <2>2. q \in Nat /\ r \in Nat /\ g = TABLE * q + r
    BY <2>1, Division
  <2> HIDE DEF q, r
  <2>3. TABLE * q \in Nat /\ q <= TABLE * q
    BY <2>1, <2>2
  <2>4. q <= hi
    BY <2>1, <2>2, <2>3
  <2> QED
    BY <2>2, <2>4 DEF table_of, q
<1>2. S \in SUBSET Nat /\ \A x \in S : x <= hi
  BY <1>1
<1>3. IsFiniteSet(S)
  BY <1>2, FS_BoundedSetOfNaturals
<1> QED
  BY <1>3, FS_Singleton

-----------------------------------------------------------------------------
\* What a step that leaves memory and index alone does not change

LEMMA FindSame ==
  ASSUME mem' = mem, index' = index, NEW need, NEW align
  PROVE  find_smallest_hole(need, align)' = find_smallest_hole(need, align)
BY DEF find_smallest_hole, SelectInSeq, fits, size_of, word

LEMMA CarveSame ==
  ASSUME mem' = mem, index' = index, end_address' = end_address,
         NEW it, NEW size, NEW align
  PROVE  carve(it, size, align)' = carve(it, size, align)
BY DEF carve

LEMMA TableReadySame ==
  ASSUME mem' = mem, index' = index, end_address' = end_address, TableReady
  PROVE  TableReady'
<1> DEFINE it == find_smallest_hole(PAGE + Overhead, TRUE)
           c == carve(it, PAGE, TRUE)
<1>1. it' = it
  BY FindSame
<1>2. it # 0 /\ AlignIsSafe(index[it], PAGE) /\ TailOnTop(over(c.words, mem), c.index)
  BY DEF TableReady
<1> HIDE DEF it
<1>3. \A i : carve(i, PAGE, TRUE)' = carve(i, PAGE, TRUE)
  BY CarveSame
<1>4. c' = c
  BY <1>1, <1>3
<1>5. AlignIsSafe(index[it], PAGE)'
  BY <1>1, <1>2 DEF AlignIsSafe, size_of, word
<1> HIDE DEF c
<1>6. TailOnTop(over(c.words, mem), c.index)'
  BY <1>2, <1>4 DEF TailOnTop
<1>7. (it # 0)'
  BY <1>1, <1>2
<1> QED
  BY <1>5, <1>6, <1>7 DEF TableReady, it, c

\* A step that changes only calls and status keeps the rest of the invariant.
LEMMA HeapSame ==
  ASSUME Layout, Blocks, Memory, mem' = mem, index' = index, end_address' = end_address,
         mapped' = mapped, live' = live
  PROVE  Layout' /\ Blocks' /\ Memory'
<1>1. Layout'
  BY DEF Layout, BlockHeaders, Holes
<1>2. Blocks'
  BY DEF Blocks, size_of, word
<1>3. Memory'
  BY DEF Memory, gap_page, page_of
<1> QED
  BY <1>1, <1>2, <1>3

\* The call that expands the heap begins its loop at the end of the heap.
LEMMA LoopBegins ==
  ASSUME Memory, NEW size \in Sizes, ExpandIsSafe(size),
         NEW n, n = heap_length + size + Overhead, expand_allowed(n % W),
         NEW d \in Call, d.pc = "expand", d.align = FALSE, d.size = size,
         d.it = heap_length, d.new_size = expanded_length(n),
         d.old_len = heap_length, d.old_end_addr = end_address
  PROVE  Expanding(d)
<1>1. /\ end_address \in Nat /\ start_address < end_address
      /\ end_address <= max_address /\ end_address < W /\ end_address % PAGE = 0
      /\ heap_length \in Nat /\ heap_length % PAGE = 0 /\ heap_length >= PAGE
      /\ start_address + heap_length = end_address
  BY HeapNumbers
<1>2. /\ n \in Nat /\ n = heap_length + size + 5 /\ n % W = n
      /\ expanded_length(n) \in Nat /\ expanded_length(n) % PAGE = 0
      /\ n < expanded_length(n) /\ expanded_length(n) <= n + PAGE
  BY Rounded
<1> DEFINE x == expanded_length(n)
           a == start_address + x
<1>3. size \in Nat /\ max_address + size + 5 + PAGE < W
  BY Numbers
<1>4. a % W <= max_address
  BY <1>2 DEF expand_allowed
<1>5. x \in Nat /\ n < x /\ x <= n + PAGE /\ d.new_size = x
  BY <1>2
<1> HIDE DEF x
<1>6. a \in Nat /\ a < W
  BY <1>1, <1>2, <1>3, <1>5, Numbers
<1>7. a <= max_address
  <2> HIDE DEF a
  <2> QED
    BY <1>4, <1>6, Mod
<1>8. d.it \in heap_length .. d.new_size
  BY <1>1, <1>2, <1>3, <1>5
<1>9. gap_page .. (page_of(start_address + d.it) - 1) \subseteq mapped
  BY <1>1 DEF Memory
<1> DEFINE S == { table_of(g) : g \in page_of(end_address) .. page_of(start_address + x - 1) }
<1>10. Needed(d) = S \ tables
  BY <1>1, <1>5 DEF Needed
<1>11. \/ S \ tables = {} /\ TailOnTop(mem, index)
       \/ Cardinality(S \ tables) = 1 /\ TableReady
  BY DEF ExpandIsSafe, TableReady, x
<1>12. Cardinality(S \ tables) = 1 => \E t : S \ tables = {t}
  <2> DEFINE lo == page_of(end_address)
             b == start_address + x - 1
             hi == page_of(b)
  <2>1. b \in Nat /\ b < W
    BY <1>5, <1>6, Numbers
  <2> HIDE DEF b
  <2>2. lo \in Nat /\ hi \in Nat
    BY <1>1, <2>1, PageNumber
  <2>3. S = { table_of(g) : g \in lo .. hi }
    BY DEF b
  <2> HIDE DEF lo, hi, S
  <2>4. S \ tables \subseteq { table_of(g) : g \in lo .. hi }
    BY <2>3
  <2> DEFINE T == S \ tables
  <2> HIDE DEF T
  <2>5. T \subseteq { table_of(g) : g \in lo .. hi }
    BY <2>4 DEF T
  <2>6. Cardinality(T) = 1 => \E t : T = {t}
    BY <2>2, <2>5, OneTable
  <2> QED
    BY <2>6 DEF T
<1> HIDE DEF S
<1>13. \/ Needed(d) = {} /\ TailOnTop(mem, index)
       \/ (\E t : Needed(d) = {t}) /\ TableReady
  BY <1>10, <1>11, <1>12
<1>14. d.new_size = expanded_length(heap_length + d.size + Overhead)
  BY <1>5 DEF x
<1>15. start_address + d.new_size <= max_address /\ d.it % PAGE = 0
  BY <1>1, <1>5, <1>7
<1> QED
  BY <1>8, <1>9, <1>13, <1>14, <1>15 DEF Expanding

\* The loop of expand is not disturbed by a step that leaves the heap alone.
LEMMA ExpandingSame ==
  ASSUME NEW c, Expanding(c), mem' = mem, index' = index, end_address' = end_address,
         mapped \subseteq mapped', tables' = tables
  PROVE  Expanding(c)'
<1>1. heap_length' = heap_length /\ gap_page' = gap_page
  BY DEF heap_length, gap_page, page_of
<1>2. \A n : expanded_length(n)' = expanded_length(n)
  BY DEF expanded_length
<1>3. Needed(c)' = Needed(c)
  BY DEF Needed, page_of
<1>4. TailOnTop(mem, index) => TailOnTop(mem, index)'
  BY DEF TailOnTop, size_of, word
<1>5. TableReady => TableReady'
  BY TableReadySame
<1>6. /\ c \in Call /\ c.pc = "expand" /\ c.align = FALSE /\ c.size \in Sizes
      /\ c.old_len = heap_length' /\ c.old_end_addr = end_address'
      /\ c.new_size = expanded_length(heap_length' + c.size + Overhead)
      /\ start_address + c.new_size <= max_address
      /\ c.it \in heap_length' .. c.new_size /\ c.it % PAGE = 0
      /\ gap_page .. (page_of(start_address + c.it) - 1) \subseteq mapped'
  BY <1>1 DEF Expanding
<1>7. \/ Needed(c)' = {} /\ TailOnTop(mem, index)'
      \/ (\E t : Needed(c)' = {t}) /\ TableReady'
  BY <1>3, <1>4, <1>5 DEF Expanding
<1> QED
  BY <1>1, <1>6, <1>7 DEF Expanding, expanded_length, gap_page, page_of

\* alloc finds no hole: expand begins, or the heap is full.
LEMMA AllocMiss ==
  ASSUME IInv, alloc_miss
  PROVE  IInv' /\ live' = live
<1>1. /\ Layout /\ Blocks /\ Memory /\ Calls /\ status = "ok"
      /\ find_smallest_hole(top.size + Overhead, top.align) = 0
      /\ calls # << >> /\ top.pc = "find"
  BY DEF IInv, alloc_miss, running
<1>2. PICK c : calls = << c >> /\ Asked(c)
  <2>1. ASSUME NEW c, calls = << c >>, Expanding(c) PROVE FALSE
    BY <1>1, <2>1, OneCall DEF Expanding
  <2>2. ASSUME NEW c, calls = << c, new_call(PAGE, TRUE) >>, Expanding(c), c.it < c.new_size,
               table_of(page_of(start_address + c.it)) \notin tables
        PROVE  FALSE
    <3>1. top = new_call(PAGE, TRUE)
      BY <2>2, TwoCalls
    <3>2. top.size = PAGE /\ top.align = TRUE
      BY <3>1 DEF new_call
    <3>3. Needed(c) # {}
      BY <1>1, <2>2, NeededNow
    <3>4. TableReady
      BY <2>2, <3>3 DEF Expanding
    <3> QED
      BY <1>1, <3>2, <3>4 DEF TableReady
  <2> QED
    BY <1>1, <2>1, <2>2 DEF Calls
<1>3. top = c /\ Len(calls) = 1 /\ calls[Len(calls)] = c
  BY <1>2, OneCall
<1>4. c \in Call /\ c.align = FALSE /\ c.size \in Sizes /\ ExpandIsSafe(c.size)
  BY <1>1, <1>2, <1>3 DEF Asked, AllocIsSafe
<1>5. PICK n : n = heap_length + c.size + Overhead
  OBVIOUS
<1>6. PICK d : d = [c EXCEPT !.pc = "expand", !.it = heap_length,
                             !.new_size = expanded_length(n % W),
                             !.old_len = heap_length, !.old_end_addr = end_address]
  OBVIOUS
<1>7. /\ mem' = mem /\ index' = index /\ end_address' = end_address /\ mapped' = mapped
      /\ tables' = tables /\ live' = live
      /\ \/ /\ expand_allowed(n % W) /\ status' = status
            /\ calls' = [calls EXCEPT ![Len(calls)] = d]
         \/ status' = "out_of_memory" /\ calls' = calls
  BY <1>3, <1>5, <1>6 DEF alloc_miss, panic
<1>8. Layout' /\ Blocks' /\ Memory'
  BY <1>1, <1>7, HeapSame
<1>9. CASE status' = "out_of_memory" /\ calls' = calls
  <2>1. status' = "out_of_memory" /\ Len(calls') = 1
    BY <1>3, <1>9
  <2>2. Calls'
    BY <2>1 DEF Calls
  <2> QED
    BY <1>7, <1>8, <2>1, <2>2 DEF IInv
<1>10. CASE expand_allowed(n % W) /\ status' = status /\ calls' = [calls EXCEPT ![Len(calls)] = d]
  <2>1. calls' = << d >>
    BY <1>2, <1>10, ReplaceOnly
  <2>2. n % W = n /\ expanded_length(n) \in Nat
    BY <1>1, <1>4, <1>5, Rounded
  <2>3. heap_length \in Nat /\ end_address \in Nat
    BY <1>1, HeapNumbers
  <2>4. /\ d \in Call /\ d.pc = "expand" /\ d.it = heap_length
        /\ d.new_size = expanded_length(n) /\ d.old_len = heap_length
        /\ d.old_end_addr = end_address /\ d.size = c.size /\ d.align = FALSE
    <3> DEFINE x == expanded_length(n % W)
               l == heap_length
    <3>1. x \in Nat /\ x = expanded_length(n) /\ l \in Nat /\ l = heap_length
      BY <2>2, <2>3
    <3>2. d = [c EXCEPT !.pc = "expand", !.it = l, !.new_size = x, !.old_len = l,
                        !.old_end_addr = end_address]
      BY <1>6
    <3> HIDE DEF x, l
    <3> QED
      BY <1>4, <2>3, <3>1, <3>2 DEF Call
  <2>5. Expanding(d)
    <3> DEFINE size == c.size
    <3>1. size \in Sizes /\ ExpandIsSafe(size) /\ n = heap_length + size + Overhead
          /\ d.size = size
      BY <1>4, <1>5, <2>4
    <3> HIDE DEF size
    <3> QED
      BY <1>1, <1>10, <2>4, <3>1, LoopBegins
  <2>6. Expanding(d)'
    BY <1>7, <2>5, ExpandingSame
  <2>7. Calls'
    BY <2>1, <2>6 DEF Calls
  <2> QED
    BY <1>1, <1>7, <1>8, <1>10, <2>7 DEF IInv
<1> QED
  BY <1>7, <1>9, <1>10

-----------------------------------------------------------------------------
(***************************************************************************)
(* expand                                                                  *)
(***************************************************************************)

\* Only the call of a client expands the heap.
LEMMA InLoop ==
  ASSUME IInv, running("expand")
  PROVE  /\ Layout /\ Blocks /\ Memory /\ status = "ok"
         /\ \E c : calls = << c >> /\ Expanding(c) /\ top = c
<1>1. /\ Layout /\ Blocks /\ Memory /\ Calls /\ status = "ok"
      /\ calls # << >> /\ top.pc = "expand"
  BY DEF IInv, running
<1>2. ASSUME NEW c, calls = << c >>, Asked(c) PROVE FALSE
  BY <1>1, <1>2, OneCall DEF Asked
<1>3. ASSUME NEW c, calls = << c, new_call(PAGE, TRUE) >> PROVE FALSE
  <2>1. top = new_call(PAGE, TRUE)
    BY <1>3, TwoCalls
  <2> QED
    BY <1>1, <2>1 DEF new_call
<1>4. PICK c : calls = << c >> /\ Expanding(c)
  BY <1>1, <1>2, <1>3 DEF Calls
<1>5. top = c
  BY <1>4, OneCall
<1> QED
  BY <1>1, <1>4, <1>5

LEMMA PageBound ==
  ASSUME NEW a \in Nat, a < W
  PROVE  page_of(a) \in 0 .. (W \div PAGE)
<1> DEFINE p == page_of(a)
           q == W \div PAGE
           r == W % PAGE
           u == PAGE * p
           v == PAGE * q
<1>1. p \in Nat /\ u <= a
  BY PageNumber
<1>2. q \in Nat /\ r \in Nat /\ W = v + r /\ r < PAGE
  BY Numbers, Division
<1> HIDE DEF p, q, r
<1>3. u \in Nat /\ v \in Nat
  BY <1>1, <1>2, Numbers
<1>4. PAGE * (q + 1) = v + PAGE /\ (u < PAGE * (q + 1) <=> p < q + 1)
  BY <1>1, <1>2, Numbers, Products
<1> DEFINE w == PAGE * (q + 1)
<1> HIDE DEF u, v, w
<1>5. w = v + PAGE /\ (u < w <=> p < q + 1)
  BY <1>4 DEF w
<1>6. u < w
  BY <1>1, <1>2, <1>3, <1>5, Numbers
<1>7. p <= q
  BY <1>1, <1>2, <1>5, <1>6
<1> QED
  BY <1>1, <1>2, <1>7 DEF p, q

\* The loop of expand takes a page.
LEMMA LoopStep ==
  ASSUME Memory, NEW c, Expanding(c), c.it < c.new_size,
         table_of(page_of(start_address + c.it)) \in tables,
         NEW d, d = [c EXCEPT !.it = c.it + PAGE],
         mem' = mem, index' = index, end_address' = end_address, tables' = tables,
         mapped' = mapped \cup {page_of(start_address + c.it)}
  PROVE  Expanding(d)' /\ Memory'
<1> DEFINE a == start_address + c.it
           i == c.it
           n == c.new_size
<1>1. /\ i \in Nat /\ n \in Nat /\ i < n /\ heap_length <= i /\ i % PAGE = 0
      /\ n % PAGE = 0 /\ start_address + n <= max_address /\ a % PAGE = 0
      /\ a \in Nat /\ a < W
  BY LoopNumbers
<1>2. c \in Call
  BY DEF Expanding
<1>3. /\ d \in Call /\ d.pc = c.pc /\ d.align = c.align /\ d.size = c.size
      /\ d.it = i + PAGE /\ d.new_size = n /\ d.old_len = c.old_len
      /\ d.old_end_addr = c.old_end_addr
  <2> DEFINE j == i + PAGE
  <2>1. j \in Nat /\ d = [c EXCEPT !.it = j]
    BY <1>1, Numbers
  <2> HIDE DEF j
  <2>2. /\ d \in Call /\ d.pc = c.pc /\ d.align = c.align /\ d.size = c.size
        /\ d.it = j /\ d.new_size = c.new_size /\ d.old_len = c.old_len
        /\ d.old_end_addr = c.old_end_addr
    BY <1>2, <2>1 DEF Call
  <2> QED
    BY <2>2 DEF j
<1> HIDE DEF i, n
<1>4. i + PAGE <= n
  BY <1>1, RoomForPage
<1>5. (i + PAGE) % PAGE = 0
  <2>1. PAGE \in Nat /\ PAGE = PAGE * 1 /\ 1 \in Int
    BY Numbers
  <2>2. PAGE % PAGE = 0
    BY <2>1, MultipleOf
  <2> QED
    BY <1>1, <2>1, <2>2, Multiples
<1>6. start_address + d.it = a + PAGE /\ a + PAGE < W
  BY <1>1, <1>3, <1>4, Numbers DEF i
<1>7. page_of(start_address + d.it) = page_of(a) + 1 /\ page_of(a) \in Nat
  <2> HIDE DEF a
  <2>1. page_of(a + PAGE) = page_of(a) + 1 /\ page_of(a) \in Nat
    BY <1>1, <1>6, NextPage, PageNumber
  <2> QED
    BY <1>6, <2>1
<1>8. gap_page .. (page_of(start_address + d.it) - 1) \subseteq mapped'
  <2>1. gap_page .. (page_of(a) - 1) \subseteq mapped /\ mapped' = mapped \cup {page_of(a)}
    BY DEF Expanding
  <2>2. gap_page \in Int
    <3>1. start_address \in Nat /\ start_address < W
      BY Numbers
    <3> QED
      BY <3>1, PageNumber DEF gap_page
  <2> QED
    BY <1>7, <2>1, <2>2
<1>9. Needed(d) = Needed(c)
  <2> DEFINE lo == page_of(a)
             z == start_address + n - 1
             hi == page_of(z)
  <2>1. z \in Nat /\ z < W /\ a <= z
    BY <1>1, Numbers DEF i
  <2> HIDE DEF z, a
  <2>2. hi \in Nat /\ lo \in Nat /\ lo <= hi
    BY <1>1, <2>1, PageNumber, PagesOrdered
  <2>3. Needed(d) = { table_of(g) : g \in (lo + 1) .. hi } \ tables
    BY <1>3, <1>7 DEF Needed, z
  <2>4. Needed(c) = { table_of(g) : g \in lo .. hi } \ tables
    BY DEF Needed, z, a, n
  <2>5. table_of(lo) \in tables
    BY DEF a
  <2> HIDE DEF lo, hi
  <2>6. \A g \in lo .. hi : g = lo \/ g \in (lo + 1) .. hi
    BY <2>2
  <2>7. (lo + 1) .. hi \subseteq lo .. hi
    BY <2>2
  <2> QED
    BY <2>3, <2>4, <2>5, <2>6, <2>7
<1>10. Expanding(c)'
  BY ExpandingSame
<1>11. Needed(d)' = Needed(c)'
  <2>1. Needed(d)' = Needed(d) /\ Needed(c)' = Needed(c)
    BY DEF Needed, page_of
  <2> QED
    BY <1>9, <2>1
<1>12. heap_length' = heap_length /\ heap_length \in Nat
  BY HeapNumbers DEF heap_length
<1>13. d.it \in heap_length' .. d.new_size /\ d.it % PAGE = 0
  BY <1>1, <1>3, <1>4, <1>5, <1>12, Numbers
<1>14. Expanding(d)'
  <2>1. /\ c.pc = "expand" /\ c.align = FALSE /\ c.size \in Sizes
        /\ c.old_len = heap_length' /\ c.old_end_addr = end_address'
        /\ c.new_size = expanded_length(heap_length' + c.size + Overhead)
        /\ start_address + c.new_size <= max_address
        /\ \/ Needed(c)' = {} /\ TailOnTop(mem, index)'
           \/ (\E t : Needed(c)' = {t}) /\ TableReady'
    BY <1>10 DEF Expanding, expanded_length
  <2>2. /\ d.pc = "expand" /\ d.align = FALSE /\ d.size \in Sizes
        /\ d.old_len = heap_length' /\ d.old_end_addr = end_address'
        /\ d.new_size = expanded_length(heap_length' + d.size + Overhead)
        /\ start_address + d.new_size <= max_address
    BY <1>3, <2>1 DEF n
  <2>3. \/ Needed(d)' = {} /\ TailOnTop(mem, index)'
        \/ (\E t : Needed(d)' = {t}) /\ TableReady'
    BY <1>11, <2>1
  <2> QED
    BY <1>3, <1>8, <1>13, <2>2, <2>3 DEF Expanding, expanded_length, gap_page, page_of
<1>15. Memory'
  <2>1. page_of(a) \in 0 .. (W \div PAGE)
    <3> HIDE DEF a
    <3> QED
      BY <1>1, PageBound
  <2>2. mapped' \subseteq 0 .. (W \div PAGE) /\ mapped \subseteq mapped'
    BY <2>1 DEF Memory
  <2>3. gap_page .. (page_of(end_address) - 1) \subseteq mapped'
    BY <2>2 DEF Memory
  <2> QED
    BY <2>2, <2>3 DEF Memory, gap_page, page_of
<1> QED
  BY <1>14, <1>15

LEMMA ExpandPage ==
  ASSUME IInv, expand_page
  PROVE  IInv' /\ live' = live
<1>1. Layout /\ Blocks /\ Memory /\ status = "ok"
  BY InLoop DEF expand_page
<1>2. PICK c : calls = << c >> /\ Expanding(c) /\ top = c
  BY InLoop DEF expand_page
<1>3. PICK d : d = [c EXCEPT !.it = c.it + PAGE]
  OBVIOUS
<1>4. Len(calls) = 1 /\ calls[Len(calls)] = c
  BY <1>2, OneCall
<1>5. /\ c.it < c.new_size /\ table_of(page_of(start_address + c.it)) \in tables
      /\ mapped' = mapped \cup {page_of(start_address + c.it)}
      /\ mem' = mem /\ index' = index /\ end_address' = end_address /\ tables' = tables
      /\ live' = live /\ status' = status
  BY <1>2 DEF expand_page, expand_page_number
<1>6. calls' = << d >>
  <2>1. calls' = [calls EXCEPT ![Len(calls)] = d]
    BY <1>3, <1>4 DEF expand_page
  <2> QED
    BY <1>2, <2>1, ReplaceOnly
<1>7. Expanding(d)' /\ Memory'
  BY <1>1, <1>2, <1>3, <1>5, LoopStep
<1>8. Layout' /\ Blocks'
  <2>1. Layout'
    BY <1>1, <1>5 DEF Layout, BlockHeaders, Holes
  <2>2. Blocks'
    BY <1>1, <1>5 DEF Blocks, size_of, word
  <2> QED
    BY <2>1, <2>2
<1>9. Calls'
  BY <1>6, <1>7 DEF Calls
<1> QED
  BY <1>1, <1>5, <1>7, <1>8, <1>9 DEF IInv

\* get_page's call of alloc, while the heap has its old end
LEMMA ExpandNeedsTable ==
  ASSUME IInv, expand_needs_table
  PROVE  IInv' /\ live' = live
<1>1. Layout /\ Blocks /\ Memory /\ status = "ok"
  BY InLoop DEF expand_needs_table
<1>2. PICK c : calls = << c >> /\ Expanding(c) /\ top = c
  BY InLoop DEF expand_needs_table
<1>3. Len(calls) = 1 /\ StackDepth \in Nat /\ StackDepth >= 2
  BY <1>2, OneCall, Numbers
<1>4. Len(calls) < StackDepth
  BY <1>3
<1>5. /\ c.it < c.new_size /\ table_of(page_of(start_address + c.it)) \notin tables
      /\ calls' = Append(calls, new_call(PAGE, TRUE))
      /\ mem' = mem /\ index' = index /\ end_address' = end_address /\ tables' = tables
      /\ mapped' = mapped /\ live' = live /\ status' = status
  BY <1>2, <1>4 DEF expand_needs_table, expand_page_number
<1>6. calls' = << c, new_call(PAGE, TRUE) >>
  <2> DEFINE x == new_call(PAGE, TRUE)
             S == {c, x}
             f == Append(<< c >>, x)
             g == << c, x >>
  <2> HIDE DEF x
  <2>1. /\ << c >> \in Seq(S) /\ x \in S /\ Len(<< c >>) = 1 /\ << c >>[1] = c
        /\ g \in Seq(S) /\ Len(g) = 2 /\ g[1] = c /\ g[2] = x
    OBVIOUS
  <2> HIDE DEF S, g
  <2>2. f \in Seq(S) /\ Len(f) = 2 /\ f[1] = c /\ f[2] = x
    BY <2>1
  <2> HIDE DEF f
  <2>3. \A i \in 1 .. Len(f) : f[i] = g[i]
    BY <2>1, <2>2
  <2>4. f = g
    BY <2>1, <2>2, <2>3, SeqEqual
  <2> QED
    BY <1>2, <1>5, <2>4 DEF x, f, g
<1>7. Expanding(c)'
  BY <1>2, <1>5, ExpandingSame
<1>8. Layout' /\ Blocks' /\ Memory'
  BY <1>1, <1>5, HeapSame
<1>9. Calls'
  <2>1. table_of(page_of(start_address + c.it)) \notin tables'
    BY <1>5
  <2>2. new_call(PAGE, TRUE)' = new_call(PAGE, TRUE)
    BY DEF new_call
  <2> QED
    BY <1>5, <1>6, <1>7, <2>1, <2>2 DEF Calls, page_of, table_of
<1> QED
  BY <1>1, <1>5, <1>8, <1>9 DEF IInv

-----------------------------------------------------------------------------
(***************************************************************************)
(* Writes of single words                                                  *)
(***************************************************************************)
Value == {HEAP_MAGIC} \cup 0 .. (W - 1)

\* m2 is m with words written between lo and hi.
Touched(m, m2, lo, hi) ==
  /\ Within(m, m2, lo, hi)
  /\ DOMAIN m2 \subseteq DOMAIN m \cup lo .. (hi - 1)
  /\ (\A a \in DOMAIN m : m[a] \in Value) => \A a \in DOMAIN m2 : m2[a] \in Value

LEMMA TouchOver ==
  ASSUME NEW w, NEW m, NEW m2, m2 = over(w, m), NEW lo \in Nat, NEW hi \in Nat,
         \A a \in DOMAIN w : a \in Nat /\ lo <= a /\ a < hi /\ w[a] \in Value
  PROVE  Touched(m, m2, lo, hi)
<1>1. Within(m, m2, lo, hi)
  BY OverWithin
<1>2. DOMAIN m2 = DOMAIN w \cup DOMAIN m
      /\ \A a \in DOMAIN m2 : m2[a] = IF a \in DOMAIN w THEN w[a] ELSE m[a]
  BY DEF over
<1>3. DOMAIN w \subseteq lo .. (hi - 1)
  OBVIOUS
<1>4. DOMAIN m2 \subseteq DOMAIN m \cup lo .. (hi - 1)
  BY <1>2, <1>3
<1>5. ASSUME \A a \in DOMAIN m : m[a] \in Value PROVE \A a \in DOMAIN m2 : m2[a] \in Value
  BY <1>2, <1>5
<1> QED
  BY <1>1, <1>4, <1>5 DEF Touched

LEMMA TouchWord ==
  ASSUME NEW m, NEW a \in Nat, a < W, NEW v \in Value, NEW m2, m2 = over(set_word(a, v), m),
         NEW lo \in Nat, NEW hi \in Nat, lo <= a, a < hi
  PROVE  Touched(m, m2, lo, hi)
<1> DEFINE w == set_word(a, v)
<1>1. DOMAIN w = {a} /\ w[a] = v
  BY SetWord
<1>2. m2 = over(w, m)
  OBVIOUS
<1> HIDE DEF w
<1>3. \A x \in DOMAIN w : x \in Nat /\ lo <= x /\ x < hi /\ w[x] \in Value
  BY <1>1
<1> QED
  BY <1>2, <1>3, TouchOver

LEMMA TouchFooter ==
  ASSUME NEW m, NEW f \in Nat, f + 1 < W, NEW h \in Nat, h < W,
         NEW m2, m2 = over(put_footer(f, h), m),
         NEW lo \in Nat, NEW hi \in Nat, lo <= f, f + 1 < hi
  PROVE  Touched(m, m2, lo, hi)
<1> DEFINE w == put_footer(f, h)
<1>1. DOMAIN w = {f, f + 1} /\ w[f] = HEAP_MAGIC /\ w[f + 1] = h
  BY PutFooter
<1>2. m2 = over(w, m)
  OBVIOUS
<1> HIDE DEF w
<1>3. HEAP_MAGIC \in Value /\ h \in Value
  BY Numbers DEF Value
<1>4. \A x \in DOMAIN w : x \in Nat /\ lo <= x /\ x < hi /\ w[x] \in Value
  BY <1>1, <1>3
<1> QED
  BY <1>2, <1>4, TouchOver

LEMMA TouchHeader ==
  ASSUME NEW m, NEW h \in Nat, h + 2 < W, NEW hole \in {0, 1}, NEW n \in Nat, n < W,
         NEW m2, m2 = over(put_header(h, hole, n), m),
         NEW lo \in Nat, NEW hi \in Nat, lo <= h, h + 2 < hi
  PROVE  Touched(m, m2, lo, hi)
<1> DEFINE w == put_header(h, hole, n)
<1>1. m2 = over(w, m)
  OBVIOUS
<1>2. DOMAIN w = {h, h + 1, h + 2}
  BY HeaderDomain
<1>3. w[h] = HEAP_MAGIC /\ w[h + 1] = hole /\ w[h + 2] = n
  <2> HIDE DEF w
  <2>1. w = put_header(h, hole, n)
    BY DEF w
  <2> QED
    BY <2>1, PutHeader
<1> HIDE DEF w
<1>4. HEAP_MAGIC \in Value /\ hole \in Value /\ n \in Value
  BY Numbers DEF Value
<1>5. \A x \in DOMAIN w : x \in Nat /\ lo <= x /\ x < hi /\ w[x] \in Value
  BY <1>2, <1>3, <1>4
<1> QED
  BY <1>1, <1>5, TouchOver

LEMMA TouchedThen ==
  ASSUME NEW m, NEW m1, NEW m2, NEW lo \in Nat, NEW hi \in Nat,
         Touched(m, m1, lo, hi), Touched(m1, m2, lo, hi)
  PROVE  Touched(m, m2, lo, hi)
BY DEF Touched, Within

LEMMA TouchedWider ==
  ASSUME NEW m, NEW m2, NEW lo \in Nat, NEW hi \in Nat, Touched(m, m2, lo, hi),
         NEW l \in Nat, NEW h \in Nat, l <= lo, hi <= h
  PROVE  Touched(m, m2, l, h)
<1>1. Within(m, m2, l, h)
  BY DEF Touched, Within
<1>2. lo .. (hi - 1) \subseteq l .. (h - 1)
  OBVIOUS
<1> QED
  BY <1>1, <1>2 DEF Touched

LEMMA DomainTouched ==
  ASSUME NEW m, NEW m2, NEW lo \in Nat, NEW hi \in Nat, Touched(m, m2, lo, hi),
         NEW s \in Nat, NEW e \in Nat, NEW e2 \in Nat, s <= lo, hi <= e2, e <= e2,
         DOMAIN m \subseteq s .. (e - 1)
  PROVE  DOMAIN m2 \subseteq s .. (e2 - 1)
<1>1. lo .. (hi - 1) \subseteq s .. (e2 - 1) /\ s .. (e - 1) \subseteq s .. (e2 - 1)
  OBVIOUS
<1> QED
  BY <1>1 DEF Touched

\* The rest of the invariant after writes between lo and hi
LEMMA MemoryTouched ==
  ASSUME Memory, NEW lo \in Nat, NEW hi \in Nat, Touched(mem, mem', lo, hi),
         start_address <= lo, hi <= end_address', end_address <= end_address',
         index' \in Seq(Nat), end_address' \in Nat, end_address' <= max_address,
         end_address' % PAGE = 0, mapped' = mapped,
         gap_page .. (page_of(end_address') - 1) \subseteq mapped
  PROVE  Memory'
<1>1. end_address \in initial_end .. max_address /\ end_address \in Nat
  BY HeapNumbers DEF Memory
<1>2. DOMAIN mem' \subseteq start_address .. (end_address' - 1)
  <2>1. DOMAIN mem \subseteq start_address .. (end_address - 1)
    BY DEF Memory
  <2>2. start_address \in Nat
    BY Numbers
  <2> QED
    BY <1>1, <2>1, <2>2, DomainTouched, Zenon
<1>3. \A a \in DOMAIN mem' : mem'[a] \in {HEAP_MAGIC} \cup 0 .. (W - 1)
  BY DEF Touched, Memory, Value
<1>4. end_address' \in initial_end .. max_address
  BY <1>1, Numbers
<1>5. mapped' \subseteq 0 .. (W \div PAGE)
  BY DEF Memory
<1> QED
  BY <1>2, <1>3, <1>4, <1>5 DEF Memory, gap_page, page_of

LEMMA BlocksTouched ==
  ASSUME Layout, Blocks, NEW lo \in Nat, NEW hi \in Nat, Touched(mem, mem', lo, hi),
         NEW D, DOMAIN live' = D, D \subseteq DOMAIN live,
         \A q \in D : live'[q] = live[q] /\ size_of(mem', q - 3) = size_of(mem, q - 3)
                      /\ (q - 3 + size_of(mem, q - 3) <= lo \/ hi <= q - 3)
  PROVE  Blocks'
<1>1. ASSUME NEW q \in D
      PROVE  /\ q \in Nat /\ live'[q].size \in Sizes \cup AlignedSizes \cup {PAGE}
             /\ live'[q].size + Overhead <= size_of(mem', q - Header)
             /\ live'[q].written => Payload(q, live'[q].size) \cap DOMAIN mem' = {}
  <2> DEFINE r == q - 3
             u == size_of(mem, r)
             k == live[q].size
  <2>1. /\ q \in Nat /\ r \in Nat /\ k \in Nat /\ u \in Nat /\ k + 5 <= u
    BY <1>1, BlockFacts
  <2>2. /\ live'[q] = live[q] /\ size_of(mem', r) = u /\ (r + u <= lo \/ hi <= r)
    BY <1>1
  <2>3. /\ k \in Sizes \cup AlignedSizes \cup {PAGE}
        /\ live[q].written => Payload(q, k) \cap DOMAIN mem = {}
    BY <1>1 DEF Blocks
  <2>4. q - Header = r /\ q = r + 3
    BY <2>1, Numbers
  <2>5. k + Overhead <= size_of(mem', q - Header)
    BY <2>1, <2>2, <2>4, Numbers
  <2> HIDE DEF u, k
  <2>6. Payload(q, k) \cap lo .. (hi - 1) = {}
    BY <2>1, <2>2, <2>4 DEF Payload
  <2>7. ASSUME live[q].written PROVE Payload(q, k) \cap DOMAIN mem' = {}
    BY <2>3, <2>6, <2>7 DEF Touched
  <2> QED
    BY <2>1, <2>2, <2>3, <2>5, <2>7 DEF k
<1> QED
  BY <1>1 DEF Blocks

-----------------------------------------------------------------------------
\* The hole that ends the heap takes g more words.
LEMMA TailGrows ==
  ASSUME NEW m, NEW B, NEW H, NEW e, Lay(m, B, H, e), NEW g \in Nat, e + g < W,
         NEW h \in H, h + size_of(m, h) = e, NEW m1, m1 = grow(m, h, g),
         NEW m2, m2 = over(put_footer(h + size_of(m1, h) - Footer, h), m1)
  PROVE  /\ Lay(m2, B, H, e + g) /\ Touched(m, m2, h, e + g)
         /\ size_of(m2, h) = size_of(m, h) + g
<1> DEFINE s == size_of(m, h)
           n == s + g
           f == h + n - 2
<1>1. h \in Nat /\ s \in Nat /\ s >= 5 /\ e \in Nat /\ h + s = e
  BY LayFacts
<1> HIDE DEF s
<1>2. /\ n \in Nat /\ n >= 5 /\ n < W /\ h + n < W /\ h + n = e + g /\ e + g \in Nat
      /\ f \in Nat /\ f >= h + 3 /\ f + 1 < W /\ f + 1 = h + n - 1 /\ h + 2 \in Nat /\ h + 2 < W
      /\ h + 1 \in Nat /\ h + 1 < W /\ h < W /\ f + 1 \in Nat /\ f < W /\ f + 1 < e + g
  BY <1>1, Numbers
<1>3. n % W = n
  BY <1>2, Mod
<1>4. m1 = over(set_word(h + 2, n), m)
  BY <1>3 DEF grow, s
<1> HIDE DEF n
<1>5. DOMAIN set_word(h + 2, n) = {h + 2} /\ set_word(h + 2, n)[h + 2] = n
  BY <1>2, SetWord
<1>6. \A a \in Nat : a < W => word(m1, a) = IF a = h + 2 THEN n ELSE word(m, a)
  BY <1>4, <1>5, WordOver
<1>7. size_of(m1, h) = n
  BY <1>2, <1>6 DEF size_of
<1>8. h + size_of(m1, h) - Footer = f
  BY <1>7, Numbers
<1>9. m2 = over(put_footer(f, h), m1)
  BY <1>8
<1> HIDE DEF f
<1>10. /\ DOMAIN put_footer(f, h) = {f, f + 1} /\ put_footer(f, h)[f] = HEAP_MAGIC
       /\ put_footer(f, h)[f + 1] = h
  BY <1>1, <1>2, PutFooter
<1>11. \A a \in Nat : a < W =>
         word(m2, a) = IF a = f THEN HEAP_MAGIC ELSE IF a = f + 1 THEN h ELSE word(m1, a)
  BY <1>2, <1>9, <1>10, WordOver
<1>12. /\ word(m2, f) = HEAP_MAGIC /\ word(m2, f + 1) = h /\ word(m2, h + 2) = n
       /\ word(m2, h) = word(m, h) /\ word(m2, h + 1) = word(m, h + 1)
  BY <1>1, <1>2, <1>6, <1>11
<1>13. word(m, h) = HEAP_MAGIC /\ word(m, h + 1) = 1
  BY DEF Lay, Sound, magic, is_hole
<1>14. Sound(m2, h, 1, n, e + g)
  <2>1. word(m2, h + n - 2) = HEAP_MAGIC /\ word(m2, h + n - 1) = h
    BY <1>2, <1>12 DEF f
  <2>2. word(m2, h) = HEAP_MAGIC /\ word(m2, h + 1) = 1 /\ word(m2, h + 2) = n
    BY <1>12, <1>13
  <2> QED
    BY <1>1, <1>2, <2>1, <2>2, SoundRegion
<1>15. Touched(m, m2, h, e + g)
  <2>1. n \in Value
    BY <1>2, Numbers DEF Value
  <2>2. Touched(m, m1, h, e + g)
    <3>1. h <= h + 2 /\ h + 2 < e + g
      BY <1>1, <1>2
    <3> QED
      BY <1>1, <1>2, <1>4, <2>1, <3>1, TouchWord
  <2>3. Touched(m1, m2, h, e + g)
    <3>1. h <= f
      BY <1>1, <1>2
    <3> QED
      BY <1>1, <1>2, <1>9, <3>1, TouchFooter
  <2> QED
    BY <1>1, <1>2, <2>2, <2>3, TouchedThen
<1>16. Lay(m2, B, H, e + g)
  <2>1. Within(m, m2, h, e + g)
    BY <1>15 DEF Touched
  <2>2. Sound(m2, h, 1, size_of(m, h) + g, e + g) /\ h + size_of(m, h) = e
    BY <1>14 DEF n, s
  <2> QED
    BY <2>1, <2>2, LayStretch
<1>17. size_of(m2, h) = size_of(m, h) + g
  BY <1>12 DEF size_of, n, s
<1> QED
  BY <1>15, <1>16, <1>17

\* There is no hole: the heap grows by one of g words.
LEMMA TailMade ==
  ASSUME NEW m, NEW B, NEW e, Lay(m, B, {}, e), NEW g \in Nat, g >= 5, e + g < W,
         NEW m2, m2 = over(put_footer(e + g - Footer, e), over(put_header(e, 1, g), m))
  PROVE  /\ Lay(m2, B, {e}, e + g) /\ Touched(m, m2, e, e + g)
         /\ size_of(m2, e) = g /\ e \in Nat
<1> DEFINE m1 == over(put_header(e, 1, g), m)
           f == e + g - 2
<1>1. e \in Nat
  BY LayFacts
<1>2. /\ g < W /\ e + g \in Nat /\ f \in Nat /\ f >= e + 3 /\ f + 1 < W
      /\ f + 1 = e + g - 1 /\ e + 2 \in Nat /\ e + 2 < W /\ e + 1 \in Nat /\ e + 1 < W
      /\ e < W /\ f + 1 \in Nat /\ f < W /\ f + 1 < e + g
  BY <1>1, Numbers
<1>3. e + g - Footer = f
  BY Numbers
<1>4. m2 = over(put_footer(f, e), m1)
  BY <1>3
<1> HIDE DEF f
<1>5. /\ DOMAIN put_footer(f, e) = {f, f + 1} /\ put_footer(f, e)[f] = HEAP_MAGIC
      /\ put_footer(f, e)[f + 1] = e
  BY <1>1, <1>2, PutFooter
<1>6. \A a \in Nat : a < W =>
        word(m2, a) = IF a = f THEN HEAP_MAGIC ELSE IF a = f + 1 THEN e ELSE word(m1, a)
  <2> HIDE DEF m1
  <2> QED
    BY <1>2, <1>4, <1>5, WordOver
<1>7. word(m1, e) = HEAP_MAGIC /\ word(m1, e + 1) = 1 /\ word(m1, e + 2) = g
  <2> DEFINE w == put_header(e, 1, g)
  <2>1. DOMAIN w = {e, e + 1, e + 2}
    BY <1>1, <1>2, HeaderDomain
  <2>2. w[e] = HEAP_MAGIC /\ w[e + 1] = 1 /\ w[e + 2] = g
    <3> HIDE DEF w
    <3>1. w = put_header(e, 1, g)
      BY DEF w
    <3> QED
      BY <1>1, <1>2, <3>1, PutHeader
  <2> HIDE DEF w
  <2>3. \A a \in Nat : a < W => word(m1, a) = IF a \in DOMAIN w THEN w[a] ELSE word(m, a)
    BY WordOver DEF w
  <2> QED
    BY <1>1, <1>2, <2>1, <2>2, <2>3
<1>8. /\ word(m2, f) = HEAP_MAGIC /\ word(m2, f + 1) = e /\ word(m2, e + 2) = g
      /\ word(m2, e) = HEAP_MAGIC /\ word(m2, e + 1) = 1
  <2> HIDE DEF m1
  <2> QED
    BY <1>1, <1>2, <1>6, <1>7
<1>9. Sound(m2, e, 1, g, e + g)
  <2>1. word(m2, e + g - 2) = HEAP_MAGIC /\ word(m2, e + g - 1) = e
    BY <1>2, <1>8 DEF f
  <2> QED
    BY <1>1, <1>2, <1>8, <2>1, SoundRegion
<1>10. Touched(m, m2, e, e + g)
  <2>1. Touched(m, m1, e, e + g)
    <3>1. e <= e /\ e + 2 < e + g /\ 1 \in {0, 1}
      BY <1>1, <1>2
    <3> QED
      BY <1>1, <1>2, <3>1, TouchHeader
  <2>2. Touched(m1, m2, e, e + g)
    <3>1. e <= f
      BY <1>1, <1>2
    <3> HIDE DEF m1
    <3> QED
      BY <1>1, <1>2, <1>4, <3>1, TouchFooter
  <2> HIDE DEF m1
  <2> QED
    BY <1>1, <1>2, <2>1, <2>2, TouchedThen
<1>11. Lay(m2, B, {e}, e + g)
  <2>1. Within(m, m2, e, e + g)
    BY <1>10 DEF Touched
  <2> QED
    BY <1>9, <2>1, LayExtend
<1>12. size_of(m2, e) = g
  BY <1>8 DEF size_of
<1> QED
  BY <1>1, <1>10, <1>11, <1>12

LEMMA SizeAway ==
  ASSUME NEW m, NEW m2, NEW lo \in Nat, NEW hi \in Nat, Touched(m, m2, lo, hi),
         NEW r \in Nat, r + 2 < W, r + 2 < lo \/ hi <= r + 2
  PROVE  size_of(m2, r) = size_of(m, r)
BY DEF Touched, Within, size_of

\* The loop is over when the tables are there, and the tail is on top.
LEMMA LoopOver ==
  ASSUME Memory, NEW c, Expanding(c), c.it >= c.new_size
  PROVE  c.it = c.new_size /\ TailOnTop(mem, index)
<1> DEFINE a == start_address + c.new_size
           z == start_address + c.new_size - 1
<1>1. /\ c.it \in Nat /\ c.new_size \in Nat /\ c.it <= c.new_size
      /\ heap_length + c.size + 5 < c.new_size /\ c.size \in Nat
      /\ a % PAGE = 0 /\ a \in Nat /\ a < W
  BY LoopNumbers
<1>2. c.it = c.new_size
  BY <1>1
<1>3. heap_length \in Nat
  BY HeapNumbers
<1>4. z \in Nat /\ z < a /\ a <= z + PAGE
  BY <1>1, <1>3, Numbers
<1>5. Needed(c) = { table_of(x) : x \in page_of(a) .. page_of(z) } \ tables
  BY <1>2 DEF Needed
<1> HIDE DEF a, z
<1>6. page_of(z) = page_of(a) - 1 /\ page_of(a) \in Nat
  BY <1>1, <1>4, LastPage, PageNumber
<1>7. Needed(c) = {}
  <2>1. page_of(a) .. page_of(z) = {}
    BY <1>6
  <2> QED
    BY <1>5, <2>1
<1> QED
  BY <1>2, <1>7 DEF Expanding

\* The heap after expand: a hole at h ends it.
Longer(h, g, need) ==
  /\ h \in Nat /\ start_address <= h /\ h \in ToSet(index')
  /\ \A r \in BlockHeaders : r + size_of(mem, r) <= h
  /\ Lay(mem', BlockHeaders, ToSet(index'), end_address + g)
  /\ Touched(mem, mem', h, end_address + g)
  /\ index' \in Seq(Nat) /\ Distinct(index') /\ size_of(mem', h) >= need

LEMMA TailHole ==
  ASSUME Layout, Memory, TailOnTop(mem, index), index # << >>,
         NEW g \in Nat, end_address + g < W, NEW h, h = Max(ToSet(index)),
         NEW m1, m1 = grow(mem, h, g),
         mem' = over(put_footer(h + size_of(m1, h) - Footer, h), m1), index' = index
  PROVE  Longer(h, g, g)
<1>1. /\ end_address \in Nat /\ index \in Seq(Nat) /\ Distinct(index)
      /\ Lay(mem, BlockHeaders, Holes, end_address)
  BY HeapNumbers DEF Layout, Memory
<1>2. Holes \subseteq Nat /\ Holes # {}
  BY <1>1, Elements DEF Holes
<1>3. \A x \in Holes : x <= end_address
  <2>1. \A x \in Holes : x \in Nat /\ size_of(mem, x) \in Nat /\ x + size_of(mem, x) <= end_address
    BY <1>1, LayFacts
  <2> QED
    BY <1>1, <2>1
<1>4. h \in Holes
  <2>1. Max(Holes) \in Holes
    BY <1>1, <1>2, <1>3, HighestHole
  <2> QED
    BY <2>1 DEF Holes
<1>5. h + size_of(mem, h) = end_address
  BY DEF TailOnTop
<1>6. /\ h \in Nat /\ start_address <= h /\ size_of(mem, h) \in Nat
  BY <1>1, <1>4, LayFacts
<1>7. ASSUME NEW r \in BlockHeaders PROVE r + size_of(mem, r) <= h
  <2>1. r \in Nat /\ size_of(mem, r) \in Nat /\ size_of(mem, r) >= 5
        /\ r + size_of(mem, r) <= end_address /\ r # h
    BY <1>1, <1>4, <1>7, LayFacts
  <2>2. r < h => r + size_of(mem, r) <= h
    BY <1>1, <1>4, <1>7, LayFacts
  <2>3. h < r => h + size_of(mem, h) <= r
    BY <1>1, <1>4, <1>7, LayFacts
  <2> QED
    BY <1>1, <1>5, <1>6, <2>1, <2>2, <2>3
<1>8. PICK m2 : m2 = mem'
  OBVIOUS
<1>9. /\ Lay(m2, BlockHeaders, Holes, end_address + g)
      /\ Touched(mem, m2, h, end_address + g)
      /\ size_of(m2, h) = size_of(mem, h) + g
  <2>1. m2 = over(put_footer(h + size_of(m1, h) - Footer, h), m1)
    BY <1>8
  <2> QED
    BY <1>1, <1>4, <1>5, <2>1, TailGrows
<1>10. size_of(mem', h) >= g
  BY <1>6, <1>8, <1>9
<1> QED
  BY <1>1, <1>4, <1>6, <1>7, <1>8, <1>9, <1>10 DEF Longer, Holes

LEMMA Single ==
  ASSUME NEW h \in Nat, NEW idx, idx = << h >>
  PROVE  idx \in Seq(Nat) /\ Distinct(idx) /\ ToSet(idx) = {h}
<1>1. idx \in Seq(Nat) /\ Len(idx) = 1 /\ idx[1] = h
  OBVIOUS
<1>2. 1 .. Len(idx) = {1}
  BY <1>1
<1>3. Distinct(idx)
  BY <1>2 DEF Distinct
<1>4. \A x : x \in ToSet(idx) <=> \E k \in 1 .. Len(idx) : idx[k] = x
  BY <1>1, Elements
<1>5. \A x : x \in ToSet(idx) <=> x = h
  BY <1>1, <1>2, <1>4
<1> QED
  BY <1>1, <1>3, <1>5

LEMMA TailNew ==
  ASSUME Layout, Memory, index = << >>, NEW g \in Nat, g >= 5, end_address + g < W,
         NEW h, h = end_address,
         mem' = over(put_footer(h + g - Footer, h), over(put_header(h, 1, g), mem)),
         index' = << h >>
  PROVE  Longer(h, g, g)
<1>1. /\ end_address \in Nat /\ start_address < end_address
      /\ Lay(mem, BlockHeaders, Holes, end_address)
  BY HeapNumbers DEF Layout
<1>2. Holes = {}
  <2>1. index \in Seq(Nat)
    BY DEF Memory
  <2> QED
    BY <2>1, Elements DEF Holes
<1>3. \A r \in BlockHeaders : r + size_of(mem, r) <= h
  BY <1>1, LayFacts
<1>4. PICK m2 : m2 = mem'
  OBVIOUS
<1>5. /\ Lay(m2, BlockHeaders, {h}, h + g) /\ Touched(mem, m2, h, h + g)
      /\ size_of(m2, h) = g
  <2>1. Lay(mem, BlockHeaders, {}, h) /\ h + g < W
    BY <1>1, <1>2
  <2>2. m2 = over(put_footer(h + g - Footer, h), over(put_header(h, 1, g), mem))
    BY <1>4
  <2> QED
    BY <2>1, <2>2, TailMade
<1>6. index' \in Seq(Nat) /\ Distinct(index') /\ ToSet(index') = {h}
  <2>1. h \in Nat
    BY <1>1
  <2>2. PICK idx : idx = << h >>
    OBVIOUS
  <2>3. idx \in Seq(Nat) /\ Distinct(idx) /\ ToSet(idx) = {h}
    BY <2>1, <2>2, Single
  <2> QED
    BY <2>2, <2>3
<1>7. size_of(mem', h) >= g
  BY <1>4, <1>5
<1>8. start_address <= h
  BY <1>1, Numbers
<1> QED
  BY <1>1, <1>3, <1>4, <1>5, <1>6, <1>7, <1>8 DEF Longer

\* The heap is longer: alloc looks for a hole again and will find one.
LEMMA ExpandDone ==
  ASSUME IInv, expand_done
  PROVE  IInv' /\ live' = live
<1>1. Layout /\ Blocks /\ Memory /\ status = "ok"
  BY InLoop DEF expand_done
<1>2. PICK c : calls = << c >> /\ Expanding(c) /\ top = c
  BY InLoop DEF expand_done
<1>3. Len(calls) = 1 /\ calls[Len(calls)] = c
  BY <1>2, OneCall
<1>4. c.it >= c.new_size
  BY <1>2 DEF expand_done
<1>5. TailOnTop(mem, index) /\ c.it = c.new_size
  BY <1>1, <1>2, <1>4, LoopOver
<1>6. /\ end_address \in Nat /\ heap_length \in Nat /\ start_address + heap_length = end_address
      /\ end_address <= max_address /\ end_address < W
  BY <1>1, HeapNumbers
<1>7. /\ c.new_size \in Nat /\ start_address + c.new_size <= max_address /\ c.size \in Nat
      /\ heap_length + c.size + 5 < c.new_size
      /\ (start_address + c.new_size) % PAGE = 0 /\ start_address + c.new_size \in Nat
      /\ start_address + c.new_size < W
  BY <1>1, <1>2, LoopNumbers
<1>8. /\ c \in Call /\ c.align = FALSE /\ c.size \in Sizes
      /\ c.old_len = heap_length /\ c.old_end_addr = end_address
      /\ gap_page .. (page_of(start_address + c.it) - 1) \subseteq mapped
  BY <1>2 DEF Expanding
<1>9. PICK g : g = c.new_size - heap_length
  OBVIOUS
<1>10. /\ g \in Nat /\ g >= 5 /\ g >= c.size + 5 /\ end_address + g = start_address + c.new_size
       /\ end_address + g < W /\ g < W
  BY <1>6, <1>7, <1>9, Numbers
<1>11. (c.new_size - c.old_len) % W = g
  <2>1. g % W = g
    BY <1>10, Mod
  <2> QED
    BY <1>8, <1>9, <2>1
<1>12. end_address' = end_address + g
  <2>1. end_address' = start_address + c.new_size
    BY <1>2 DEF expand_done
  <2> QED
    BY <1>10, <2>1
<1>13. mapped' = mapped /\ tables' = tables /\ live' = live /\ status' = status
  BY DEF expand_done
<1>14. PICK d : d = [c EXCEPT !.pc = "find"]
  OBVIOUS
<1>15. calls' = << d >>
  <2>1. calls' = [calls EXCEPT ![Len(calls)] = d]
    BY <1>3, <1>14 DEF expand_done
  <2> QED
    BY <1>2, <2>1, ReplaceOnly
<1>16. \E h : Longer(h, g, g)
  <2>1. CASE index = << >>
    <3>1. PICK h : h = end_address
      OBVIOUS
    <3>2. /\ mem' = over(put_footer(h + g - Footer, h), over(put_header(h, 1, g), mem))
          /\ index' = << h >>
      BY <1>2, <1>8, <1>11, <2>1, <3>1 DEF expand_done
    <3>3. Longer(h, g, g)
      BY <1>1, <1>10, <2>1, <3>1, <3>2, TailNew
    <3> QED
      BY <3>3
  <2>2. CASE index # << >>
    <3>1. PICK h : h = Max(ToSet(index))
      OBVIOUS
    <3>2. PICK m1 : m1 = grow(mem, h, g)
      OBVIOUS
    <3>3. /\ mem' = over(put_footer(h + size_of(m1, h) - Footer, h), m1)
          /\ index' = index
      BY <1>2, <1>11, <2>2, <3>1, <3>2 DEF expand_done
    <3>4. Longer(h, g, g)
      BY <1>1, <1>5, <1>10, <2>2, <3>1, <3>2, <3>3, TailHole
    <3> QED
      BY <3>4
  <2> QED
    BY <2>1, <2>2
<1>17. PICK h : Longer(h, g, g)
  BY <1>16
<1>18. /\ h \in Nat /\ start_address <= h /\ h \in ToSet(index')
       /\ \A r \in BlockHeaders : r + size_of(mem, r) <= h
       /\ Lay(mem', BlockHeaders, ToSet(index'), end_address')
       /\ Touched(mem, mem', h, end_address')
       /\ index' \in Seq(Nat) /\ Distinct(index') /\ size_of(mem', h) >= g
  BY <1>12, <1>17 DEF Longer
<1>19. Layout'
  <2>1. BlockHeaders' = BlockHeaders
    BY <1>13 DEF BlockHeaders
  <2> QED
    BY <1>18, <2>1 DEF Layout, Holes
<1>20. end_address' \in Nat /\ end_address <= end_address' /\ end_address' <= max_address
       /\ end_address' % PAGE = 0 /\ end_address' = start_address + c.it
  <2>1. end_address' = start_address + c.new_size
    BY <1>10, <1>12
  <2>2. end_address' \in Nat /\ end_address' <= max_address /\ end_address' % PAGE = 0
    BY <1>7, <2>1
  <2> QED
    BY <1>5, <1>6, <1>10, <1>12, <2>1, <2>2
<1>21. Memory'
  <2>1. gap_page .. (page_of(end_address') - 1) \subseteq mapped
    BY <1>8, <1>20
  <2>2. end_address' <= end_address'
    BY <1>20
  <2> QED
    BY <1>1, <1>13, <1>18, <1>20, <2>1, <2>2, MemoryTouched
<1>22. Blocks'
  <2> DEFINE D == DOMAIN live
  <2>1. ASSUME NEW q \in D
        PROVE  /\ live'[q] = live[q] /\ size_of(mem', q - 3) = size_of(mem, q - 3)
               /\ (q - 3 + size_of(mem, q - 3) <= h \/ end_address' <= q - 3)
    <3> DEFINE r == q - 3
    <3>1. r \in BlockHeaders /\ r \in Nat /\ size_of(mem, r) \in Nat
      BY <1>1, <2>1, BlockFacts
    <3>2. r + size_of(mem, r) <= h /\ size_of(mem, r) >= 5 /\ r + size_of(mem, r) <= end_address
      BY <1>1, <1>18, <3>1, LayFacts DEF Layout
    <3> HIDE DEF r
    <3>3. r + 2 < W /\ r + 2 < h
      BY <1>6, <1>18, <3>1, <3>2, Numbers
    <3>4. size_of(mem', r) = size_of(mem, r)
      <4>1. PICK m2 : m2 = mem'
        OBVIOUS
      <4>2. PICK e2 : e2 = end_address'
        OBVIOUS
      <4>3. Touched(mem, m2, h, e2) /\ e2 \in Nat
        BY <1>18, <1>20, <4>1, <4>2
      <4>4. size_of(m2, r) = size_of(mem, r)
        BY <1>18, <3>1, <3>3, <4>3, SizeAway
      <4> QED
        BY <4>1, <4>4
    <3> QED
      BY <1>13, <3>2, <3>4 DEF r
  <2>2. DOMAIN live' = D
    BY <1>13
  <2> HIDE DEF D
  <2>3. D \subseteq DOMAIN live
    BY DEF D
  <2> QED
    BY <1>1, <1>18, <1>20, <2>1, <2>2, <2>3, BlocksTouched
<1>23. Asked(d)'
  <2>1. d \in Call /\ d.pc = "find" /\ d.align = FALSE /\ d.size = c.size
    BY <1>8, <1>14 DEF Call
  <2>2. find_smallest_hole(d.size + Overhead, FALSE)' # 0
    <3>1. PICK need : need = d.size + Overhead
      OBVIOUS
    <3>2. PICK k \in 1 .. Len(index') : index'[k] = h
      <4>1. PICK idx : idx = index'
        OBVIOUS
      <4>2. idx \in Seq(Nat) /\ h \in ToSet(idx)
        BY <1>18, <4>1
      <4> QED
        BY <4>1, <4>2, Elements
    <3>3. need = c.size + 5
      BY <2>1, <3>1, Numbers
    <3>4. size_of(mem', index'[k]) >= need
      <4> DEFINE s == size_of(mem', h)
      <4>1. h \in Nat /\ s \in Nat
        <5>1. PICK m2 : m2 = mem'
          OBVIOUS
        <5>2. PICK H : H = ToSet(index')
          OBVIOUS
        <5>3. PICK e2 : e2 = end_address'
          OBVIOUS
        <5>4. Lay(m2, BlockHeaders, H, e2) /\ h \in H
          BY <1>18, <5>1, <5>2, <5>3
        <5>5. size_of(m2, h) \in Nat
          BY <5>4, LayFacts
        <5> QED
          BY <1>18, <5>1, <5>5
      <4>2. s >= g
        BY <1>18
      <4> HIDE DEF s
      <4>3. s >= need
        BY <1>7, <1>10, <3>3, <4>1, <4>2
      <4> QED
        BY <3>2, <4>3 DEF s
    <3>5. find_smallest_hole(need, FALSE)' # 0
      BY <1>18, <3>2, <3>4, FindFactsAfter
    <3>6. find_smallest_hole(d.size + Overhead, FALSE)' = find_smallest_hole(need, FALSE)'
      BY <3>1
    <3> QED
      BY <3>5, <3>6
  <2>3. AllocIsSafe(d.size, FALSE)'
    BY <2>2 DEF AllocIsSafe
  <2> QED
    BY <1>8, <2>1, <2>3 DEF Asked
<1>24. Calls'
  BY <1>15, <1>23 DEF Calls
<1> QED
  BY <1>1, <1>13, <1>19, <1>21, <1>22, <1>24 DEF IInv

-----------------------------------------------------------------------------
(***************************************************************************)
(* What clients do                                                         *)
(***************************************************************************)

\* The record of a block
Block == [size : Sizes \cup AlignedSizes \cup {PAGE}, written : BOOLEAN, table : BOOLEAN]

Records == \A p \in DOMAIN live : live[p] \in Block

LEMMA ExpandSafeSame ==
  ASSUME mem' = mem, index' = index, end_address' = end_address, tables' = tables,
         NEW size, ExpandIsSafe(size)
  PROVE  ExpandIsSafe(size)'
<1> DEFINE last == start_address + expanded_length(heap_length + size + Overhead) - 1
           needed == { table_of(g) : g \in page_of(end_address) .. page_of(last) } \ tables
<1>1. \/ needed = {} /\ TailOnTop(mem, index)
      \/ Cardinality(needed) = 1 /\ TableReady
  BY DEF ExpandIsSafe, TableReady
<1>2. needed' = needed
  BY DEF heap_length, expanded_length, page_of
<1>3. TailOnTop(mem, index) => TailOnTop(mem, index)'
  BY DEF TailOnTop, size_of, word
<1>4. TableReady => TableReady'
  BY TableReadySame
<1>5. \/ (needed = {})' /\ TailOnTop(mem, index)'
      \/ (Cardinality(needed) = 1)' /\ TableReady'
  BY <1>1, <1>2, <1>3, <1>4
<1> HIDE DEF needed
<1> QED
  BY <1>5 DEF ExpandIsSafe, TableReady, needed

LEMMA AllocSafeSame ==
  ASSUME mem' = mem, index' = index, end_address' = end_address, tables' = tables,
         NEW size, NEW align, AllocIsSafe(size, align)
  PROVE  AllocIsSafe(size, align)'
<1> DEFINE it == find_smallest_hole(size + Overhead, align)
<1>1. it' = it
  BY FindSame
<1>2. \/ it # 0 /\ (align => AlignIsSafe(index[it], size))
      \/ it = 0 /\ ~ align /\ ExpandIsSafe(size)
  BY DEF AllocIsSafe
<1> HIDE DEF it
<1>3. AlignIsSafe(index[it], size) => AlignIsSafe(index[it], size)'
  BY <1>1 DEF AlignIsSafe, size_of, word
<1>4. ExpandIsSafe(size) => ExpandIsSafe(size)'
  BY ExpandSafeSame
<1>5. \/ (it # 0)' /\ (align => AlignIsSafe(index[it], size)')
      \/ (it = 0)' /\ ~ align /\ ExpandIsSafe(size)'
  BY <1>1, <1>2, <1>3, <1>4
<1> QED
  BY <1>5 DEF AllocIsSafe, it

LEMMA Kmalloc ==
  ASSUME IInv, NEW r \in Requests, AllocIsSafe(r[1], r[2]), kmalloc(r[1], r[2])
  PROVE  IInv' /\ live' = live
<1>1. /\ status = "ok" /\ calls = << >> /\ calls' = << new_call(r[1], r[2]) >>
      /\ mem' = mem /\ index' = index /\ end_address' = end_address /\ mapped' = mapped
      /\ tables' = tables /\ live' = live /\ status' = status
  BY DEF kmalloc
<1>2. Layout' /\ Blocks' /\ Memory'
  BY <1>1, HeapSame DEF IInv
<1>3. PICK c : c = new_call(r[1], r[2])
  OBVIOUS
<1>4. r[2] \in BOOLEAN /\ r[1] \in (IF r[2] THEN AlignedSizes ELSE Sizes)
  BY DEF Requests
<1>5. r[1] \in Nat
  BY <1>4, Numbers
<1>6. /\ c \in Call /\ c.pc = "find" /\ c.align = r[2] /\ c.size = r[1]
  BY <1>3, <1>4, <1>5 DEF Call, new_call
<1>7. AllocIsSafe(r[1], r[2])'
  BY <1>1, AllocSafeSame
<1>8. AllocIsSafe(c.size, c.align)'
  BY <1>6, <1>7
<1>9. Asked(c)'
  BY <1>4, <1>6, <1>8 DEF Asked
<1>10. Calls'
  BY <1>1, <1>3, <1>9 DEF Calls
<1> QED
  BY <1>1, <1>2, <1>10 DEF IInv

LEMMA WriteKeeps ==
  ASSUME IInv, Records, NEW p \in Held, Write(p)
  PROVE  /\ IInv' /\ Records' /\ DOMAIN live' = DOMAIN live
         /\ \A q \in DOMAIN live : live'[q].size = live[q].size
<1>1. /\ Layout /\ Blocks /\ Memory /\ status = "ok" /\ calls = << >> /\ p \in DOMAIN live
      /\ calls' = calls /\ status' = status
  BY DEF IInv, Write, Held
<1> DEFINE k == live[p].size
           b == p - 3
<1>2. /\ mem' = erase(mem, Payload(p, k)) /\ live' = [live EXCEPT ![p].written = TRUE]
      /\ index' = index /\ end_address' = end_address /\ mapped' = mapped
  BY DEF Write
<1>3. /\ p \in Nat /\ b \in BlockHeaders /\ b \in Nat /\ k \in Nat
      /\ k + 5 <= size_of(mem, b) /\ b + 3 = p
  BY <1>1, BlockFacts
<1>4. /\ DOMAIN live' = DOMAIN live
      /\ \A q \in DOMAIN live : q # p => live'[q] = live[q]
      /\ live'[p] = [live[p] EXCEPT !.written = TRUE]
  BY <1>1, <1>2
<1>5. live[p] \in Block
  BY <1>1 DEF Records
<1>6. live'[p] \in Block /\ live'[p].size = live[p].size
  BY <1>4, <1>5 DEF Block
<1>7. Records'
  BY <1>4, <1>6 DEF Records, Block
<1> HIDE DEF k, b
<1>8. PICK m2 : m2 = mem'
  OBVIOUS
<1>9. PICK e : e = end_address
  OBVIOUS
<1>10. /\ Lay(m2, BlockHeaders, Holes, e)
       /\ \A r \in BlockHeaders \cup Holes : size_of(m2, r) = size_of(mem, r)
  <2>1. m2 = erase(mem, Payload(b + 3, k))
    BY <1>2, <1>3, <1>8
  <2>2. Lay(mem, BlockHeaders, Holes, e) /\ e < W
    BY <1>1, <1>9, HeapNumbers DEF Layout
  <2> QED
    BY <1>3, <2>1, <2>2, EraseLay
<1>11. Layout'
  <2>1. BlockHeaders' = BlockHeaders /\ Holes' = Holes
    BY <1>2, <1>4 DEF BlockHeaders, Holes
  <2> QED
    BY <1>1, <1>2, <1>8, <1>9, <1>10, <2>1 DEF Layout
<1>12. /\ DOMAIN mem' = DOMAIN mem \ Payload(p, k)
       /\ \A a \in DOMAIN mem' : mem'[a] = mem[a]
  BY <1>2 DEF erase
<1>13. Memory'
  BY <1>1, <1>2, <1>12 DEF Memory, gap_page, page_of
<1>14. Blocks'
  <2>1. ASSUME NEW q \in DOMAIN live
        PROVE  /\ q \in Nat /\ live'[q].size \in Sizes \cup AlignedSizes \cup {PAGE}
               /\ live'[q].size + Overhead <= size_of(mem', q - Header)
               /\ live'[q].written => Payload(q, live'[q].size) \cap DOMAIN mem' = {}
    <3>1. /\ q \in Nat /\ live[q].size \in Sizes \cup AlignedSizes \cup {PAGE}
          /\ live[q].size + Overhead <= size_of(mem, q - Header)
          /\ live[q].written => Payload(q, live[q].size) \cap DOMAIN mem = {}
      BY <1>1, <2>1 DEF Blocks
    <3>2. live'[q].size = live[q].size
      BY <1>4, <1>6, <2>1
    <3>3. size_of(mem', q - Header) = size_of(mem, q - Header)
      <4>1. q - Header \in BlockHeaders
        BY <2>1 DEF BlockHeaders
      <4> QED
        BY <1>8, <1>10, <4>1
    <3>4. CASE q = p
      BY <1>12, <3>1, <3>2, <3>3, <3>4 DEF k
    <3>5. CASE q # p
      <4>1. live'[q] = live[q]
        BY <1>4, <2>1, <3>5
      <4> QED
        BY <1>12, <3>1, <3>3, <4>1
    <3> QED
      BY <3>4, <3>5
  <2> QED
    BY <1>4, <2>1 DEF Blocks
<1>15. Calls'
  BY <1>1 DEF Calls
<1>16. \A q \in DOMAIN live : live'[q].size = live[q].size
  BY <1>4, <1>6
<1> QED
  BY <1>1, <1>4, <1>7, <1>11, <1>13, <1>14, <1>15, <1>16 DEF IInv

-----------------------------------------------------------------------------
(***************************************************************************)
(* free                                                                    *)
(***************************************************************************)

\* Block b has become part of hole h of the holes H, in memory m.
Merged(b, h, m, H) ==
  /\ h \in H /\ h \in Nat /\ h <= b /\ start_address <= h
  /\ Lay(m, BlockHeaders \ {b}, H, end_address)
  /\ Touched(mem, m, h, b + size_of(mem, b))
  /\ h + size_of(m, h) = b + size_of(mem, b)
  /\ \A x \in BlockHeaders \ {b} :
       x + size_of(mem, x) <= h \/ b + size_of(mem, b) <= x

LEMMA FreedFacts ==
  ASSUME Layout, Memory, NEW b \in BlockHeaders, NEW n, n = size_of(mem, b)
  PROVE  /\ b \in Nat /\ start_address <= b /\ 5 <= b /\ n \in Nat /\ n >= 5
         /\ b + n <= end_address /\ b + n < W /\ end_address \in Nat /\ end_address < W
         /\ b \notin Holes /\ Lay(mem, BlockHeaders, Holes, end_address)
         /\ Sound(mem, b, 0, n, end_address)
<1>1. Lay(mem, BlockHeaders, Holes, end_address)
  BY DEF Layout
<1>2. end_address \in Nat /\ end_address < W
  BY HeapNumbers
<1>3. b \in Nat /\ start_address <= b /\ n \in Nat /\ n >= 5 /\ b + n <= end_address
      /\ b \notin Holes
  BY <1>1, LayFacts
<1>4. Sound(mem, b, 0, n, end_address)
  BY <1>1 DEF Lay
<1>5. 5 <= b /\ b + n < W
  BY <1>2, <1>3, Numbers
<1> QED
  BY <1>1, <1>2, <1>3, <1>4, <1>5

LEMMA FreeAlone ==
  ASSUME Layout, Memory, NEW b \in BlockHeaders, NEW m1, m1 = over(set_word(b + 1, 1), mem)
  PROVE  Merged(b, b, m1, Holes \cup {b}) /\ Sound(m1, b, 1, size_of(mem, b), end_address)
<1>1. PICK n : n = size_of(mem, b)
  OBVIOUS
<1>2. PICK e : e = end_address
  OBVIOUS
<1>3. /\ b \in Nat /\ start_address <= b /\ n \in Nat /\ n >= 5
      /\ b + n <= e /\ b + n < W /\ e \in Nat /\ e < W
      /\ b \notin Holes /\ Lay(mem, BlockHeaders, Holes, e) /\ Sound(mem, b, 0, n, e)
  BY <1>1, <1>2, FreedFacts
<1>4. b + 1 \in Nat /\ b + 1 < W /\ b + n \in Nat /\ b <= b + 1 /\ b + 1 < b + n
  BY <1>3, Numbers
<1>5. DOMAIN set_word(b + 1, 1) = {b + 1} /\ set_word(b + 1, 1)[b + 1] = 1
  BY <1>4, SetWord
<1>6. \A a \in Nat : a < W => word(m1, a) = IF a = b + 1 THEN 1 ELSE word(mem, a)
  BY <1>5, WordOver
<1>7. Touched(mem, m1, b, b + n)
  <2>1. 1 \in Value
    BY Numbers DEF Value
  <2> QED
    BY <1>3, <1>4, <2>1, TouchWord
<1>8. Sound(m1, b, 1, n, e)
  <2>1. b + n - Footer = b + n - 2 /\ (b + n - 2) + 1 = b + n - 1
    BY <1>3, Numbers
  <2>2. /\ magic(mem, b) /\ size_of(mem, b) = n
        /\ magic(mem, b + n - 2) /\ header_of(mem, b + n - 2) = b
    BY <1>3, <2>1 DEF Sound
  <2>3. /\ word(mem, b) = HEAP_MAGIC /\ word(mem, b + 2) = n
        /\ word(mem, b + n - 2) = HEAP_MAGIC /\ word(mem, b + n - 1) = b
    BY <2>1, <2>2 DEF magic, size_of, header_of
  <2>4. \A a \in {b, b + 2, b + n - 2, b + n - 1} : a \in Nat /\ a < W /\ a # b + 1
    BY <1>3, Numbers
  <2>5. /\ word(m1, b) = HEAP_MAGIC /\ word(m1, b + 2) = n /\ word(m1, b + 1) = 1
        /\ word(m1, b + n - 2) = HEAP_MAGIC /\ word(m1, b + n - 1) = b
    BY <1>4, <1>6, <2>3, <2>4
  <2> QED
    BY <1>3, <2>5, SoundRegion
<1>9. Lay(m1, BlockHeaders \ {b}, Holes \cup {b}, e)
  <2>1. Within(mem, m1, b, b + size_of(mem, b)) /\ Sound(m1, b, 1, size_of(mem, b), e)
    BY <1>1, <1>7, <1>8 DEF Touched
  <2> QED
    BY <1>3, <2>1, LayFree
<1>10. size_of(m1, b) = n
  BY <1>8 DEF Sound
<1>11. \A x \in BlockHeaders \ {b} : x + size_of(mem, x) <= b \/ b + n <= x
  <2>1. ASSUME NEW x \in BlockHeaders, x # b PROVE x + size_of(mem, x) <= b \/ b + n <= x
    <3>1. x \in Nat /\ (x < b => x + size_of(mem, x) <= b)
          /\ (b < x => b + size_of(mem, b) <= x)
      BY <1>3, <2>1, LayFacts
    <3> QED
      BY <1>1, <1>3, <2>1, <3>1
  <2> QED
    BY <2>1
<1>12. b <= b /\ b \in Holes \cup {b}
  BY <1>3
<1> QED
  BY <1>1, <1>2, <1>3, <1>7, <1>8, <1>9, <1>10, <1>11, <1>12 DEF Merged

LEMMA FreeLeft ==
  ASSUME Layout, Memory, NEW b \in BlockHeaders, NEW n, n = size_of(mem, b),
         NEW m1, m1 = over(set_word(b + 1, 1), mem),
         NEW l \in Holes, l + size_of(mem, l) = b,
         NEW f, f = b + n - 2, NEW m2, m2 = grow(left_footer(m1, f, l), l, n)
  PROVE  Merged(b, l, m2, Holes)
<1>1. PICK e : e = end_address
  OBVIOUS
<1>2. PICK s : s = size_of(mem, l)
  OBVIOUS
<1>3. /\ b \in Nat /\ start_address <= b /\ n \in Nat /\ n >= 5
      /\ b + n <= e /\ b + n < W /\ e \in Nat /\ e < W
      /\ b \notin Holes /\ Lay(mem, BlockHeaders, Holes, e)
  BY <1>1, FreedFacts
<1>4. l \in Nat /\ start_address <= l /\ s \in Nat /\ s >= 5 /\ l + s = b
  BY <1>2, <1>3, LayFacts
<1>5. /\ Lay(m1, BlockHeaders \ {b}, Holes \cup {b}, e) /\ Touched(mem, m1, b, b + n)
      /\ Sound(m1, b, 1, n, e)
      /\ \A x \in BlockHeaders \ {b} : x + size_of(mem, x) <= b \/ b + n <= x
  BY <1>1, FreeAlone DEF Merged
<1> DEFINE z == s + n
           ml == left_footer(m1, f, l)
<1>6. /\ f \in Nat /\ f + 1 \in Nat /\ f + 1 < W /\ f + 1 = b + n - 1 /\ l + z = b + n
      /\ z \in Nat /\ z < W /\ z >= 5 /\ l + 2 \in Nat /\ l + 2 < W /\ l + 2 < b
      /\ b + n \in Nat /\ l + 1 \in Nat /\ l + 1 < W /\ l < W /\ f < W /\ f >= b + 3
  BY <1>3, <1>4, Numbers
<1>7. ml = over(set_word(f + 1, l), m1)
  BY DEF left_footer
<1>8. \A a \in Nat : a < W => word(ml, a) = IF a = f + 1 THEN l ELSE word(m1, a)
  <2>1. DOMAIN set_word(f + 1, l) = {f + 1} /\ set_word(f + 1, l)[f + 1] = l
    BY <1>6, SetWord
  <2> HIDE DEF ml
  <2> QED
    BY <1>7, <2>1, WordOver
<1> HIDE DEF ml
<1>9. size_of(m1, l) = s /\ Sound(m1, l, 1, s, e)
  <2>1. size_of(m1, l) = s
    BY <1>2, <1>3, <1>4, <1>5, <1>6, SizeAway
  <2>2. Sound(m1, l, 1, size_of(m1, l), e)
    BY <1>5 DEF Lay
  <2> QED
    BY <2>1, <2>2
<1>10. size_of(ml, l) = s
  <2>1. l + 2 # f + 1
    BY <1>4, <1>6
  <2> QED
    BY <1>6, <1>8, <1>9, <2>1 DEF size_of
<1>11. m2 = over(set_word(l + 2, z), ml)
  <2>1. (s + n) % W = z
    BY <1>6, Mod
  <2> QED
    BY <1>10, <2>1 DEF grow, ml
<1> HIDE DEF z
<1>12. \A a \in Nat : a < W => word(m2, a) = IF a = l + 2 THEN z ELSE word(ml, a)
  <2>1. DOMAIN set_word(l + 2, z) = {l + 2} /\ set_word(l + 2, z)[l + 2] = z
    BY <1>6, SetWord
  <2> QED
    BY <1>11, <2>1, WordOver
<1>13. Touched(m1, m2, l, b + n)
  <2>1. l \in Value /\ z \in Value
    BY <1>4, <1>6, Numbers DEF Value
  <2>2. l <= f + 1 /\ f + 1 < b + n /\ l <= l + 2 /\ l + 2 < b + n
    BY <1>3, <1>4, <1>6
  <2>3. Touched(m1, ml, l, b + n)
    BY <1>4, <1>6, <1>7, <2>1, <2>2, TouchWord
  <2>4. Touched(ml, m2, l, b + n)
    BY <1>4, <1>6, <1>11, <2>1, <2>2, TouchWord
  <2> QED
    BY <1>4, <1>6, <2>3, <2>4, TouchedThen
<1>14. Touched(mem, m2, l, b + n)
  <2>1. l <= b /\ b + n <= b + n
    BY <1>4, <1>6
  <2>2. Touched(mem, m1, l, b + n)
    BY <1>3, <1>4, <1>5, <1>6, <2>1, TouchedWider
  <2> QED
    BY <1>4, <1>6, <1>13, <2>2, TouchedThen
<1>15. Sound(m2, l, 1, z, e)
  <2>1. word(m1, l) = HEAP_MAGIC /\ word(m1, l + 1) = 1
    BY <1>9 DEF Sound, magic, is_hole
  <2>2. word(m1, f) = HEAP_MAGIC
    <3>1. b + n - Footer = f
      BY <1>3, Numbers
    <3>2. magic(m1, b)
      BY <1>5 DEF Sound
    <3>3. magic(mem, b + n - Footer)
      BY <1>1, FreedFacts DEF Sound
    <3>4. word(mem, f) = HEAP_MAGIC
      BY <3>1, <3>3 DEF magic
    <3>5. DOMAIN set_word(b + 1, 1) = {b + 1}
      <4>1. b + 1 \in Nat /\ b + 1 < W
        BY <1>3, <1>6, Numbers
      <4> QED
        BY <4>1, SetWord
    <3>6. f \notin DOMAIN set_word(b + 1, 1)
      BY <1>3, <1>6, <3>5
    <3> QED
      BY <1>6, <3>4, <3>6, WordOver
  <2>3. word(m2, l) = HEAP_MAGIC /\ word(m2, l + 1) = 1 /\ word(m2, l + 2) = z
    <3>1. l # f + 1 /\ l # l + 2 /\ l + 1 # f + 1 /\ l + 1 # l + 2
      BY <1>4, <1>6
    <3> QED
      BY <1>4, <1>6, <1>8, <1>12, <2>1, <3>1
  <2>4. word(m2, f) = HEAP_MAGIC /\ word(m2, f + 1) = l
    <3>1. f # f + 1 /\ f # l + 2 /\ f + 1 # l + 2
      BY <1>3, <1>4, <1>6
    <3> QED
      BY <1>6, <1>8, <1>12, <2>2, <3>1
  <2>5. l + z - 2 = f /\ l + z - 1 = f + 1 /\ l + z < W
    BY <1>3, <1>4, <1>6
  <2>6. word(m2, l + z - 2) = HEAP_MAGIC /\ word(m2, l + z - 1) = l
    BY <2>4, <2>5
  <2> QED
    BY <1>4, <1>6, <2>3, <2>5, <2>6, SoundRegion
<1>16. Lay(m2, BlockHeaders \ {b}, Holes, e)
  <2> DEFINE B2 == BlockHeaders \ {b}
             H2 == Holes \cup {b}
  <2>1. size_of(m1, b) = n
    BY <1>5 DEF Sound
  <2>2. Lay(m1, B2, H2, e) /\ l \in H2 /\ b \in H2
    BY <1>5
  <2> HIDE DEF B2, H2
  <2>3. b = l + size_of(m1, l)
    BY <1>4, <1>9
  <2>4. Within(m1, m2, l, b + size_of(m1, b))
    BY <1>13, <2>1 DEF Touched
  <2>5. Sound(m2, l, 1, size_of(m1, l) + size_of(m1, b), e)
    BY <1>9, <1>15, <2>1 DEF z
  <2>6. Lay(m2, B2, H2 \ {b}, e)
    BY <1>3, <2>2, <2>3, <2>4, <2>5, LayJoin
  <2>7. H2 \ {b} = Holes
    BY <1>3 DEF H2
  <2> QED
    BY <2>6, <2>7 DEF B2
<1>17. l + size_of(m2, l) = b + n
  BY <1>6, <1>15 DEF Sound
<1>18. ASSUME NEW x \in BlockHeaders \ {b} PROVE x + size_of(mem, x) <= l \/ b + n <= x
  <2>1. x \in Nat /\ size_of(mem, x) \in Nat /\ size_of(mem, x) >= 5 /\ x # l
        /\ (x < l => x + size_of(mem, x) <= l) /\ (l < x => l + size_of(mem, l) <= x)
    BY <1>3, <1>18, LayFacts
  <2>2. x + size_of(mem, x) <= b \/ b + n <= x
    BY <1>5, <1>18
  <2> QED
    BY <1>2, <1>3, <1>4, <2>1, <2>2
<1>19. l <= b
  BY <1>4
<1> QED
  BY <1>1, <1>4, <1>14, <1>16, <1>17, <1>18, <1>19 DEF Merged

\* A footer before the block that leads to a hole is the left neighbour's.
LEMMA LeftIs ==
  ASSUME Layout, Memory, NEW b \in BlockHeaders,
         NEW m1, m1 = over(set_word(b + 1, 1), mem),
         magic(m1, b - 2), NEW l, l = header_of(m1, b - 2), is_hole(m1, l) = 1
  PROVE  l \in Holes /\ l + size_of(mem, l) = b
<1>1. PICK e : e = end_address
  OBVIOUS
<1>2. PICK n : n = size_of(mem, b)
  OBVIOUS
<1>3. /\ b \in Nat /\ start_address <= b /\ 5 <= b /\ n \in Nat /\ n >= 5
      /\ b + n <= e /\ b + n < W /\ e \in Nat /\ e < W
      /\ b \notin Holes /\ Lay(mem, BlockHeaders, Holes, e)
  BY <1>1, <1>2, FreedFacts
<1>4. b + 1 \in Nat /\ b + 1 < W /\ b - 2 \in Nat /\ b - 2 < W /\ (b - 2) + 1 = b - 1
      /\ b - 1 \in Nat /\ b - 1 < W
  BY <1>3, Numbers
<1>5. \A a \in Nat : a < W => word(m1, a) = IF a = b + 1 THEN 1 ELSE word(mem, a)
  <2>1. DOMAIN set_word(b + 1, 1) = {b + 1} /\ set_word(b + 1, 1)[b + 1] = 1
    BY <1>4, SetWord
  <2> QED
    BY <2>1, WordOver
<1>6. word(m1, b - 2) = word(mem, b - 2) /\ word(m1, b - 1) = word(mem, b - 1)
  <2>1. b - 2 # b + 1 /\ b - 1 # b + 1
    BY <1>3
  <2> QED
    BY <1>4, <1>5, <2>1
<1>7. magic(mem, b - 2) /\ header_of(mem, b - 2) = l
  BY <1>4, <1>6 DEF magic, header_of
<1>8. b # start_address
  <2>1. ASSUME b = start_address PROVE FALSE
    <3>1. DOMAIN mem \subseteq start_address .. (end_address - 1)
      BY DEF Memory
    <3>2. b - 2 \notin DOMAIN mem
      BY <1>1, <1>3, <2>1, <3>1
    <3>3. word(mem, b - 2) = 0
      BY <1>4, <3>2, WordIs
    <3> QED
      BY <1>7, <3>3, Numbers DEF magic
  <2> QED
    BY <2>1
<1>9. PICK q \in BlockHeaders \cup Holes : q # b /\ q + size_of(mem, q) = b
  <2> DEFINE R == BlockHeaders \cup Holes
             s == [r \in R |-> size_of(mem, r)]
  <2>1. Tiles(R, s, e) /\ b \in R
    BY <1>3 DEF Lay
  <2>2. \A r \in R : s[r] = size_of(mem, r)
    OBVIOUS
  <2> HIDE DEF s, R
  <2>3. PICK q \in R : q # b /\ q + s[q] = b
    BY <1>8, <2>1, Predecessor
  <2> QED
    BY <2>2, <2>3 DEF R
<1>10. PICK k : k = size_of(mem, q)
  OBVIOUS
<1>11. q \in Nat /\ k \in Nat /\ k >= 5 /\ q + k = b
  BY <1>3, <1>9, <1>10, LayFacts
<1>12. q + k - Footer = b - 2 /\ q + k # e /\ q + 1 \in Nat /\ q + 1 < W /\ q + 1 # b + 1
  BY <1>3, <1>11, Numbers
<1>13. l = q
  <2>1. ASSUME NEW hole, Sound(mem, q, hole, k, e) PROVE l = q
    <3>1. magic(mem, q + k - Footer) /\ q + k # e => header_of(mem, q + k - Footer) = q
      BY <2>1 DEF Sound
    <3> QED
      BY <1>7, <1>12, <3>1
  <2>2. Sound(mem, q, 0, k, e) \/ Sound(mem, q, 1, k, e)
    BY <1>3, <1>9, <1>10 DEF Lay
  <2> QED
    BY <2>1, <2>2
<1>14. q \notin BlockHeaders
  <2>1. ASSUME q \in BlockHeaders PROVE FALSE
    <3>1. is_hole(mem, q) = 0
      BY <1>3, <2>1 DEF Lay, Sound
    <3>2. is_hole(m1, q) = is_hole(mem, q)
      BY <1>5, <1>12 DEF is_hole
    <3> QED
      BY <1>13, <3>1, <3>2
  <2> QED
    BY <2>1
<1> QED
  BY <1>9, <1>13, <1>14

\* The hole behind it ends the heap and is merged too.
LEMMA JoinRight ==
  ASSUME Layout, Memory, NEW b \in BlockHeaders, NEW h, NEW m2, NEW H, Merged(b, h, m2, H),
         NEW r, r = b + size_of(mem, b), r \in H, r # h,
         NEW s, s = size_of(m2, r), r + s = end_address,
         NEW m3, m3 = grow(m2, h, s)
  PROVE  Lay(m3, BlockHeaders \ {b}, H \ {r}, end_address) /\ Touched(mem, m3, h, r)
<1>1. PICK e : e = end_address
  OBVIOUS
<1>2. PICK n : n = size_of(mem, b)
  OBVIOUS
<1>3. /\ b \in Nat /\ n \in Nat /\ n >= 5 /\ b + n < W /\ e \in Nat /\ e < W
  BY <1>1, <1>2, FreedFacts
<1>4. PICK k : k = size_of(m2, h)
  OBVIOUS
<1>5. /\ h \in H /\ h \in Nat /\ h <= b /\ Lay(m2, BlockHeaders \ {b}, H, e)
      /\ Touched(mem, m2, h, r) /\ h + k = r
  BY <1>1, <1>4 DEF Merged
<1>6. r \in Nat /\ s \in Nat /\ s >= 5 /\ k \in Nat /\ k >= 5 /\ r + s = e
  <2>1. \A x \in H : x \in Nat /\ size_of(m2, x) \in Nat /\ size_of(m2, x) >= 5
    BY <1>5, LayFacts
  <2> QED
    BY <1>1, <1>4, <1>5, <2>1
<1> DEFINE z == k + s
<1>7. /\ z \in Nat /\ z < W /\ h + z = e /\ h + 2 \in Nat /\ h + 2 < W /\ h + 2 < r
      /\ h < W /\ h + 1 \in Nat /\ h + 1 < W /\ h <= h + 2
  BY <1>3, <1>5, <1>6, Numbers
<1>8. m3 = over(set_word(h + 2, z), m2)
  <2>1. (k + s) % W = z
    BY <1>7, Mod
  <2> QED
    BY <1>4, <2>1 DEF grow
<1>9. size_of(m2, h) + size_of(m2, r) = z
  BY <1>4
<1> HIDE DEF z
<1>10. \A a \in Nat : a < W => word(m3, a) = IF a = h + 2 THEN z ELSE word(m2, a)
  <2>1. DOMAIN set_word(h + 2, z) = {h + 2} /\ set_word(h + 2, z)[h + 2] = z
    BY <1>7, SetWord
  <2> QED
    BY <1>8, <2>1, WordOver
<1>11. Touched(m2, m3, h, r)
  <2>1. z \in Value
    BY <1>7, Numbers DEF Value
  <2> QED
    BY <1>5, <1>6, <1>7, <1>8, <2>1, TouchWord
<1>12. Sound(m3, h, 1, z, e)
  <2>1. word(m2, h) = HEAP_MAGIC /\ word(m2, h + 1) = 1
    BY <1>5 DEF Lay, Sound, magic, is_hole
  <2>2. h # h + 2 /\ h + 1 # h + 2
    BY <1>5
  <2>3. word(m3, h) = HEAP_MAGIC /\ word(m3, h + 1) = 1 /\ word(m3, h + 2) = z
    BY <1>5, <1>7, <1>10, <2>1, <2>2
  <2>4. magic(m3, h) /\ is_hole(m3, h) = 1 /\ size_of(m3, h) = z
    BY <2>3 DEF magic, is_hole, size_of
  <2> QED
    BY <1>7, <2>4 DEF Sound
<1>13. Lay(m3, BlockHeaders \ {b}, H \ {r}, e)
  <2> DEFINE B2 == BlockHeaders \ {b}
  <2> HIDE DEF B2
  <2>1. Lay(m2, B2, H, e) /\ r = h + size_of(m2, h)
    BY <1>4, <1>5 DEF B2
  <2>2. Touched(m2, m3, h, r + size_of(m2, r))
    <3>1. h <= h /\ r <= r + s /\ r + s \in Nat
      BY <1>5, <1>6
    <3>2. Touched(m2, m3, h, r + s)
      BY <1>5, <1>6, <1>11, <3>1, TouchedWider
    <3> QED
      BY <3>2
  <2>3. Within(m2, m3, h, r + size_of(m2, r))
    BY <2>2 DEF Touched
  <2>4. Sound(m3, h, 1, size_of(m2, h) + size_of(m2, r), e)
    BY <1>9, <1>12
  <2>5. Lay(m3, B2, H \ {r}, e)
    BY <1>3, <1>5, <2>1, <2>3, <2>4, LayJoin
  <2> QED
    BY <2>5 DEF B2
<1>14. Touched(mem, m3, h, r)
  BY <1>5, <1>6, <1>11, TouchedThen
<1> QED
  BY <1>1, <1>13, <1>14

\* The heap after free of block b: hole h, with the words of memory m, took it
\* in, and the index lists the holes.
Freed(b, h, m, idx) ==
  /\ h \in Nat /\ start_address <= h /\ h <= b
  /\ Lay(m, BlockHeaders \ {b}, ToSet(idx), end_address)
  /\ Touched(mem, m, h, b + size_of(mem, b))
  /\ idx \in Seq(Nat) /\ Distinct(idx)
  /\ \A x \in BlockHeaders \ {b} :
       x + size_of(mem, x) <= h \/ b + size_of(mem, b) <= x

\* The index idx lists the holes H.
Lists(idx, H) == idx \in Seq(Nat) /\ Distinct(idx) /\ ToSet(idx) = H

LEMMA InsertLists ==
  ASSUME NEW m, NEW idx \in Seq(Nat), NEW h \in Nat, h \notin ToSet(idx), Distinct(idx)
  PROVE  Lists(insert(m, idx, h), ToSet(idx) \cup {h})
BY InsertFacts DEF Lists

\* The index after the hole at r was merged, or none
LEMMA IndexAfter ==
  ASSUME index \in Seq(Nat), Distinct(index), NEW r, NEW h \in Nat, NEW m,
         NEW right \in BOOLEAN, right => r \in Holes, NEW left \in BOOLEAN,
         ~ left => h \notin Holes,
         NEW idx, idx = IF right THEN unlink(index, r) ELSE index,
         NEW res, res = IF left THEN idx ELSE insert(m, idx, h)
  PROVE  Lists(res, (IF right THEN Holes \ {r} ELSE Holes) \cup (IF left THEN {} ELSE {h}))
<1>1. /\ idx \in Seq(Nat) /\ Distinct(idx)
      /\ ToSet(idx) = IF right THEN Holes \ {r} ELSE Holes
  <2>1. CASE right
    <3>1. r \in ToSet(index) /\ idx = unlink(index, r)
      BY <2>1 DEF Holes
    <3>2. idx \in Seq(Nat) /\ ToSet(idx) = ToSet(index) \ {r} /\ Distinct(idx)
      BY <3>1, UnlinkFacts
    <3> QED
      BY <2>1, <3>2 DEF Holes
  <2>2. CASE ~ right
    BY <2>2 DEF Holes
  <2> QED
    BY <2>1, <2>2
<1>2. CASE left
  BY <1>1, <1>2 DEF Lists
<1>3. CASE ~ left
  <2>1. h \notin ToSet(idx)
    BY <1>1, <1>3
  <2>2. Lists(insert(m, idx, h), ToSet(idx) \cup {h})
    <3>1. idx \in Seq(Nat) /\ Distinct(idx)
      BY <1>1
    <3> QED
      BY <2>1, <3>1, InsertLists
  <2>3. res = insert(m, idx, h)
    BY <1>3
  <2> QED
    BY <1>1, <1>3, <2>2, <2>3 DEF Lists
<1> QED
  BY <1>2, <1>3

\* free neither panics nor contracts.
LEMMA FreeIs ==
  ASSUME IInv, NEW p \in Held, FreeIsSafe(p), free(p)
  PROVE  /\ status' = "ok" /\ calls' = << >> /\ end_address' = end_address
         /\ mapped' = mapped /\ live' = [q \in DOMAIN live \ {p} |-> live[q]]
         /\ \E h : Freed(p - 3, h, mem', index')
<1>1. /\ Layout /\ Blocks /\ Memory /\ status = "ok" /\ calls = << >> /\ p \in DOMAIN live
      /\ index \in Seq(Nat) /\ Distinct(index)
  BY DEF IInv, free, Held, Layout, Memory
<1>2. PICK b : b = p - Header
  OBVIOUS
<1>3. b = p - 3 /\ b \in BlockHeaders
  BY <1>1, <1>2, Numbers DEF BlockHeaders
<1>4. PICK n : n = size_of(mem, b)
  OBVIOUS
<1>5. PICK e : e = end_address
  OBVIOUS
<1>6. /\ b \in Nat /\ start_address <= b /\ 5 <= b /\ n \in Nat /\ n >= 5
      /\ b + n <= e /\ b + n < W /\ e \in Nat /\ e < W
      /\ b \notin Holes /\ Lay(mem, BlockHeaders, Holes, e) /\ Sound(mem, b, 0, n, e)
  BY <1>1, <1>3, <1>4, <1>5, FreedFacts
<1>7. PICK f : f = (b + n - Footer) % W
  OBVIOUS
<1>8. PICK t : t = b - Footer
  OBVIOUS
<1>9. PICK r : r = (f + Footer) % W
  OBVIOUS
<1>10. f = b + n - 2 /\ t = b - 2 /\ r = b + n /\ f \in Nat /\ t \in Nat /\ r \in Nat
  <2>1. b + n - Footer \in Nat /\ b + n - Footer = b + n - 2 /\ b + n - 2 < W
    BY <1>6, Numbers
  <2>2. f = b + n - 2
    BY <1>7, <2>1, Mod
  <2>3. f + Footer = b + n /\ b + n \in Nat
    BY <1>6, <2>2, Numbers
  <2>4. r = b + n
    BY <1>6, <1>9, <2>3, Mod
  <2> QED
    BY <1>6, <1>8, <2>1, <2>2, <2>4, Numbers
<1>11. PICK m1 : m1 = over(set_word(b + 1, 1), mem)
  OBVIOUS
<1>12. PICK left : left = (magic(m1, t) /\ is_hole(m1, header_of(m1, t)) = 1)
  OBVIOUS
<1>13. PICK h : h = IF left THEN header_of(m1, t) ELSE b
  OBVIOUS
<1>14. PICK m2 : m2 = IF left THEN grow(left_footer(m1, f, h), h, n) ELSE m1
  OBVIOUS
<1>15. PICK right : right = (magic(m2, r) /\ is_hole(m2, r) # 0)
  OBVIOUS
<1>16. PICK g : g = merge(p)
  OBVIOUS
<1>17. /\ g.head = h /\ g.left = left
       /\ g.foot = IF right THEN (t + size_of(m2, r) - Footer) % W ELSE f
       /\ g.mem = IF right THEN grow(m2, h, size_of(m2, r)) ELSE m2
       /\ g.index = IF right THEN unlink(index, r) ELSE index
       /\ g.verdict =
            IF ~ magic(mem, b) THEN "bad_magic"
            ELSE IF ~ accessible(f) THEN "page_fault"
            ELSE IF ~ magic(mem, f) THEN "bad_magic"
            ELSE IF ~ accessible(t) \/ ~ accessible(r) THEN "page_fault"
            ELSE IF right /\ ~ Contains(index, r) THEN "not_in_index"
            ELSE "ok"
  BY <1>2, <1>4, <1>7, <1>8, <1>9, <1>11, <1>12, <1>13, <1>14, <1>15, <1>16 DEF merge
<1>18. left \in BOOLEAN /\ right \in BOOLEAN
  BY <1>12, <1>15, Zenon
<1> DEFINE H == IF left THEN Holes ELSE Holes \cup {b}
<1>19. Merged(b, h, m2, H) /\ (~ left => h = b)
  <2>1. CASE left
    <3>1. magic(m1, b - 2) /\ h = header_of(m1, b - 2) /\ is_hole(m1, h) = 1
      BY <1>10, <1>12, <1>13, <2>1
    <3>2. h \in Holes /\ h + size_of(mem, h) = b
      BY <1>1, <1>3, <1>11, <3>1, LeftIs
    <3>3. m2 = grow(left_footer(m1, f, h), h, n)
      BY <1>14, <2>1
    <3>4. f = b + n - 2
      BY <1>10
    <3>5. Merged(b, h, m2, Holes)
      BY <1>1, <1>3, <1>4, <1>11, <3>2, <3>3, <3>4, FreeLeft
    <3> QED
      BY <2>1, <3>5
  <2>2. CASE ~ left
    <3>1. h = b /\ m2 = m1
      BY <1>13, <1>14, <2>2
    <3>2. Merged(b, b, m1, Holes \cup {b})
      BY <1>1, <1>3, <1>11, FreeAlone
    <3> QED
      BY <2>2, <3>1, <3>2
  <2> QED
    BY <2>1, <2>2
<1>20. /\ h \in H /\ h \in Nat /\ h <= b /\ start_address <= h
       /\ Lay(m2, BlockHeaders \ {b}, H, e) /\ Touched(mem, m2, h, r)
       /\ h + size_of(m2, h) = r
       /\ \A x \in BlockHeaders \ {b} : x + size_of(mem, x) <= h \/ r <= x
  <2> HIDE DEF H
  <2> QED
    BY <1>4, <1>5, <1>10, <1>19 DEF Merged
<1>21. r \in BlockHeaders \/ (r \in Holes /\ r + size_of(mem, r) = e)
  BY <1>2, <1>4, <1>5, <1>10 DEF FreeIsSafe
<1>22. r < e /\ size_of(mem, r) \in Nat /\ size_of(mem, r) >= 5 /\ r + 2 < W /\ r # b /\ r # h
  <2>1. /\ size_of(mem, r) \in Nat /\ size_of(mem, r) >= 5 /\ r + size_of(mem, r) <= e
    BY <1>6, <1>21, LayFacts
  <2> HIDE DEF H
  <2> QED
    BY <1>6, <1>10, <1>20, <2>1, Numbers
<1>23. size_of(m2, r) = size_of(mem, r)
  <2>1. r <= r + 2
    BY <1>10
  <2> HIDE DEF H
  <2> QED
    BY <1>10, <1>20, <1>22, <2>1, SizeAway
<1>24. right <=> r \in Holes
  <2>1. CASE r \in BlockHeaders
    <3>1. r \in BlockHeaders \ {b} /\ r \notin Holes
      BY <1>6, <1>22, <2>1, LayFacts
    <3>2. is_hole(m2, r) = 0
      BY <1>20, <3>1 DEF Lay, Sound
    <3> QED
      BY <1>15, <3>1, <3>2
  <2>2. CASE r \in Holes
    <3>1. r \in H
      BY <2>2
    <3>2. magic(m2, r) /\ is_hole(m2, r) = 1
      BY <1>20, <3>1 DEF Lay, Sound
    <3>3. magic(m2, r) /\ is_hole(m2, r) # 0
      BY <3>2
    <3> QED
      BY <1>15, <2>2, <3>3, Zenon
  <2> QED
    BY <1>21, <2>1, <2>2
<1>25. (g.foot + Footer) % W # end_address
  <2>1. CASE right
    <3> DEFINE s == size_of(mem, r)
    <3>1. s \in Nat /\ s >= 5 /\ r + s = e
      BY <1>21, <1>22, <1>24, <2>1, <1>6, LayFacts
    <3>2. g.foot = (t + s - Footer) % W
      BY <1>17, <1>23, <2>1
    <3> HIDE DEF s
    <3>3. t + s - Footer \in Nat /\ t + s - Footer = b + s - 4 /\ b + s - 4 < W
      BY <1>6, <1>10, <3>1, Numbers
    <3>4. g.foot = b + s - 4
      BY <3>2, <3>3, Mod
    <3>5. g.foot + Footer = b + s - 2 /\ b + s - 2 \in Nat /\ b + s - 2 < W
      BY <1>6, <1>10, <3>1, <3>4, Numbers
    <3>6. (g.foot + Footer) % W = b + s - 2
      BY <3>5, Mod
    <3> QED
      BY <1>5, <1>6, <1>10, <3>1, <3>6
  <2>2. CASE ~ right
    <3>1. g.foot = f
      BY <1>17, <2>2
    <3> QED
      BY <1>5, <1>9, <1>22, <3>1
  <2> QED
    BY <1>18, <2>1, <2>2
<1>26. g.verdict = "ok"
  <2>1. magic(mem, b) /\ magic(mem, f)
    <3>1. b + n - Footer = f
      BY <1>10, Numbers
    <3> QED
      BY <1>6, <3>1 DEF Sound
  <2>2. accessible(f) /\ accessible(t) /\ accessible(r)
    <3>1. \A a \in {f, t, r} : a \in Nat /\ start_address <= a + PAGE /\ a < end_address
      BY <1>5, <1>6, <1>10, <1>22, Numbers
    <3> QED
      BY <1>1, <3>1, Reachable
  <2>3. right => Contains(index, r)
    <3>1. ASSUME right PROVE Contains(index, r)
      <4>1. r \in ToSet(index)
        BY <1>24, <3>1 DEF Holes
      <4>2. \E k \in 1 .. Len(index) : index[k] = r
        BY <1>1, <4>1, Elements
      <4> QED
        BY <4>2 DEF Contains
    <3> QED
      BY <3>1
  <2> QED
    BY <1>17, <2>1, <2>2, <2>3
<1>27. /\ mem' = g.mem /\ index' = (IF g.left THEN g.index ELSE insert(g.mem, g.index, g.head))
       /\ end_address' = end_address
       /\ live' = [q \in DOMAIN live \ {p} |-> live[q]]
       /\ mapped' = mapped /\ calls' = calls /\ status' = status
  BY <1>16, <1>25, <1>26 DEF free
<1>28. PICK m3 : m3 = g.mem
  OBVIOUS
<1>29. Lay(m3, BlockHeaders \ {b}, IF right THEN H \ {r} ELSE H, e) /\ Touched(mem, m3, h, r)
  <2>1. CASE right
    <3> DEFINE s == size_of(m2, r)
    <3>1. m3 = grow(m2, h, s)
      BY <1>17, <1>28, <2>1
    <3>2. r \in H /\ r + s = end_address
      BY <1>5, <1>6, <1>21, <1>23, <1>24, <2>1, LayFacts
    <3> HIDE DEF H, s
    <3>3. s = size_of(m2, r)
      BY DEF s
    <3>4. r = b + size_of(mem, b)
      BY <1>4, <1>10
    <3>5. Lay(m3, BlockHeaders \ {b}, H \ {r}, end_address) /\ Touched(mem, m3, h, r)
      BY <1>1, <1>3, <1>19, <1>22, <3>1, <3>2, <3>3, <3>4, JoinRight
    <3> QED
      BY <1>5, <2>1, <3>5
  <2>2. CASE ~ right
    <3>1. m3 = m2
      BY <1>17, <1>28, <2>2
    <3> QED
      BY <1>20, <2>2, <3>1
  <2> QED
    BY <1>18, <2>1, <2>2
<1>30. PICK res : res = index'
  OBVIOUS
<1>31. /\ res \in Seq(Nat) /\ Distinct(res)
       /\ ToSet(res) = (IF right THEN Holes \ {r} ELSE Holes) \cup (IF left THEN {} ELSE {h})
  <2>1. PICK idx : idx = IF right THEN unlink(index, r) ELSE index
    OBVIOUS
  <2>2. res = IF left THEN idx ELSE insert(m3, idx, h)
    BY <1>17, <1>27, <1>28, <1>30, <2>1
  <2>3. ~ left => h \notin Holes
    BY <1>6, <1>19
  <2>4. right => r \in Holes
    BY <1>24
  <2>5. h \in Nat /\ index \in Seq(Nat) /\ Distinct(index)
    BY <1>1, <1>20
  <2>6. Lists(res, (IF right THEN Holes \ {r} ELSE Holes) \cup (IF left THEN {} ELSE {h}))
    BY <1>18, <2>1, <2>2, <2>3, <2>4, <2>5, IndexAfter, Zenon
  <2> QED
    BY <2>6 DEF Lists
<1>32. ToSet(res) = IF right THEN H \ {r} ELSE H
  <2>1. ~ left => h = b /\ h # r
    BY <1>19, <1>22
  <2> QED
    BY <1>18, <1>31, <2>1
<1>33. Freed(b, h, m3, res)
  <2>1. r = b + size_of(mem, b)
    BY <1>4, <1>10
  <2> HIDE DEF H
  <2> QED
    BY <1>5, <1>20, <1>29, <1>31, <1>32, <2>1 DEF Freed
<1>34. Freed(p - 3, h, mem', index')
  BY <1>3, <1>27, <1>28, <1>30, <1>33
<1> QED
  BY <1>1, <1>27, <1>34

LEMMA FreeKeeps ==
  ASSUME IInv, Records, NEW p \in Held, FreeIsSafe(p), free(p)
  PROVE  /\ IInv' /\ Records' /\ p \in DOMAIN live
         /\ live' = [q \in DOMAIN live \ {p} |-> live[q]]
<1>1. /\ Layout /\ Blocks /\ Memory /\ p \in DOMAIN live
  BY DEF IInv, Held
<1>2. /\ status' = "ok" /\ calls' = << >> /\ end_address' = end_address
      /\ mapped' = mapped /\ live' = [q \in DOMAIN live \ {p} |-> live[q]]
  BY FreeIs
<1>3. PICK h : Freed(p - 3, h, mem', index')
  BY FreeIs
<1>4. PICK b : b = p - 3
  OBVIOUS
<1>5. PICK n : n = size_of(mem, b)
  OBVIOUS
<1>6. PICK e : e = end_address
  OBVIOUS
<1>7. PICK m2 : m2 = mem'
  OBVIOUS
<1>8. PICK idx : idx = index'
  OBVIOUS
<1>9. b \in BlockHeaders /\ b \in Nat /\ p \in Nat
  BY <1>1, <1>4, BlockFacts
<1>10. /\ n \in Nat /\ n >= 5 /\ b + n <= e /\ b + n < W /\ e \in Nat /\ e < W
  BY <1>1, <1>5, <1>6, <1>9, FreedFacts
<1>11. /\ h \in Nat /\ start_address <= h /\ h <= b
       /\ Lay(m2, BlockHeaders \ {b}, ToSet(idx), e)
       /\ Touched(mem, m2, h, b + n)
       /\ idx \in Seq(Nat) /\ Distinct(idx)
       /\ \A x \in BlockHeaders \ {b} : x + size_of(mem, x) <= h \/ b + n <= x
  BY <1>3, <1>4, <1>5, <1>6, <1>7, <1>8 DEF Freed
<1>12. /\ DOMAIN live' = DOMAIN live \ {p}
       /\ \A q \in DOMAIN live \ {p} : live'[q] = live[q]
  BY <1>2
<1>13. BlockHeaders' = BlockHeaders \ {b}
  <2>1. \A q \in DOMAIN live : q \in Nat
    BY <1>1 DEF Blocks
  <2>2. Header = 3
    BY Numbers
  <2>3. BlockHeaders = { q - 3 : q \in DOMAIN live }
    BY <2>2 DEF BlockHeaders
  <2>4. BlockHeaders' = { q - 3 : q \in DOMAIN live \ {p} }
    BY <1>12, <2>2 DEF BlockHeaders
  <2>5. \A q \in DOMAIN live : q - 3 = b <=> q = p
    BY <1>4, <1>9, <2>1
  <2> QED
    BY <2>3, <2>4, <2>5
<1>14. Layout'
  BY <1>2, <1>6, <1>7, <1>8, <1>11, <1>13 DEF Layout, Holes
<1>15. Memory'
  <2>1. PICK hi : hi = b + n
    OBVIOUS
  <2>2. /\ hi \in Nat /\ hi <= end_address' /\ end_address <= end_address'
        /\ Touched(mem, mem', h, hi) /\ index' \in Seq(Nat)
    BY <1>2, <1>6, <1>7, <1>8, <1>9, <1>10, <1>11, <2>1
  <2>3. /\ end_address' \in Nat /\ end_address' <= max_address /\ end_address' % PAGE = 0
    BY <1>1, <1>2, HeapNumbers
  <2>4. gap_page .. (page_of(end_address') - 1) \subseteq mapped
    BY <1>1, <1>2 DEF Memory
  <2> QED
    BY <1>1, <1>2, <1>11, <2>2, <2>3, <2>4, MemoryTouched
<1>16. Blocks'
  <2> DEFINE D == DOMAIN live \ {p}
             hi == b + n
  <2>1. ASSUME NEW q \in D
        PROVE  /\ live'[q] = live[q] /\ size_of(mem', q - 3) = size_of(mem, q - 3)
               /\ (q - 3 + size_of(mem, q - 3) <= h \/ hi <= q - 3)
    <3> DEFINE r == q - 3
    <3>1. /\ q \in Nat /\ r \in BlockHeaders /\ r \in Nat /\ size_of(mem, r) \in Nat
      BY <1>1, <2>1, BlockFacts
    <3>2. r # b
      BY <1>4, <1>9, <2>1, <3>1
    <3> HIDE DEF r
    <3>3. r + size_of(mem, r) <= h \/ b + n <= r
      BY <1>11, <3>1, <3>2
    <3>4. size_of(mem, r) >= 5 /\ r + size_of(mem, r) <= e
      BY <1>1, <1>6, <3>1, LayFacts DEF Layout
    <3>5. hi \in Nat /\ r + 2 < W /\ (r + 2 < h \/ hi <= r + 2)
      BY <1>9, <1>10, <1>11, <3>1, <3>3, <3>4, Numbers
    <3>6. size_of(m2, r) = size_of(mem, r)
      BY <1>11, <3>1, <3>5, SizeAway
    <3> QED
      BY <1>7, <1>12, <2>1, <3>3, <3>6 DEF r
  <2>2. DOMAIN live' = D /\ D \subseteq DOMAIN live /\ hi \in Nat /\ Touched(mem, mem', h, hi)
    BY <1>7, <1>9, <1>10, <1>11, <1>12
  <2> HIDE DEF D, hi
  <2> QED
    BY <1>1, <1>11, <2>1, <2>2, BlocksTouched
<1>17. Calls'
  BY <1>2 DEF Calls
<1>18. Records'
  BY <1>12 DEF Records, Block
<1>19. status' \in {"ok", "out_of_memory"}
  BY <1>2
<1> QED
  BY <1>1, <1>2, <1>14, <1>15, <1>16, <1>17, <1>18, <1>19 DEF IInv

\* create_heap makes a heap of one hole.
LEMMA InitHolds ==
  ASSUME Init
  PROVE  IInv /\ Records
<1>1. PICK a : a = start_address
  OBVIOUS
<1>2. PICK e : e = initial_end
  OBVIOUS
<1>3. PICK n : n = e - a
  OBVIOUS
<1>4. /\ a \in Nat /\ e \in Nat /\ a < e /\ e < W /\ PAGE <= a /\ PAGE >= 5 /\ PAGE \in Nat
      /\ e <= max_address /\ a + PAGE <= e /\ e % PAGE = 0
  <2>1. /\ a \in Nat /\ e \in Nat /\ a < e /\ e < W /\ PAGE <= a /\ PAGE >= 5 /\ PAGE \in Nat
        /\ e <= max_address /\ e % PAGE = 0 /\ a % PAGE = 0
    BY <1>1, <1>2, Numbers
  <2> QED
    BY <2>1, RoomForPage
<1>5. n \in Nat /\ n >= 5 /\ n < W /\ a + n = e /\ a + 2 < W /\ a + 2 < e /\ W \in Nat
  BY <1>3, <1>4, Numbers
<1>6. /\ mem = put_header(a, 1, n) /\ index = << a >> /\ end_address = e
      /\ mapped = gap_page .. (page_of(e) - 1) /\ calls = << >> /\ live = nothing
      /\ status = "ok"
  BY <1>1, <1>2, <1>3 DEF Init
<1>7. DOMAIN mem = {a, a + 1, a + 2}
  <2>1. a \in Nat /\ a + 2 < W /\ n \in Nat /\ n < W
    BY <1>4, <1>5
  <2>2. PICK y : y = put_header(a, 1, n)
    OBVIOUS
  <2>3. DOMAIN y = {a, a + 1, a + 2}
    BY <2>1, <2>2, HeaderDomain
  <2> QED
    BY <1>6, <2>2, <2>3
<1>8. mem[a] = HEAP_MAGIC /\ mem[a + 1] = 1 /\ mem[a + 2] = n
  <2>1. PICK y : y = put_header(a, 1, n)
    OBVIOUS
  <2>2. y[a] = HEAP_MAGIC /\ y[a + 1] = 1 /\ y[a + 2] = n
    BY <1>4, <1>5, <2>1, PutHeader
  <2> QED
    BY <1>6, <2>1, <2>2
<1>9. word(mem, a) = HEAP_MAGIC /\ word(mem, a + 1) = 1 /\ word(mem, a + 2) = n
  <2>1. \A x \in {a, a + 1, a + 2} : x \in Nat /\ x < W /\ x \in DOMAIN mem
    BY <1>4, <1>5, <1>7
  <2>2. \A x \in {a, a + 1, a + 2} : word(mem, x) = mem[x]
    BY <2>1, WordIs
  <2> QED
    BY <1>8, <2>2
<1>10. magic(mem, a) /\ is_hole(mem, a) = 1 /\ size_of(mem, a) = n
  BY <1>9 DEF magic, is_hole, size_of
<1>11. DOMAIN live = {} /\ BlockHeaders = {}
  BY <1>6, Nothing DEF BlockHeaders
<1>12. index \in Seq(Nat) /\ Distinct(index) /\ Holes = {a}
  <2>1. PICK idx : idx = << a >>
    OBVIOUS
  <2>2. idx \in Seq(Nat) /\ Distinct(idx) /\ ToSet(idx) = {a}
    BY <1>4, <2>1, Single
  <2> QED
    BY <1>6, <2>1, <2>2 DEF Holes
<1>13. Lay(mem, {}, {a}, e)
  <2> DEFINE s == [x \in {a} |-> n]
  <2>1. Tiles({a}, s, e)
    <3>1. s \in [{a} -> Nat] /\ s[a] = n
      BY <1>5
    <3> HIDE DEF s
    <3> QED
      BY <1>1, <1>4, <1>5, <3>1, Numbers DEF Tiles
  <2>2. Sound(mem, a, 1, n, e)
    BY <1>5, <1>10 DEF Sound
  <2>3. \A x \in {a} : Sound(mem, x, 1, s[x], e)
    BY <2>2
  <2>4. {} \cup {a} = {a}
    OBVIOUS
  <2>5. \A x \in {} : Sound(mem, x, 0, s[x], e)
    OBVIOUS
  <2> HIDE DEF s
  <2> QED
    BY <2>1, <2>3, <2>4, <2>5, LayFrom
<1>14. Layout
  BY <1>6, <1>11, <1>12, <1>13 DEF Layout
<1>15. Memory
  <2>1. DOMAIN mem \subseteq start_address .. (end_address - 1)
    BY <1>1, <1>4, <1>5, <1>6, <1>7
  <2>2. \A x \in DOMAIN mem : mem[x] \in {HEAP_MAGIC} \cup 0 .. (W - 1)
    BY <1>5, <1>7, <1>8
  <2>3. end_address \in initial_end .. max_address /\ end_address % PAGE = 0
    BY <1>2, <1>4, <1>6, Numbers
  <2>4. mapped \subseteq 0 .. (W \div PAGE)
    <3> DEFINE z == a - PAGE
    <3>1. z \in Nat /\ z + PAGE = a /\ z < W /\ z + PAGE < W
      BY <1>4, Numbers
    <3> HIDE DEF z
    <3>2. page_of(z + PAGE) = page_of(z) + 1 /\ page_of(z) \in Nat
      BY <3>1, NextPage, PageNumber
    <3>3. gap_page \in Nat
      BY <1>1, <3>1, <3>2 DEF gap_page
    <3>4. page_of(e) \in 0 .. (W \div PAGE)
      BY <1>4, PageBound
    <3>5. PICK top_page : top_page = W \div PAGE
      OBVIOUS
    <3>6. page_of(e) \in Nat /\ top_page \in Nat /\ page_of(e) <= top_page
      <4>1. top_page \in Nat
        BY <1>4, <1>5, <3>5, Division
      <4> QED
        BY <3>4, <3>5, <4>1
    <3>7. gap_page .. (page_of(e) - 1) \subseteq 0 .. top_page
      BY <3>3, <3>6
    <3> QED
      BY <1>6, <3>5, <3>7
  <2>5. gap_page .. (page_of(end_address) - 1) \subseteq mapped
    BY <1>6
  <2> QED
    BY <1>12, <2>1, <2>2, <2>3, <2>4, <2>5 DEF Memory
<1>16. Blocks /\ Records
  BY <1>11 DEF Blocks, Records
<1>17. Calls /\ status \in {"ok", "out_of_memory"}
  BY <1>6 DEF Calls
<1> QED
  BY <1>14, <1>15, <1>16, <1>17 DEF IInv

-----------------------------------------------------------------------------
(***************************************************************************)
(* The invariant holds in every state                                      *)
(***************************************************************************)

\* What a step does to the blocks
Steps ==
  \/ \E p \in Nat : \E size \in Sizes \cup AlignedSizes \cup {PAGE} :
       \E table \in BOOLEAN : p \notin DOMAIN live /\ live' = handed_out(p, size, table)
  \/ \E p \in DOMAIN live : live' = [q \in DOMAIN live \ {p} |-> live[q]]
  \/ DOMAIN live' = DOMAIN live /\ \A q \in DOMAIN live : live'[q].size = live[q].size

\* A step of the kernel or of a client that frees and asks safely keeps the
\* invariant, and gives out a block, takes one back or keeps them all.
LEMMA StepKeeps ==
  ASSUME IInv, Records, [NextD]_vars
  PROVE  IInv' /\ Records' /\ Steps
<1>1. ASSUME IInv', live' = live PROVE IInv' /\ Records' /\ Steps
  BY <1>1 DEF Records, Block, Steps
<1>2. CASE alloc_hit
  <2>1. IInv' /\ \E p \in Nat : \E size \in Sizes \cup AlignedSizes \cup {PAGE} :
          \E table \in BOOLEAN : p \notin DOMAIN live /\ live' = handed_out(p, size, table)
    BY <1>2, AllocHit
  <2>2. Steps
    BY <2>1 DEF Steps
  <2>3. PICK p \in Nat, size \in Sizes \cup AlignedSizes \cup {PAGE}, table \in BOOLEAN :
          live' = handed_out(p, size, table)
    BY <2>1
  <2>4. DOMAIN live' = DOMAIN live \cup {p}
    BY <2>3 DEF handed_out
  <2>5. ASSUME NEW q \in DOMAIN live' PROVE live'[q] \in Block
    <3>1. CASE q = p
      <4>1. live'[q] = [size |-> size, written |-> table, table |-> table]
        BY <2>3, <2>4, <3>1 DEF handed_out
      <4> QED
        BY <4>1 DEF Block
    <3>2. CASE q # p
      <4>1. q \in DOMAIN live /\ live'[q] = live[q]
        BY <2>3, <2>4, <2>5, <3>2 DEF handed_out
      <4> QED
        BY <4>1 DEF Records
    <3> QED
      BY <3>1, <3>2
  <2>6. Records'
    BY <2>5 DEF Records, Block
  <2> QED
    BY <2>1, <2>2, <2>6
<1>3. CASE alloc_miss
  BY <1>1, <1>3, AllocMiss
<1>4. CASE expand_page
  BY <1>1, <1>4, ExpandPage
<1>5. CASE expand_needs_table
  BY <1>1, <1>5, ExpandNeedsTable
<1>6. CASE expand_done
  BY <1>1, <1>6, ExpandDone
<1>7. ASSUME NEW r \in Requests, AllocIsSafe(r[1], r[2]), kmalloc(r[1], r[2])
      PROVE  IInv' /\ Records' /\ Steps
  BY <1>1, <1>7, Kmalloc
<1>8. ASSUME NEW p \in Held, FreeIsSafe(p), free(p)
      PROVE  IInv' /\ Records' /\ Steps
  BY <1>8, FreeKeeps DEF Steps
<1>9. ASSUME NEW p \in Held, Write(p)
      PROVE  IInv' /\ Records' /\ Steps
  BY <1>9, WriteKeeps DEF Steps
<1>10. CASE UNCHANGED vars
  <2>1. /\ mem' = mem /\ index' = index /\ end_address' = end_address /\ mapped' = mapped
        /\ tables' = tables /\ calls' = calls /\ live' = live /\ status' = status
    BY <1>10 DEF vars
  <2>2. Layout' /\ Blocks' /\ Memory'
    BY <2>1, HeapSame DEF IInv
  <2>3. Calls'
    <3>1. \A c : Expanding(c) => Expanding(c)'
      BY <2>1, ExpandingSame
    <3>2. \A c : Asked(c) => Asked(c)'
      <4>1. ASSUME NEW c, Asked(c) PROVE Asked(c)'
        <5>1. PICK size : size = c.size
          OBVIOUS
        <5>2. PICK align : align = c.align
          OBVIOUS
        <5>3. AllocIsSafe(size, align)
          BY <4>1, <5>1, <5>2 DEF Asked
        <5>4. AllocIsSafe(size, align)'
          BY <2>1, <5>3, AllocSafeSame
        <5>5. AllocIsSafe(c.size, c.align)'
          BY <5>1, <5>2, <5>4
        <5> QED
          BY <4>1, <5>5 DEF Asked
      <4> QED
        BY <4>1
    <3> QED
      BY <2>1, <3>1, <3>2 DEF IInv, Calls, page_of, table_of, new_call
  <2>4. IInv'
    BY <2>1, <2>2, <2>3 DEF IInv
  <2> QED
    BY <1>1, <2>1, <2>4
<1> QED
  BY <1>2, <1>3, <1>4, <1>5, <1>6, <1>7, <1>8, <1>9, <1>10 DEF NextD, KernelStep

\* The invariant holds in every state that safe clients can bring about.
LEMMA Invariance == SpecD => [](IInv /\ Records)
<1>1. Init => IInv /\ Records
  BY InitHolds
<1>2. IInv /\ Records /\ [NextD]_vars => (IInv /\ Records)'
  BY StepKeeps
<1> QED
  BY <1>1, <1>2, PTL DEF SpecD

-----------------------------------------------------------------------------
(***************************************************************************)
(* What the invariant says of the heap                                     *)
(***************************************************************************)

LEMMA SameCount ==
  ASSUME NEW S, NEW T, IsFiniteSet(S), NEW f \in [S -> T],
         \A x, y \in S : f[x] = f[y] => x = y,
         \A t \in T : \E x \in S : f[x] = t
  PROVE  IsFiniteSet(T) /\ Cardinality(T) = Cardinality(S)
<1>1. f \in Injection(S, T)
  BY DEF Injection, IsInjective
<1>2. f \in Surjection(S, T)
  BY DEF Surjection
<1>3. ExistsBijection(S, T)
  BY <1>1, <1>2 DEF ExistsBijection, Bijection
<1> QED
  BY <1>3, FS_Bijection

\* A heap has as many blocks and holes as headers: no hole is listed twice and
\* no block is a hole.
LEMMA Counted ==
  ASSUME IInv
  PROVE  Cardinality(Regions) = Cardinality(DOMAIN live) + Len(index)
<1>1. Layout /\ Blocks /\ Memory
  BY DEF IInv
<1>2. /\ Lay(mem, BlockHeaders, Holes, end_address) /\ Distinct(index)
      /\ index \in Seq(Nat)
  BY <1>1 DEF Layout, Memory
<1>3. BlockHeaders \cap Holes = {}
  BY <1>2, LayFacts
<1>4. IsFiniteSet(DOMAIN live) /\ Cardinality(DOMAIN live) \in Nat
  <2>1. \A p \in DOMAIN live : p \in Nat /\ p <= end_address + 3
    <3>1. ASSUME NEW p \in DOMAIN live PROVE p \in Nat /\ p <= end_address + 3
      <4>1. PICK n : n = size_of(mem, p - 3)
        OBVIOUS
      <4>2. p \in Nat /\ n \in Nat /\ p - 3 + n <= end_address
        BY <1>1, <3>1, <4>1, BlockFacts
      <4>3. end_address \in Nat
        BY <1>1, HeapNumbers
      <4> QED
        BY <4>2, <4>3
    <3> QED
      BY <3>1
  <2>2. end_address + 3 \in Nat
    BY <1>1, HeapNumbers
  <2>3. DOMAIN live \in SUBSET Nat
    BY <2>1
  <2>4. IsFiniteSet(DOMAIN live)
    BY <2>1, <2>2, <2>3, FS_BoundedSetOfNaturals
  <2> QED
    BY <2>4, FS_CardinalityType
<1>5. IsFiniteSet(BlockHeaders) /\ Cardinality(BlockHeaders) = Cardinality(DOMAIN live)
  <2> DEFINE f == [p \in DOMAIN live |-> p - 3]
  <2>1. \A p \in DOMAIN live : p \in Nat
    BY <1>1 DEF Blocks
  <2>2. BlockHeaders = {p - 3 : p \in DOMAIN live}
    BY Numbers DEF BlockHeaders
  <2>3. f \in [DOMAIN live -> BlockHeaders]
    BY <2>2
  <2>4. \A x, y \in DOMAIN live : f[x] = f[y] => x = y
    BY <2>1
  <2>5. \A t \in BlockHeaders : \E x \in DOMAIN live : f[x] = t
    BY <2>2
  <2> HIDE DEF f
  <2> QED
    BY <1>4, <2>3, <2>4, <2>5, SameCount
<1>6. IsFiniteSet(Holes) /\ Cardinality(Holes) = Len(index) /\ Len(index) \in Nat
  <2>1. PICK idx : idx = index
    OBVIOUS
  <2>2. PICK n : n = Len(idx)
    OBVIOUS
  <2>3. idx \in Seq(Nat) /\ n \in Nat /\ DOMAIN idx = 1 .. n
    BY <1>2, <2>1, <2>2
  <2>4. \A x : x \in Holes <=> \E k \in 1 .. n : idx[k] = x
    BY <1>2, <2>1, <2>2, Elements DEF Holes
  <2>5. idx \in [1 .. n -> Holes]
    <3>1. idx \in [1 .. n -> Nat]
      BY <2>2, <2>3
    <3> QED
      BY <2>4, <3>1
  <2>6. \A j, k \in 1 .. n : idx[j] = idx[k] => j = k
    BY <1>2, <2>1, <2>2 DEF Distinct
  <2>7. \A t \in Holes : \E k \in 1 .. n : idx[k] = t
    BY <2>4
  <2>8. IsFiniteSet(1 .. n) /\ Cardinality(1 .. n) = n
    BY <2>3, FS_Interval
  <2>9. IsFiniteSet(Holes) /\ Cardinality(Holes) = Cardinality(1 .. n)
    BY <2>5, <2>6, <2>7, <2>8, SameCount
  <2> QED
    BY <2>1, <2>2, <2>3, <2>8, <2>9
<1>7. Cardinality(BlockHeaders \cup Holes)
        = Cardinality(BlockHeaders) + Cardinality(Holes) - Cardinality(BlockHeaders \cap Holes)
  BY <1>5, <1>6, FS_Union
<1>8. Cardinality(BlockHeaders \cap Holes) = 0
  BY <1>3, FS_EmptySet
<1> QED
  BY <1>4, <1>5, <1>6, <1>7, <1>8 DEF Regions

LEMMA TilingHolds ==
  ASSUME IInv
  PROVE  Tiling
<1>1. Lay(mem, BlockHeaders, Holes, end_address)
  BY DEF IInv, Layout
<1>2. PICK m : m = mem
  OBVIOUS
<1>3. PICK e : e = end_address
  OBVIOUS
<1>4. PICK B : B = BlockHeaders
  OBVIOUS
<1>5. PICK H : H = Holes
  OBVIOUS
<1>6. Lay(m, B, H, e)
  BY <1>1, <1>2, <1>3, <1>4, <1>5
<1>7. B \cap H = {} /\ start_address \in B \cup H
  BY <1>6, LayFacts
<1>8. \A r \in B \cup H : /\ size_of(m, r) >= 5 /\ r + size_of(m, r) \in B \cup H \cup {e}
                          /\ \A q \in B \cup H : r < q => r + size_of(m, r) <= q
  BY <1>6, LayFacts
<1>9. \A r \in B \cup H : magic(m, r) /\ is_hole(m, r) = (IF r \in H THEN 1 ELSE 0)
  <2>1. \A r \in B : magic(m, r) /\ is_hole(m, r) = 0
    BY <1>6 DEF Lay, Sound
  <2>2. \A r \in H : magic(m, r) /\ is_hole(m, r) = 1
    BY <1>6 DEF Lay, Sound
  <2> QED
    BY <1>7, <2>1, <2>2
<1>10. Regions = B \cup H
  BY <1>4, <1>5 DEF Regions
<1>11. start_address \in Regions
  BY <1>7, <1>10
<1>12. \A r \in Regions :
         /\ magic(mem, r) /\ size_of(mem, r) >= Overhead
         /\ is_hole(mem, r) = (IF r \in Holes THEN 1 ELSE 0)
         /\ r + size_of(mem, r) \in Regions \cup {end_address}
         /\ \A q \in Regions : r < q => r + size_of(mem, r) <= q
  BY <1>2, <1>3, <1>5, <1>8, <1>9, <1>10, Numbers
<1> QED
  BY <1>11, <1>12, Counted DEF Tiling

LEMMA FootersHold ==
  ASSUME IInv
  PROVE  FootersSound
<1>1. Lay(mem, BlockHeaders, Holes, end_address)
  BY DEF IInv, Layout
<1>2. ASSUME NEW r \in Regions, NEW f, f = r + size_of(mem, r) - Footer
      PROVE  /\ r \in BlockHeaders => magic(mem, f)
             /\ (magic(mem, f) /\ f + Footer # end_address) => header_of(mem, f) = r
  <2>1. PICK n : n = size_of(mem, r)
    OBVIOUS
  <2>2. r \in Nat /\ n \in Nat /\ n >= 5
    BY <1>1, <1>2, <2>1, LayFacts DEF Regions
  <2>3. f = r + n - Footer /\ f + Footer = r + n
    BY <1>2, <2>1, <2>2, Numbers
  <2>4. \E hole : Sound(mem, r, hole, n, end_address) /\ (r \in BlockHeaders => hole = 0)
    <3>1. CASE r \in BlockHeaders
      BY <1>1, <2>1, <3>1 DEF Lay
    <3>2. CASE r \in Holes /\ r \notin BlockHeaders
      BY <1>1, <2>1, <3>2 DEF Lay
    <3> QED
      BY <1>2, <3>1, <3>2 DEF Regions
  <2>5. PICK hole : Sound(mem, r, hole, n, end_address) /\ (r \in BlockHeaders => hole = 0)
    BY <2>4
  <2> QED
    BY <2>3, <2>5 DEF Sound
<1> QED
  BY <1>2 DEF FootersSound

LEMMA TypesHold ==
  ASSUME IInv
  PROVE  TypeOK
<1>1. Layout /\ Blocks /\ Memory /\ Calls /\ status \in {"ok", "out_of_memory"}
  BY DEF IInv
<1>2. /\ end_address \in Nat /\ start_address < end_address
      /\ end_address <= max_address /\ end_address < W
  BY <1>1, HeapNumbers
<1>3. DOMAIN mem \subseteq 0 .. (W - 1)
  <2>1. DOMAIN mem \subseteq start_address .. (end_address - 1)
    BY <1>1 DEF Memory
  <2> QED
    BY <1>2, <2>1, Numbers
<1>4. \A a \in DOMAIN mem : mem[a] \in {HEAP_MAGIC} \cup 0 .. (W - 1)
  BY <1>1 DEF Memory
<1>5. \A k \in DOMAIN index : index[k] \in 0 .. (W - 1)
  <2>1. ASSUME NEW k \in DOMAIN index PROVE index[k] \in 0 .. (W - 1)
    <3>1. index \in Seq(Nat)
      BY <1>1 DEF Memory
    <3>2. k \in 1 .. Len(index)
      BY <2>1, <3>1
    <3>3. PICK h : h = index[k]
      OBVIOUS
    <3>4. PICK n : n = size_of(mem, h)
      OBVIOUS
    <3>5. h \in Nat /\ n \in Nat /\ n >= 5 /\ h + n <= end_address
      BY <1>1, <3>2, <3>3, <3>4, HoleFacts
    <3> QED
      BY <1>2, <3>3, <3>5, Numbers
  <2> QED
    BY <2>1
<1>6. end_address \in start_address .. max_address
  BY <1>2, Numbers
<1>7. mapped \subseteq 0 .. (W \div PAGE)
  BY <1>1 DEF Memory
<1>8. Len(calls) <= StackDepth
  <2>1. CASE calls = << >>
    BY <2>1, Numbers
  <2>2. CASE status = "out_of_memory" /\ Len(calls) = 1
    BY <2>2, Numbers
  <2>3. CASE \E c : calls = << c >>
    BY <2>3, OneCall, Numbers
  <2>4. CASE \E c, d : calls = << c, d >>
    BY <2>4, TwoCalls, Numbers
  <2> QED
    BY <1>1, <2>1, <2>2, <2>3, <2>4 DEF Calls
<1>9. \A p \in DOMAIN live : live[p].size \in Sizes \cup AlignedSizes \cup {PAGE}
  BY <1>1 DEF Blocks
<1> QED
  BY <1>1, <1>3, <1>4, <1>5, <1>6, <1>7, <1>8, <1>9 DEF TypeOK

\* A block lies in the heap, away from the other blocks.
Separate ==
  /\ \A p \in DOMAIN live : /\ p \in Nat /\ live[p].size \in Nat
                            /\ start_address <= p /\ p + live[p].size <= max_address
                            /\ p < max_address
  /\ \A p, q \in DOMAIN live : p < q => p + live[p].size <= q

LEMMA BlocksApart == IInv => Separate
<1> SUFFICES ASSUME IInv PROVE Separate
  OBVIOUS
<1>1. Layout /\ Blocks /\ Memory
  BY DEF IInv
<1>2. Lay(mem, BlockHeaders, Holes, end_address)
  BY <1>1 DEF Layout
<1>3. end_address \in Nat /\ end_address <= max_address /\ start_address \in Nat
      /\ max_address \in Nat
  BY <1>1, HeapNumbers, Numbers
<1>4. ASSUME NEW p \in DOMAIN live
      PROVE  /\ p \in Nat /\ live[p].size \in Nat /\ start_address <= p
             /\ p + live[p].size <= max_address /\ p < max_address
  <2>1. PICK n : n = size_of(mem, p - 3)
    OBVIOUS
  <2>2. PICK k : k = live[p].size
    OBVIOUS
  <2>3. /\ p \in Nat /\ p - 3 \in Nat /\ k \in Nat /\ n \in Nat /\ k + 5 <= n
        /\ start_address <= p - 3 /\ p - 3 + n <= end_address
    BY <1>1, <1>4, <2>1, <2>2, BlockFacts
  <2> QED
    BY <1>3, <2>2, <2>3
<1>5. ASSUME NEW p \in DOMAIN live, NEW q \in DOMAIN live, p < q
      PROVE  p + live[p].size <= q
  <2>1. PICK r : r = p - 3
    OBVIOUS
  <2>2. PICK o : o = q - 3
    OBVIOUS
  <2>3. PICK k : k = live[p].size
    OBVIOUS
  <2>4. PICK n : n = size_of(mem, r)
    OBVIOUS
  <2>5. p \in Nat /\ r \in BlockHeaders /\ k \in Nat /\ n \in Nat /\ k + 5 <= n
    BY <1>1, <2>1, <2>3, <2>4, BlockFacts
  <2>6. q \in Nat /\ o \in BlockHeaders
    BY <1>1, <2>2, BlockFacts
  <2>7. r < o
    BY <1>5, <2>1, <2>2, <2>5, <2>6
  <2>8. r + n <= o
    BY <1>2, <2>4, <2>5, <2>6, <2>7, LayFacts
  <2> QED
    BY <2>1, <2>2, <2>3, <2>5, <2>6, <2>8
<1> QED
  BY <1>4, <1>5 DEF Separate

-----------------------------------------------------------------------------
(***************************************************************************)
(* The theorems                                                            *)
(***************************************************************************)

\* alloc, expand and free compute modulo 2^32, and what they write into
\* headers, the index and end_address never wraps or leaves the heap.
THEOREM TypeCorrect == SpecD => []TypeOK
<1>1. IInv => TypeOK
  BY TypesHold
<1> QED
  BY <1>1, Invariance, PTL

\* Splitting in alloc, merging in free and growing in expand leave blocks and
\* holes side by side: no word of the heap is lost and none is in two of them.
THEOREM RegionsTile == SpecD => []Tiling
<1>1. IInv => Tiling
  BY TilingHolds
<1> QED
  BY <1>1, Invariance, PTL

\* free reads the footer before a block to find the region on its left: it is
\* a footer of that region, or does not look like one.
THEOREM FootersLeadBack == SpecD => []FootersSound
<1>1. IInv => FootersSound
  BY FootersHold
<1> QED
  BY <1>1, Invariance, PTL

\* No header or footer that alloc, free or expand writes lies in a block that
\* a client has filled.
THEOREM ClientDataKept == SpecD => []UserDataIntact
<1>1. IInv => UserDataIntact
  BY DEF IInv, Blocks, UserDataIntact
<1> QED
  BY <1>1, Invariance, PTL

\* The ASSERTs of free hold, no header or footer is looked for on a page that
\* is not present, and alloc and expand do not call each other until the stack
\* is full: only expand's test of max_address stops the kernel.
THEOREM NothingPanics == SpecD => []NoPanic
<1>1. IInv => NoPanic
  BY DEF IInv, NoPanic
<1> QED
  BY <1>1, Invariance, PTL

\* free never contracts the heap of these clients: it looks for the end of a
\* merged hole from the wrong footer (kheap.c:290), and does not find it at
\* end_address.
THEOREM NeverShrinks == SpecD => [][end_address' >= end_address]_vars
<1>1. IInv /\ Records /\ [NextD]_vars => [end_address' >= end_address]_vars
  <2> SUFFICES ASSUME IInv, NextD
               PROVE  end_address' >= end_address
    OBVIOUS
  <2>1. end_address \in Nat
    BY HeapNumbers DEF IInv
  <2>2. ASSUME expand_done PROVE end_address' >= end_address
    <3>1. Layout /\ Blocks /\ Memory
      BY DEF IInv
    <3>2. PICK c : Expanding(c) /\ top = c
      BY <2>2, InLoop DEF expand_done
    <3>3. PICK l : l = heap_length
      OBVIOUS
    <3>4. l \in Nat /\ start_address + l = end_address /\ start_address \in Nat
      BY <3>1, <3>3, HeapNumbers, Numbers
    <3>5. c.new_size \in Nat /\ c.size \in Nat /\ l + c.size + 5 < c.new_size
      BY <3>1, <3>2, <3>3, LoopNumbers
    <3>6. end_address' = start_address + c.new_size
      BY <2>2, <3>2 DEF expand_done
    <3> QED
      BY <3>4, <3>5, <3>6
  <2>3. ASSUME NEW p \in Held, FreeIsSafe(p), free(p)
        PROVE  end_address' = end_address
    BY <2>3, FreeIs
  <2>4. ASSUME alloc_hit \/ alloc_miss \/ expand_page \/ expand_needs_table
        PROVE  end_address' = end_address
    <3>1. ASSUME NEW why, panic(why) PROVE end_address' = end_address
      BY <3>1 DEF panic
    <3>2. CASE alloc_hit
      BY <3>1, <3>2, Zenon DEF alloc_hit
    <3>3. CASE alloc_miss
      BY <3>1, <3>3, Zenon DEF alloc_miss
    <3>4. CASE expand_page
      BY <3>4, Zenon DEF expand_page
    <3>5. CASE expand_needs_table
      BY <3>1, <3>5, Zenon DEF expand_needs_table
    <3> QED
      BY <2>4, <3>2, <3>3, <3>4, <3>5
  <2>5. ASSUME NEW r \in Requests, kmalloc(r[1], r[2]) PROVE end_address' = end_address
    BY <2>5 DEF kmalloc
  <2>6. ASSUME NEW p \in Held, Write(p) PROVE end_address' = end_address
    BY <2>6 DEF Write
  <2> QED
    BY <2>1, <2>2, <2>3, <2>4, <2>5, <2>6 DEF NextD, KernelStep
<1> QED
  BY <1>1, Invariance, PTL DEF SpecD

\* Handing out a block is a step of the abstract allocator.
LEMMA AllocImplements ==
  ASSUME IInv, IInv', NEW p \in Nat, NEW size \in Sizes \cup AlignedSizes \cup {PAGE},
         NEW table, p \notin DOMAIN live, live' = handed_out(p, size, table)
  PROVE  Abstract!Next
<1> DEFINE b == [q \in DOMAIN live |-> live[q].size]
           b2 == [q \in DOMAIN live' |-> live'[q].size]
<1>1. /\ DOMAIN live' = DOMAIN live \cup {p} /\ live'[p].size = size
      /\ \A q \in DOMAIN live : q # p => live'[q] = live[q]
  BY HandedOut DEF Handed
<1>2. /\ \A q \in DOMAIN live' : /\ q \in Nat /\ live'[q].size \in Nat
                                 /\ start_address <= q /\ q + live'[q].size <= max_address
                                 /\ q < max_address
      /\ \A r, q \in DOMAIN live' : r < q => r + live'[r].size <= q
  <2>1. (IInv => Separate)'
    BY BlocksApart, PTL
  <2> QED
    BY <2>1 DEF Separate
<1>3. start_address \in Nat /\ max_address \in Nat
  BY Numbers
<1>4. p .. (p + size - 1) \subseteq start_address .. (max_address - 1)
  BY <1>1, <1>2, <1>3
<1>5. p \in start_address .. (max_address - 1)
  BY <1>1, <1>2, <1>3
<1>6. DOMAIN b = DOMAIN live /\ \A q \in DOMAIN live : b[q] = live[q].size
  OBVIOUS
<1>7. \A q \in DOMAIN b : (q .. (q + b[q] - 1)) \cap (p .. (p + size - 1)) = {}
  <2>1. ASSUME NEW q \in DOMAIN live
        PROVE  (q .. (q + live[q].size - 1)) \cap (p .. (p + size - 1)) = {}
    <3>1. PICK n : n = live[q].size
      OBVIOUS
    <3>2. q # p /\ q \in DOMAIN live' /\ live'[q].size = n
      BY <1>1, <2>1, <3>1
    <3>3. q \in Nat /\ n \in Nat /\ size \in Nat
      BY <1>1, <1>2, <3>2
    <3>4. q < p => q + n <= p
      BY <1>1, <1>2, <3>2
    <3>5. p < q => p + size <= q
      BY <1>1, <1>2, <3>2
    <3>6. (q .. (q + n - 1)) \cap (p .. (p + size - 1)) = {}
      BY <3>2, <3>3, <3>4, <3>5
    <3> QED
      BY <3>1, <3>6
  <2> QED
    BY <1>6, <2>1
<1>8. b2 = [q \in DOMAIN b \cup {p} |-> IF q = p THEN size ELSE b[q]]
  BY <1>1, <1>6
<1>9. p \notin DOMAIN b
  BY <1>6
<1>10. Abstract!Alloc(p, size)
  BY <1>4, <1>7, <1>8, <1>9 DEF Abstract!Alloc, Abstract!Words
<1> QED
  BY <1>5, <1>10 DEF Abstract!Next

\* kmalloc and kfree implement the abstract allocator: alloc hands out words of
\* the heap that no other block has, and no step moves or resizes a block.
THEOREM Refinement == SpecD => ImplementsAllocator
<1>1. Init => Abstract!Init
  <2> SUFFICES ASSUME Init PROVE Abstract!Init
    OBVIOUS
  <2>1. live = nothing
    BY DEF Init
  <2>2. DOMAIN live = {}
    BY <2>1 DEF nothing
  <2> QED
    BY <2>2 DEF Abstract!Init
<1>2. IInv /\ Records /\ [NextD]_vars
        => [Abstract!Next]_([p \in DOMAIN live |-> live[p].size])
  <2> SUFFICES ASSUME IInv, Records, [NextD]_vars
               PROVE  [Abstract!Next]_([p \in DOMAIN live |-> live[p].size])
    OBVIOUS
  <2>1. IInv' /\ Steps
    BY StepKeeps
  <2>2. ASSUME NEW p \in Nat, NEW size \in Sizes \cup AlignedSizes \cup {PAGE},
               NEW table \in BOOLEAN, p \notin DOMAIN live,
               live' = handed_out(p, size, table)
        PROVE  Abstract!Next
    BY <2>1, <2>2, AllocImplements
  <2>3. ASSUME NEW p \in DOMAIN live, live' = [q \in DOMAIN live \ {p} |-> live[q]]
        PROVE  Abstract!Next
    <3> DEFINE b == [q \in DOMAIN live |-> live[q].size]
               b2 == [q \in DOMAIN live' |-> live'[q].size]
    <3>1. DOMAIN b = DOMAIN live
      OBVIOUS
    <3>2. b2 = [q \in DOMAIN b \ {p} |-> b[q]]
      BY <2>3
    <3>3. p \in start_address .. (max_address - 1)
      BY <2>3, BlocksApart, Numbers DEF Separate
    <3>4. Abstract!Free(p)
      BY <3>1, <3>2 DEF Abstract!Free
    <3> QED
      BY <3>3, <3>4 DEF Abstract!Next
  <2>4. ASSUME DOMAIN live' = DOMAIN live,
               \A q \in DOMAIN live : live'[q].size = live[q].size
        PROVE  UNCHANGED [p \in DOMAIN live |-> live[p].size]
    BY <2>4
  <2> QED
    BY <2>1, <2>2, <2>3, <2>4 DEF Steps
<1> QED
  BY <1>1, <1>2, Invariance, PTL DEF SpecD, ImplementsAllocator, Abstract!Spec
=============================================================================
