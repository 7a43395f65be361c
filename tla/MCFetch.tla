------------------------------ MODULE MCFetch -------------------------------
(***************************************************************************)
(* Three updates of the clock that change many digits at once: noon, the   *)
(* end of a month and the end of a year.  The numbers are the ones at      *)
(* which numerals get longer; ten million ticks take nine characters with  *)
(* the NUL.  CPUs with and without names.                                  *)
(***************************************************************************)
EXTENDS Fetch, TLC

\* Hour, alarm, weekday, day, month, year as the registers hold them
at(h, d, m, y) ==
  4 :> h @@ 5 :> 0 @@ 6 :> 2 @@ 7 :> d @@ 8 :> m @@ 9 :> y

MCcalendar ==
  << at(17, 48, 9, 32),      \* 11 h, 30 September 20
     at(18, 48, 9, 32),      \* 12 h
     at(0, 1, 16, 32),       \* 1 October 20
     at(35, 49, 18, 41),     \* 31 December 29
     at(0, 1, 1, 48) >>      \* 1 January 30

MCticks == {0, 9, 10, 88, 9999999, 10000000, 2147483647}

MCregister_values ==
  { [k \in 1 .. 8 |-> k - 1], [k \in 1 .. 8 |-> 16 * k - 1],
    [k \in 1 .. 8 |-> IF k = 8 THEN 2147483647 ELSE 1048576 * k] }

\* family * 256 + type * 4096
MCcpus ==
  { [brand |-> INTEL, eax |-> 1536], [brand |-> INTEL, eax |-> 16128],
    [brand |-> INTEL, eax |-> 17920],
    [brand |-> AMD, eax |-> 1536], [brand |-> "Cent", eax |-> 1536] }
=============================================================================
