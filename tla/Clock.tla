------------------------------- MODULE Clock -------------------------------
(***************************************************************************)
(* libc/time.c: get_time and cmos_reader read the registers of the         *)
(* real-time clock while the clock goes on.                                *)
(*                                                                         *)
(* BCD_CONVERTER is a macro that names its argument twice, so every field  *)
(* is read twice, once for each digit, and C leaves open which is first.   *)
(* What protects a call is the wait for the flag "update in progress".     *)
(*                                                                         *)
(* External, after the data sheet of the MC146818, which the emulators     *)
(* follow: registers change only in an update; the flag rises at least     *)
(* 244 microseconds before it and falls with it; digits are in BCD.  The   *)
(* 244 microseconds are counted in register reads (Lead).                  *)
(***************************************************************************)
EXTENDS Integers, Sequences

CONSTANTS
  calendar,   \* the registers' contents, from one update to the next
  Lead        \* reads that surely fit between the flag's rise and an update

TIME_R_SECOND == 4
TIME_R_MINUTE == 5
TIME_R_HOUR   == 6
TIME_R_DAY    == 7
TIME_R_MONTH  == 8
TIME_R_YEAR   == 9

Registers == 4 .. 9

\* cmos_reader reads in this order
all_fields == << TIME_R_SECOND, TIME_R_MINUTE, TIME_R_HOUR,
                 TIME_R_DAY, TIME_R_MONTH, TIME_R_YEAR >>

ASSUME ClockAssumption ==
  /\ calendar \in Seq([Registers -> 0 .. 255]) /\ calendar # << >>
  /\ Lead \in Nat /\ Lead >= 2 * Len(all_fields)

VARIABLES
  now,     \* the entry of calendar that the registers show
  uip,     \* update in progress: bit 7 of register 0x0A
  lead,    \* reads since uip rose
  stage,   \* of the call in progress: "wait", "first", "second"; or "idle"
  regs,    \* the registers that the last call reads, in order
  digit,   \* the digit that the first of the two reads gave
  got,     \* the fields it has read so far
  seen     \* history: now when its wait ended

reader == <<stage, regs, digit, got, seen>>

clock_vars == <<now, uip, lead, reader>>

-----------------------------------------------------------------------------
(***************************************************************************)
(* The reader                                                              *)
(***************************************************************************)
tens(n) == (n \div 16) * 10

units(n) == n % 16

BCD_CONVERTER(n) == tens(n) + units(n)

calling(fields) ==
  /\ stage = "idle"
  /\ stage' = "wait" /\ regs' = fields /\ got' = << >>
  /\ UNCHANGED <<now, uip, lead, digit, seen>>

get_time(field) == calling(<< field >>)

cmos_reader == calling(all_fields)

wait_once ==
  /\ stage = "wait"
  /\ stage' = "first" /\ seen' = now
  /\ UNCHANGED <<now, uip, lead, regs, digit, got>>

wait_inverted ==
  /\ stage = "wait" /\ uip = 1
  /\ stage' = "first" /\ seen' = now
  /\ UNCHANGED <<now, uip, lead, regs, digit, got>>

\* while(is_cmos_updated());
wait_ends ==
  /\ stage = "wait" /\ uip = 0
  /\ stage' = "first" /\ seen' = now
  /\ UNCHANGED <<now, uip, lead, regs, digit, got>>

\* The register that is being read, as it is now
reg_status == calendar[now][regs[Len(got) + 1]]

one_read == lead' = IF uip = 1 /\ lead < Lead THEN lead + 1 ELSE lead

\* One operand of the sum in BCD_CONVERTER, either of the two
read_first ==
  /\ stage = "first"
  /\ digit' \in { [place |-> "tens", value |-> tens(reg_status)],
                  [place |-> "units", value |-> units(reg_status)] }
  /\ stage' = "second"
  /\ one_read
  /\ UNCHANGED <<now, uip, regs, got, seen>>

read_second_again ==
  /\ stage = "second"
  /\ got' = Append(got, digit.value)
  /\ stage' = IF Len(got') <= Len(regs) THEN "first" ELSE "idle"
  /\ one_read
  /\ UNCHANGED <<now, uip, regs, digit, seen>>

\* The other operand; get_time is done, cmos_reader goes on to its next field
read_second ==
  /\ stage = "second"
  /\ LET other == IF digit.place = "tens" THEN units(reg_status)
                  ELSE tens(reg_status)
     IN got' = Append(got, digit.value + other)
  /\ stage' = IF Len(got') < Len(regs) THEN "first" ELSE "idle"
  /\ one_read
  /\ UNCHANGED <<now, uip, regs, digit, seen>>

Reader == wait_ends \/ read_first \/ read_second

-----------------------------------------------------------------------------
(***************************************************************************)
(* The clock.  Bound: it stops at the end of the calendar.                 *)
(***************************************************************************)
UpdateAnnounced ==
  /\ uip = 0 /\ now < Len(calendar)
  /\ uip' = 1 /\ lead' = 0
  /\ UNCHANGED <<now, reader>>

\* Not before the reads that fit in between, if a call is reading
Update ==
  /\ uip = 1
  /\ stage \in {"first", "second"} => lead >= Lead
  /\ now' = now + 1 /\ uip' = 0 /\ lead' = 0
  /\ UNCHANGED reader

Tick == UpdateAnnounced \/ Update

ClockInit ==
  /\ now = 1 /\ uip = 0 /\ lead = 0
  /\ stage = "idle" /\ regs = << >> /\ got = << >> /\ seen = 1
  /\ digit = [place |-> "tens", value |-> 0]

ClockNext ==
  \/ Tick \/ Reader
  \/ cmos_reader \/ \E field \in Registers : get_time(field)

ClockSpec == ClockInit /\ [][ClockNext]_clock_vars

-----------------------------------------------------------------------------
\* The reader keeps to the registers of its call and reads no more of them
\* than there are.
ClockTypeOK ==
  /\ now \in 1 .. Len(calendar)
  /\ uip \in {0, 1} /\ lead \in 0 .. Lead
  /\ stage \in {"idle", "wait", "first", "second"}
  /\ regs \in Seq(Registers) /\ Len(regs) <= Len(all_fields)
  /\ digit \in [place : {"tens", "units"}, value : Nat]
  /\ got \in Seq(Nat) /\ Len(got) <= Len(regs)
  /\ stage \in {"first", "second"} => Len(got) < Len(regs)
  /\ seen \in 1 .. Len(calendar)

\* The fields that a call returns, although each is read twice and the clock
\* goes on, are the registers' contents at one moment of the call.
CallAtomic ==
  \A j \in 1 .. Len(got) : got[j] = BCD_CONVERTER(calendar[seen][regs[j]])
=============================================================================
