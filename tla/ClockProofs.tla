----------------------------- MODULE ClockProofs -----------------------------
(***************************************************************************)
(* What the wait for the update flag achieves, for every calendar: a call  *)
(* of get_time or cmos_reader returns what the clock showed at one moment, *)
(* although every register is read twice while the clock goes on.          *)
(***************************************************************************)
EXTENDS Clock, SequenceTheorems, TLAPS

reading == stage \in {"first", "second"}

\* Reads that the call in progress has made
reads == 2 * Len(got) + (IF stage = "second" THEN 1 ELSE 0)

\* The flag is up only if an update will follow.
UpdateFollows == uip = 1 => now < Len(calendar)

\* While a call reads, the registers still show what they showed when its
\* wait ended, and the flag has not been up for longer than it reads.
Steady == reading => now = seen /\ (uip = 1 => lead <= reads)

\* The digit in hand is one of the register that is being read.
DigitFits ==
  stage = "second" =>
    digit \in { [place |-> "tens", value |-> tens(reg_status)],
                [place |-> "units", value |-> units(reg_status)] }

\* A call that waits has read nothing and has something to read.
NothingRead == stage = "wait" => got = << >> /\ Len(regs) > 0

IInv ==
  /\ ClockTypeOK /\ CallAtomic
  /\ UpdateFollows /\ Steady /\ DigitFits /\ NothingRead

-----------------------------------------------------------------------------
\* The list of cmos_reader.
LEMMA AllFields == all_fields \in Seq(Registers) /\ Len(all_fields) = 6
<1> DEFINE R == Registers
<1>1. {4, 5, 6, 7, 8, 9} \subseteq R
  BY DEF Registers
<1> HIDE DEF R
<1>2. all_fields = << 4, 5, 6, 7, 8, 9 >>
  BY DEF all_fields, TIME_R_SECOND, TIME_R_MINUTE, TIME_R_HOUR, TIME_R_DAY,
         TIME_R_MONTH, TIME_R_YEAR
<1>3. all_fields \in Seq(R) /\ Len(all_fields) = 6
  BY <1>1, <1>2
<1> QED
  BY <1>3 DEF R

\* A register's digits are naturals.
LEMMA Digits ==
  ASSUME NEW n \in 0 .. 255
  PROVE  tens(n) \in Nat /\ units(n) \in Nat
  BY DEF tens, units

\* While a call reads, there is a register to read and it holds a byte.
LEMMA RegStatus ==
  ASSUME ClockTypeOK, reading
  PROVE  /\ Len(got) \in Nat /\ Len(got) + 1 \in 1 .. Len(regs)
         /\ regs[Len(got) + 1] \in Registers
         /\ calendar[now] \in [Registers -> 0 .. 255]
         /\ reg_status \in 0 .. 255
<1>1. /\ got \in Seq(Nat) /\ regs \in Seq(Registers) /\ Len(got) < Len(regs)
      /\ now \in 1 .. Len(calendar)
  BY DEF ClockTypeOK, reading
<1>2. Len(got) \in Nat /\ Len(got) + 1 \in 1 .. Len(regs)
  BY <1>1
<1>3. regs[Len(got) + 1] \in Registers
  BY <1>1, <1>2
<1>4. calendar[now] \in [Registers -> 0 .. 255]
  <2> DEFINE S == [Registers -> 0 .. 255]
  <2>1. calendar \in Seq(S)
    BY ClockAssumption
  <2> HIDE DEF S
  <2>2. calendar[now] \in S
    BY <1>1, <2>1
  <2> QED
    BY <2>2 DEF S
<1>5. reg_status \in 0 .. 255
  BY <1>3, <1>4 DEF reg_status
<1> QED
  BY <1>2, <1>3, <1>4, <1>5

\* The first moment.
LEMMA InitEstablishes == ClockInit => IInv
<1> SUFFICES ASSUME ClockInit PROVE IInv
  OBVIOUS
<1>1. Len(calendar) \in Nat \ {0}
  BY ClockAssumption
<1>2. 1 \in 1 .. Len(calendar)
  BY <1>1
<1>3. Lead \in Nat
  BY ClockAssumption
<1>4. /\ now = 1 /\ uip = 0 /\ lead = 0 /\ seen = 1 /\ stage = "idle"
      /\ regs = << >> /\ got = << >> /\ digit = [place |-> "tens", value |-> 0]
  BY DEF ClockInit
<1>5. regs \in Seq(Registers) /\ got \in Seq(Nat) /\ Len(regs) = 0 /\ Len(got) = 0
  BY <1>4
<1>6. ClockTypeOK
  BY <1>2, <1>3, <1>4, <1>5, AllFields DEF ClockTypeOK
<1>7. CallAtomic
  BY <1>5 DEF CallAtomic
<1> QED
  BY <1>4, <1>6, <1>7
  DEF IInv, UpdateFollows, Steady, DigitFits, NothingRead, reading

-----------------------------------------------------------------------------
\* A call begins.
LEMMA CallStep ==
  ASSUME IInv, NEW f \in Seq(Registers), calling(f),
         Len(f) > 0, Len(f) <= Len(all_fields)
  PROVE  IInv'
<1>1. /\ stage' = "wait" /\ regs' = f /\ got' = << >>
      /\ UNCHANGED <<now, uip, lead, digit, seen>>
  BY DEF calling
<1>2. got' \in Seq(Nat) /\ Len(got') = 0
  BY <1>1
<1>3. Len(f) \in Nat
  OBVIOUS
<1>4. ClockTypeOK'
  BY <1>1, <1>2, <1>3 DEF IInv, ClockTypeOK
<1>5. CallAtomic'
  BY <1>2 DEF CallAtomic
<1> QED
  BY <1>1, <1>4, <1>5
  DEF IInv, UpdateFollows, Steady, DigitFits, NothingRead, reading

\* The wait ends: the flag is down and nothing has been read.
LEMMA WaitStep == ASSUME IInv, wait_ends PROVE IInv'
<1>1. /\ stage = "wait" /\ uip = 0 /\ stage' = "first" /\ seen' = now
      /\ UNCHANGED <<now, uip, lead, regs, digit, got>>
  BY DEF wait_ends
<1>2. got = << >> /\ Len(regs) > 0
  BY <1>1 DEF IInv, NothingRead
<1>3. got' = << >> /\ Len(got') = 0 /\ Len(got') < Len(regs')
  BY <1>1, <1>2
<1>4. ClockTypeOK'
  BY <1>1, <1>3 DEF IInv, ClockTypeOK
<1>5. CallAtomic'
  BY <1>3 DEF CallAtomic
<1> QED
  BY <1>1, <1>4, <1>5
  DEF IInv, UpdateFollows, Steady, DigitFits, NothingRead, reading

\* Counting a read keeps lead in its range and adds at most one to it.
LEMMA OneRead ==
  ASSUME lead \in 0 .. Lead, one_read
  PROVE  lead' \in 0 .. Lead /\ lead' <= lead + 1
<1>1. Lead \in Nat
  BY ClockAssumption
<1> QED
  BY <1>1 DEF one_read

\* The first of the two reads: one digit of the register as it is.
LEMMA ReadFirstStep == ASSUME IInv, read_first PROVE IInv'
<1>1. /\ stage = "first" /\ stage' = "second" /\ one_read
      /\ digit' \in { [place |-> "tens", value |-> tens(reg_status)],
                      [place |-> "units", value |-> units(reg_status)] }
      /\ UNCHANGED <<now, uip, regs, got, seen>>
  BY DEF read_first
<1>2. ClockTypeOK /\ reading
  BY <1>1 DEF IInv, reading
<1>3. reg_status \in 0 .. 255 /\ reg_status' = reg_status
  BY <1>1, <1>2, RegStatus DEF reg_status
<1>4. tens(reg_status) \in Nat /\ units(reg_status) \in Nat
  BY <1>3, Digits
<1>5. digit' \in [place : {"tens", "units"}, value : Nat]
  BY <1>1, <1>4
<1>6. lead' \in 0 .. Lead /\ lead' <= lead + 1 /\ lead \in 0 .. Lead
  BY <1>1, <1>2, OneRead DEF ClockTypeOK
<1>7. ClockTypeOK'
  BY <1>1, <1>2, <1>5, <1>6 DEF ClockTypeOK, reading
<1>8. Len(got) \in Nat /\ Lead \in Nat
  BY <1>2, RegStatus, ClockAssumption
<1>9. reads' = reads + 1
  BY <1>1, <1>8 DEF reads
<1>10. Steady'
  BY <1>1, <1>2, <1>6, <1>8, <1>9 DEF IInv, Steady, reading, reads
<1>11. DigitFits'
  BY <1>1, <1>3 DEF DigitFits
<1>12. CallAtomic'
  BY <1>1 DEF IInv, CallAtomic
<1> QED
  BY <1>1, <1>7, <1>10, <1>11, <1>12 DEF IInv, UpdateFollows, NothingRead

\* The second read: with the digit in hand, the whole field.
LEMMA ReadSecondStep == ASSUME IInv, read_second PROVE IInv'
<1> DEFINE other == IF digit.place = "tens" THEN units(reg_status)
                    ELSE tens(reg_status)
           field == digit.value + other
<1>1. /\ stage = "second" /\ one_read
      /\ got' = Append(got, field)
      /\ stage' = IF Len(got') < Len(regs) THEN "first" ELSE "idle"
      /\ UNCHANGED <<now, uip, regs, digit, seen>>
  BY DEF read_second
<1>2. ClockTypeOK /\ reading
  BY <1>1 DEF IInv, reading
<1>3. /\ reg_status \in 0 .. 255 /\ Len(got) \in Nat
      /\ Len(got) + 1 \in 1 .. Len(regs)
  BY <1>2, RegStatus
<1>4. tens(reg_status) \in Nat /\ units(reg_status) \in Nat
  BY <1>3, Digits
<1>5. digit \in { [place |-> "tens", value |-> tens(reg_status)],
                  [place |-> "units", value |-> units(reg_status)] }
  BY <1>1 DEF IInv, DigitFits
<1>6. field = BCD_CONVERTER(reg_status) /\ field \in Nat
  BY <1>4, <1>5 DEF BCD_CONVERTER
<1>7. now = seen /\ (uip = 1 => lead <= reads)
  BY <1>2 DEF IInv, Steady
<1>8. field = BCD_CONVERTER(calendar[seen][regs[Len(got) + 1]])
  BY <1>6, <1>7 DEF reg_status
<1> HIDE DEF field
<1>9. got \in Seq(Nat)
  BY <1>2 DEF ClockTypeOK
<1>10. /\ got' \in Seq(Nat) /\ Len(got') = Len(got) + 1
       /\ got'[Len(got) + 1] = field
       /\ \A j \in 1 .. Len(got) : got'[j] = got[j]
  BY <1>1, <1>6, <1>9
<1>11. lead' \in 0 .. Lead /\ lead' <= lead + 1 /\ lead \in 0 .. Lead
  BY <1>1, <1>2, OneRead DEF ClockTypeOK
<1>12. ClockTypeOK'
  BY <1>1, <1>2, <1>3, <1>10, <1>11 DEF ClockTypeOK
<1>13. Lead \in Nat
  BY ClockAssumption
<1>14. reads' = reads + 1
  BY <1>1, <1>3, <1>10 DEF reads
<1>15. reads \in Nat
  BY <1>3 DEF reads
<1>16. Steady'
  BY <1>1, <1>7, <1>11, <1>13, <1>14, <1>15 DEF Steady
<1>17. CallAtomic'
  <2> SUFFICES ASSUME NEW j \in 1 .. Len(got')
               PROVE  got'[j] = BCD_CONVERTER(calendar[seen][regs[j]])
    BY <1>1 DEF CallAtomic
  <2>1. CASE j \in 1 .. Len(got)
    BY <2>1, <1>10 DEF IInv, CallAtomic
  <2>2. CASE j = Len(got) + 1
    BY <2>2, <1>8, <1>10
  <2> QED
    BY <2>1, <2>2, <1>3, <1>10
<1> QED
  BY <1>1, <1>12, <1>16, <1>17
  DEF IInv, UpdateFollows, DigitFits, NothingRead

-----------------------------------------------------------------------------
\* The flag rises: nothing has been read since.
LEMMA AnnounceStep == ASSUME IInv, UpdateAnnounced PROVE IInv'
<1>1. /\ now < Len(calendar) /\ uip' = 1 /\ lead' = 0
      /\ UNCHANGED <<now, stage, regs, digit, got, seen>>
  BY DEF UpdateAnnounced, reader
<1>2. Lead \in Nat
  BY ClockAssumption
<1>3. ClockTypeOK'
  BY <1>1, <1>2 DEF IInv, ClockTypeOK
<1>4. UpdateFollows'
  BY <1>1 DEF UpdateFollows
<1>5. Steady'
  <2>1. ClockTypeOK
    BY DEF IInv
  <2>2. ASSUME reading PROVE 0 <= reads
    BY <2>1, <2>2, RegStatus DEF reads
  <2> QED
    BY <1>1, <2>2 DEF IInv, Steady, reading, reads
<1>6. DigitFits' /\ CallAtomic' /\ NothingRead'
  BY <1>1 DEF IInv, DigitFits, CallAtomic, NothingRead, reg_status
<1> QED
  BY <1>3, <1>4, <1>5, <1>6 DEF IInv

\* The update: it does not fall into a call that reads, since by then the
\* call would have made more reads than it has registers for.
LEMMA UpdateStep == ASSUME IInv, Update PROVE IInv'
<1>1. /\ uip = 1 /\ (reading => lead >= Lead)
      /\ now' = now + 1 /\ uip' = 0 /\ lead' = 0
      /\ UNCHANGED <<stage, regs, digit, got, seen>>
  BY DEF Update, reader, reading
<1>2. Lead \in Nat /\ Lead >= 12
  BY ClockAssumption, AllFields
<1>3. ClockTypeOK
  BY DEF IInv
<1>4. ~ reading
  <2> SUFFICES ASSUME reading PROVE FALSE
    OBVIOUS
  <2>1. lead >= Lead /\ lead <= reads /\ lead \in 0 .. Lead
    BY <1>1, <1>3 DEF IInv, Steady, ClockTypeOK
  <2>2. Len(got) \in Nat /\ Len(got) < Len(regs) /\ Len(regs) <= 6
    BY <1>3, AllFields, RegStatus DEF ClockTypeOK, reading
  <2>3. Len(regs) \in Nat
    BY <1>3 DEF ClockTypeOK
  <2>4. reads <= 11 /\ reads \in Nat
    BY <2>2, <2>3 DEF reads
  <2> QED
    BY <2>1, <2>4, <1>2
<1>5. now < Len(calendar) /\ Len(calendar) \in Nat
  BY <1>1, ClockAssumption DEF IInv, UpdateFollows
<1>6. ClockTypeOK'
  BY <1>1, <1>2, <1>3, <1>5 DEF ClockTypeOK
<1>7. CallAtomic' /\ NothingRead'
  BY <1>1 DEF IInv, CallAtomic, NothingRead
<1> QED
  BY <1>1, <1>4, <1>6, <1>7 DEF IInv, UpdateFollows, Steady, DigitFits, reading

\* Every step of clock and reader.
LEMMA StepPreserves == IInv /\ [ClockNext]_clock_vars => IInv'
<1> SUFFICES ASSUME IInv, [ClockNext]_clock_vars PROVE IInv'
  OBVIOUS
<1>1. CASE UpdateAnnounced
  BY <1>1, AnnounceStep
<1>2. CASE Update
  BY <1>2, UpdateStep
<1>3. CASE wait_ends
  BY <1>3, WaitStep
<1>4. CASE read_first
  BY <1>4, ReadFirstStep
<1>5. CASE read_second
  BY <1>5, ReadSecondStep
<1>6. CASE cmos_reader
  <2>1. /\ all_fields \in Seq(Registers) /\ calling(all_fields)
        /\ Len(all_fields) > 0 /\ Len(all_fields) <= Len(all_fields)
    BY <1>6, AllFields DEF cmos_reader
  <2> QED
    BY <2>1, CallStep, Zenon
<1>7. ASSUME NEW field \in Registers, get_time(field) PROVE IInv'
  <2>1. << field >> \in Seq(Registers) /\ calling(<< field >>)
    BY <1>7 DEF get_time
  <2>2. Len(<< field >>) > 0 /\ Len(<< field >>) <= Len(all_fields)
    BY AllFields
  <2> QED
    BY <2>1, <2>2, CallStep, Zenon
<1>8. CASE UNCHANGED clock_vars
  BY <1>8 DEF clock_vars, reader, IInv, ClockTypeOK, UpdateFollows, Steady,
              DigitFits, CallAtomic, NothingRead, reading, reads, reg_status
<1> QED
  BY <1>1, <1>2, <1>3, <1>4, <1>5, <1>6, <1>7, <1>8
  DEF ClockNext, Tick, Reader

\* The inductive invariant holds always.
LEMMA Invariance == ClockSpec => []IInv
<1> QED
  BY InitEstablishes, StepPreserves, PTL DEF ClockSpec

\* Clock and reader keep to the calendar and to the registers of the call
\* (time.c), for every calendar.
THEOREM ClockTypeCorrect == ClockSpec => []ClockTypeOK
<1>1. IInv => ClockTypeOK
  BY DEF IInv
<1> QED
  BY <1>1, Invariance, PTL

\* What get_time and cmos_reader return is what the clock showed at one
\* moment, for every calendar and every interleaving with the clock
\* (time.c:5-38).
THEOREM CallAlwaysAtomic == ClockSpec => []CallAtomic
<1>1. IInv => CallAtomic
  BY DEF IInv
<1> QED
  BY <1>1, Invariance, PTL
=============================================================================
