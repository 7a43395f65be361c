------------------------------- MODULE Fetch -------------------------------
(***************************************************************************)
(* The commands of the shell that report something: fetch (fetch.c, with   *)
(* the date from module Clock and the CPU's name from cpuid.c), timer and  *)
(* regs (shell.c), and the conversion of the numbers they print (uitoa).   *)
(*                                                                         *)
(* They run inside keyboard_callback with interrupts off, so that only the *)
(* clock moves meanwhile; tick stands still and is an input.  Fixed text   *)
(* is left out.                                                            *)
(***************************************************************************)
EXTENDS Clock, SequencesExt

CONSTANTS
  ticks,            \* values of tick when timer is run
  register_values,  \* contents of the eight registers when regs is run
  cpus              \* what the instruction cpuid may say: brand and eax

INTEL == "Genu"     \* ebx of leaf 0, as text
AMD   == "Auth"
UNRECOGNIZED_CPU == "unrecognized"

ASSUME FetchAssumption ==
  /\ ticks \subseteq Nat
  /\ register_values \subseteq [1 .. 8 -> Nat]
  /\ \A r \in register_values, k \in 1 .. 8 : r[k] \div 65536 < 65536   \* 32 bits
  /\ \A c \in cpus : c.eax \in Nat

PRINTF_BUF == 20    \* bytes of buf in printf
TIMER_BUF == 8      \* bytes of buf in timer_dump

VARIABLES
  cpu,      \* the machine's CPU
  pc,       \* the command in progress
  date,     \* what get_date has printed: day, month, year
  numbers,  \* the numbers printed by the last command
  words,    \* the strings printed by get_cpuid
  start     \* history: now when the command began

command == <<pc, date, numbers, words, start>>

vars == <<clock_vars, cpu, command>>

-----------------------------------------------------------------------------
(***************************************************************************)
(* uitoa: digits from the lowest to the highest behind an optional prefix, *)
(* then turned round.  Characters are their codes.                         *)
(***************************************************************************)
digit_char(a) == IF a < 10 THEN a + 48 ELSE a + 97 - 10

digits(val, radix) ==
  LET from[x \in 0 .. val] ==
        << digit_char(x % radix) >> \o
        (IF x \div radix = 0 THEN << >> ELSE from[x \div radix])
  IN from[val]

prefix_always(radix) == << 48, 120 >>

prefix(radix) == IF radix = 16 THEN << 48, 120 >> ELSE << >>

uitoa_unreversed(val, radix) == prefix(radix) \o digits(val, radix)

uitoa(val, radix) == prefix(radix) \o Reverse(digits(val, radix))

\* A number formatted into a buffer of so many bytes
number(val, radix, room) ==
  [value |-> val, radix |-> radix, text |-> uitoa(val, radix), room |-> room]

-----------------------------------------------------------------------------
(***************************************************************************)
(* cpuid.c.  A pointer that nothing sets is UNSET.  The name of an AMD's   *)
(* model is built in a local array and dropped with it; strcat takes the   *)
(* model's number for an address there, which adds no outcome to those of  *)
(* printing a pointer that nothing set.                                    *)
(***************************************************************************)
UNSET == "unset"

intel_cpu(c) ==
  [brand |-> INTEL, family |-> (c.eax \div 256) % 16, type |-> (c.eax \div 4096) % 16]

amd_cpu(c) == [brand |-> AMD, family |-> (c.eax \div 256) % 16]

generic_cpu == [brand |-> UNRECOGNIZED_CPU]

detect_cpu_swapped(c) ==
  [brand |-> c.brand, family |-> (c.eax \div 4096) % 16, type |-> (c.eax \div 256) % 16]

detect_cpu(c) ==
  IF c.brand = INTEL THEN intel_cpu(c)
  ELSE IF c.brand = AMD THEN amd_cpu(c)
  ELSE generic_cpu

types == << "Original OEM", "Overdrive", "Dual-capable", "Reserved" >>

families ==
  [f \in {3, 4, 5, 6, 15} |->
     IF f = 3 THEN "i386"
     ELSE IF f = 4 THEN "i486"
     ELSE IF f = 5 THEN "Pentium II Model 5/Xeon/Celeron"
     ELSE IF f = 6 THEN "Pentium Pro"
     ELSE "Pentium 4"]

get_cpuid(i) ==
  IF i.brand = AMD THEN [type |-> UNSET, family |-> UNSET]
  ELSE IF i.brand = INTEL
  THEN [type |-> IF i.type < 4 THEN types[i.type + 1] ELSE UNSET,
        family |-> IF i.family \in DOMAIN families THEN families[i.family] ELSE UNSET]
  ELSE [type |-> UNSET, family |-> "Generic (x86) CPU"]

get_cpu_type == get_cpuid(detect_cpu(cpu)).type

get_cpu_family == get_cpuid(detect_cpu(cpu)).family

-----------------------------------------------------------------------------
(***************************************************************************)
(* The commands                                                            *)
(***************************************************************************)
timer_dump ==
  /\ pc = "prompt"
  /\ \E tick \in ticks : numbers' = << number(tick, 10, TIMER_BUF) >>
  /\ date' = << >> /\ words' = << >>
  /\ UNCHANGED <<clock_vars, cpu, pc, start>>

register_dump ==
  /\ pc = "prompt"
  /\ \E r \in register_values :
       numbers' = [k \in 1 .. 8 |-> number(r[k], 16, PRINTF_BUF)]
  /\ date' = << >> /\ words' = << >>
  /\ UNCHANGED <<clock_vars, cpu, pc, start>>

date_fields == << TIME_R_DAY, TIME_R_MONTH, TIME_R_YEAR >>

\* system_fetcher up to the first call of get_time in get_date
system_fetcher ==
  /\ pc = "prompt"
  /\ pc' = "date" /\ start' = now
  /\ date' = << >> /\ numbers' = << >> /\ words' = << >>
  /\ get_time(TIME_R_DAY)
  /\ UNCHANGED cpu

\* get_time has returned: printf("%d"), and the next field if there is one
get_date ==
  /\ pc = "date" /\ stage = "idle"
  /\ date' = Append(date, got[1])
  /\ numbers' = Append(numbers, number(got[1], 10, PRINTF_BUF))
  /\ \/ /\ Len(date') < Len(date_fields)
        /\ get_time(date_fields[Len(date') + 1])
        /\ pc' = pc
     \/ /\ Len(date') = Len(date_fields)
        /\ pc' = "type"
        /\ UNCHANGED clock_vars
  /\ UNCHANGED <<cpu, words, start>>

(***************************************************************************)
(* printf("%s") of a pointer that nothing set prints whatever it points to *)
(* or faults, which panics.                                                *)
(***************************************************************************)
print_string(s, next) ==
  /\ \/ pc' = next /\ words' = Append(words, s)
     \/ s = UNSET /\ pc' = "fault" /\ UNCHANGED words
  /\ UNCHANGED <<clock_vars, cpu, date, numbers, start>>

print_type == pc = "type" /\ print_string(get_cpu_type, "family")

print_family == pc = "family" /\ print_string(get_cpu_family, "prompt")

\* Somebody asks for the whole time; nobody in the kernel does
read_time ==
  /\ pc = "prompt"
  /\ pc' = "time"
  /\ cmos_reader
  /\ UNCHANGED <<cpu, date, numbers, words, start>>

time_read ==
  /\ pc = "time" /\ stage = "idle"
  /\ pc' = "prompt"
  /\ UNCHANGED <<clock_vars, cpu, date, numbers, words, start>>

Start == timer_dump \/ register_dump \/ system_fetcher \/ read_time

Command == get_date \/ print_type \/ print_family \/ time_read

ReaderStep == Reader /\ UNCHANGED <<cpu, command>>

TickStep == Tick /\ UNCHANGED <<cpu, command>>

Init ==
  /\ ClockInit
  /\ cpu \in cpus
  /\ pc = "prompt" /\ start = 1
  /\ date = << >> /\ numbers = << >> /\ words = << >>

Next == Start \/ Command \/ ReaderStep \/ TickStep

(***************************************************************************)
(* The handler runs on.  The flag is up for two milliseconds in a second   *)
(* and is looked at every few microseconds: a wait that could end again    *)
(* and again ends.                                                         *)
(***************************************************************************)
Fairness ==
  /\ WF_vars(Command) /\ WF_vars(ReaderStep)
  /\ SF_vars(wait_ends /\ UNCHANGED <<cpu, command>>)
  /\ WF_vars(Update /\ UNCHANGED <<cpu, command>>)

Spec == Init /\ [][Next]_vars /\ Fairness

-----------------------------------------------------------------------------
\* A command is in one place, and get_date prints no more than three fields.
TypeOK ==
  /\ ClockTypeOK
  /\ cpu \in cpus
  /\ pc \in {"prompt", "date", "type", "family", "time", "fault"}
  /\ date \in Seq(Nat) /\ Len(date) <= Len(date_fields)
  /\ start \in 1 .. now

\* Every field of the date that fetch prints was right when it was read, and
\* they are read in the order of time: fetch.c waits for each field anew
\* (time.c:35), and this is what the waits achieve.
DateFieldsInOrder ==
  \E k \in [1 .. Len(date) -> start .. now] :
    \A i \in 1 .. Len(date) :
      /\ date[i] = BCD_CONVERTER(calendar[k[i]][date_fields[i]])
      /\ \A j \in 1 .. i : k[j] <= k[i]

char_value(c) == IF c < 58 THEN c - 48 ELSE c - 97 + 10

\* What a text of digits means, from its highest digit on
value_of(text, radix) ==
  LET value[n \in 0 .. Len(text)] ==
        IF n = 0 THEN 0 ELSE value[n - 1] * radix + char_value(text[n])
  IN value[Len(text)]

\* The characters that uitoa leaves in the buffer are the number's numeral:
\* they mean the number, and only 0 starts with the digit 0.
NumbersReadBack ==
  \A k \in 1 .. Len(numbers) :
    LET n == numbers[k]
        numeral == SubSeq(n.text, Len(prefix(n.radix)) + 1, Len(n.text))
    IN /\ value_of(numeral, n.radix) = n.value
       /\ numeral[1] = 48 => numeral = << 48 >>

\* uitoa is not told how large the buffer is: text and final NUL fit the
\* buffer of printf, and that of timer_dump for the first ten million ticks.
NumbersFit ==
  \A k \in 1 .. Len(numbers) :
    LET n == numbers[k]
    IN (n.room = TIMER_BUF => n.value < 10000000) => Len(n.text) + 1 <= n.room

\* An Intel CPU whose type and family cpuid.c has names for
named(c) ==
  /\ c.brand = INTEL
  /\ (c.eax \div 4096) % 16 < 4 /\ (c.eax \div 256) % 16 \in DOMAIN families

\* get_cpu_type and get_cpu_family return pointers that were set, and fetch
\* prints them without a fault, on the CPUs that cpuid.c has names for.
NamedCpuPrinted ==
  named(cpu) => pc # "fault" /\ \A k \in 1 .. Len(words) : words[k] # UNSET

\* fetch comes back to the prompt, although it waits for the clock with
\* interrupts off, or has faulted.
CommandEnds == (pc # "prompt") ~> (pc \in {"prompt", "fault"})

(***************************************************************************)
(* Stated by the comment of get_date; the code breaks it                   *)
(***************************************************************************)

\* "Date format is D/M/YY" (fetch.c:46): the date that fetch prints was a
\* date of the clock at some moment of the command.
DateIsOneDay ==
  Len(date) = Len(date_fields) =>
    \E k \in start .. now :
      \A i \in 1 .. Len(date) : date[i] = BCD_CONVERTER(calendar[k][date_fields[i]])
=============================================================================
