----------------------------- MODULE Interrupts -----------------------------
(***************************************************************************)
(* Interrupts, from the wire to the handler: gdt.c, idt.c, isr.c,          *)
(* interrupts.asm, the handlers of timer.c and keyboard.c, and the part of *)
(* kernel_main that runs while interrupts arrive.                          *)
(*                                                                         *)
(* External, as the emulators for which the kernel is built behave: the    *)
(* pair of 8259 interrupt controllers (edge triggered, slave on line 2),   *)
(* the keyboard controller, whose line rises when its one-byte output      *)
(* buffer becomes full and falls when port 0x60 is read, and the CPU,      *)
(* which delivers an interrupt between any two instructions while IF = 1.  *)
(***************************************************************************)
EXTENDS Segments, FiniteSets

CONSTANTS
  Lines,       \* interrupt lines on which a device is connected
  masks,       \* masks that the boot loader may leave in the controllers
  KeyLimit,    \* bound: key events waiting in the keyboard
  TickWrap     \* tick counts modulo this

ASSUME InterruptsAssumption ==
  /\ Lines \subseteq 0 .. 15 /\ 2 \notin Lines /\ 1 \in Lines
  /\ masks \subseteq 0 .. 255
  /\ KeyLimit \in Nat /\ TickWrap \in Nat \ {0}

VARIABLES
  pc,          \* where kernel_main is
  IF_flag,     \* the CPU accepts interrupts
  gates,       \* vectors with a present entry in the IDT
  gdt,         \* the descriptor table: gdt_entries or the boot loader's
  handlers,    \* vectors for which interrupt_handler[] is set
  pic1, pic2,  \* registers of the controllers
  irr,         \* lines with a latched request
  in_service,  \* lines in service
  kb,          \* [queue: events to come, full: output buffer]
  frames,      \* interrupt frames on the kernel stack, the innermost last
  tick

vars == <<pc, IF_flag, gates, gdt, handlers, pic1, pic2, irr, in_service, kb,
          frames, tick>>

IRQ0 == 32
IRQ1 == 33

-----------------------------------------------------------------------------
(***************************************************************************)
(* The 8259.  After ICW1, three data bytes are ICW2 to ICW4 and the ones   *)
(* that follow are the mask.                                               *)
(***************************************************************************)
bit(b, k) == (b \div (2 ^ k)) % 2

ICW1(p) == [p EXCEPT !.step = 2, !.imr = 0]

outb_data(p, b) ==
  CASE p.step = 2 -> [p EXCEPT !.step = 3, !.offset = b]
    [] p.step = 3 -> [p EXCEPT !.step = 4, !.icw3 = b]
    [] p.step = 4 -> [p EXCEPT !.step = 0, !.icw4 = b]
    [] OTHER -> [p EXCEPT !.imr = b]

auto_eoi(p) == bit(p.icw4, 1) = 1

masked(q) ==
  IF q < 8 THEN bit(pic1.imr, q) = 1
  ELSE bit(pic1.imr, 2) = 1 \/ bit(pic2.imr, q - 8) = 1

\* 0, 1, the slave's lines, 3 to 7
priority(q) == IF q < 2 THEN q ELSE IF q >= 8 THEN q - 6 ELSE q + 7

vector(q) == IF q < 8 THEN pic1.offset + q ELSE pic2.offset + q - 8

\* A non-specific EOI ends the service of the highest line
eoi(S) ==
  { q \in S : \E r \in S : priority(r) < priority(q) }

-----------------------------------------------------------------------------
(***************************************************************************)
(* kernel_main.  Nothing else runs between two of its steps until sti.     *)
(***************************************************************************)
main_at(from, to) == pc = from /\ pc' = to /\ frames = << >>

devices == <<irr, in_service, kb>>

\* gdt_flush loads the table and every segment register from it
gdt_setup ==
  /\ main_at("gdt", "start")
  /\ gdt' = gdt_entries
  /\ UNCHANGED <<IF_flag, gates, handlers, pic1, pic2, devices, frames, tick>>

\* The first half of init_idt; nothing is delivered before idt_flush
SetGates ==
  /\ main_at("start", "pic")
  /\ gates' = 0 .. 31
  /\ UNCHANGED <<IF_flag, gdt, handlers, pic1, pic2, devices, frames, tick>>

pic_remap_skipped ==
  /\ main_at("pic", "irq_gates")
  /\ UNCHANGED <<IF_flag, gates, gdt, handlers, pic1, pic2, devices, frames, tick>>

(***************************************************************************)
(* pic_remap sends the slave's cascade identity to the master: the master  *)
(* takes it for ICW4 and the slave takes the next byte for its identity    *)
(* and its saved mask for ICW4.  ICW1 forgets requests that were latched.  *)
(***************************************************************************)
pic_remap ==
  /\ main_at("pic", "irq_gates")
  /\ LET m2 == outb_data(ICW1(pic1), 32)
         m3 == outb_data(m2, 4)
         m4 == outb_data(m3, 2)
         m5 == outb_data(m4, 1)
         s2 == outb_data(ICW1(pic2), 40)
         s3 == outb_data(s2, 1)
     IN /\ pic1' = outb_data(m5, pic1.imr)
        /\ pic2' = outb_data(s3, pic2.imr)
  /\ irr' = {}
  /\ UNCHANGED <<IF_flag, gates, gdt, handlers, in_service, kb, frames, tick>>

\* The second half of init_idt: idt_flush and sti
SetIrqGates ==
  /\ main_at("irq_gates", "timer")
  /\ gates' = gates \cup 32 .. 47
  /\ IF_flag' = 1
  /\ UNCHANGED <<gdt, handlers, pic1, pic2, devices, frames, tick>>

register_interrupt_handler(n) == handlers' = handlers \cup {n}

init_timer ==
  /\ main_at("timer", "keyboard")
  /\ register_interrupt_handler(IRQ0)
  /\ UNCHANGED <<IF_flag, gates, gdt, pic1, pic2, devices, frames, tick>>

init_keyboard ==
  /\ main_at("keyboard", "paging")
  /\ register_interrupt_handler(IRQ1)
  /\ UNCHANGED <<IF_flag, gates, gdt, pic1, pic2, devices, frames, tick>>

init_paging ==
  /\ main_at("paging", "heap_test")
  /\ register_interrupt_handler(14)
  /\ UNCHANGED <<IF_flag, gates, gdt, pic1, pic2, devices, frames, tick>>

\* The heap test passes, the prompt appears and kernel_main returns to the
\* loop of kernel_loader
HeapTestPasses ==
  /\ main_at("heap_test", "idle")
  /\ UNCHANGED <<IF_flag, gates, gdt, handlers, pic1, pic2, devices, frames, tick>>

\* PANIC or ASSERT: cli and an endless loop
panic ==
  /\ pc' = "halted"
  /\ IF_flag' = 0
  /\ UNCHANGED <<gates, gdt, handlers, pic1, pic2, devices, frames, tick>>

HeapTestPanics == pc = "heap_test" /\ frames = << >> /\ panic

\* A page fault while the heap is tested
PageFault ==
  /\ pc = "heap_test" /\ frames = << >>
  /\ frames' = << [vector |-> 14, saved |-> IF_flag, stage |-> "isr", ints |-> << >>] >>
  /\ IF_flag' = 0
  /\ UNCHANGED <<pc, gates, gdt, handlers, pic1, pic2, devices, tick>>

Main ==
  \/ gdt_setup \/ SetGates \/ pic_remap \/ SetIrqGates \/ init_timer \/ init_keyboard
  \/ init_paging \/ HeapTestPasses \/ HeapTestPanics \/ PageFault

-----------------------------------------------------------------------------
(***************************************************************************)
(* The devices                                                             *)
(***************************************************************************)
Request(q) ==
  /\ q \in Lines \ {1} /\ q \notin irr
  /\ irr' = irr \cup {q}
  /\ UNCHANGED <<pc, IF_flag, gates, gdt, handlers, pic1, pic2, in_service, kb,
                 frames, tick>>

KeyEvent ==
  /\ kb.queue < KeyLimit
  /\ kb' = [kb EXCEPT !.queue = @ + 1]
  /\ UNCHANGED <<pc, IF_flag, gates, gdt, handlers, pic1, pic2, irr, in_service,
                 frames, tick>>

\* The controller takes the next event and raises line 1
KeyReady ==
  /\ kb.queue > 0 /\ kb.full = 0
  /\ kb' = [queue |-> kb.queue - 1, full |-> 1]
  /\ irr' = irr \cup {1}
  /\ UNCHANGED <<pc, IF_flag, gates, gdt, handlers, pic1, pic2, in_service,
                 frames, tick>>

(***************************************************************************)
(* The controllers offer line q and the CPU takes it.  The stub's cli      *)
(* changes nothing: the gates are interrupt gates.                         *)
(***************************************************************************)
Deliver(q) ==
  /\ IF_flag = 1 /\ pc # "halted"
  /\ q \in irr /\ ~ masked(q)
  /\ \A r \in irr : ~ masked(r) => priority(q) <= priority(r)
  /\ \A r \in in_service : priority(q) < priority(r)
  /\ irr' = irr \ {q}
  /\ in_service' = IF auto_eoi(IF q < 8 THEN pic1 ELSE pic2)
                   THEN in_service ELSE in_service \cup {q}
  /\ frames' = Append(frames, [vector |-> vector(q), saved |-> IF_flag,
                               stage |-> "irq", ints |-> << >>])
  /\ IF_flag' = 0
  /\ UNCHANGED <<pc, gates, gdt, handlers, pic1, pic2, kb, tick>>

-----------------------------------------------------------------------------
(***************************************************************************)
(* The handlers                                                            *)
(***************************************************************************)
top == frames[Len(frames)]

at(stage) == frames # << >> /\ pc # "halted" /\ top.stage = stage

goto(stage) == frames' = [frames EXCEPT ![Len(frames)].stage = stage]

of_slave(S) == { q \in S : q >= 8 }

ack_slave_above_40(int_num, S) ==
  eoi(S \ of_slave(S)) \cup
  IF int_num > 40 THEN eoi(of_slave(S)) ELSE of_slave(S)

\* An EOI for the slave when it sent the interrupt, one for the master always
ack_irq(int_num, S) ==
  eoi(S \ of_slave(S)) \cup
  IF int_num >= 40 THEN eoi(of_slave(S)) ELSE of_slave(S)

\* irq_handler acknowledges first, then calls the handler
irq_acknowledge ==
  /\ at("irq")
  /\ in_service' = ack_irq(top.vector, in_service)
  /\ goto("handler")
  /\ UNCHANGED <<pc, IF_flag, gates, gdt, handlers, pic1, pic2, irr, kb, tick>>

irq_unhandled ==
  /\ at("handler") /\ top.vector \notin handlers
  /\ goto("return")
  /\ UNCHANGED <<pc, IF_flag, gates, gdt, handlers, pic1, pic2, devices, tick>>

tick_unbounded == tick + 1

next_tick == (tick + 1) % TickWrap

timer_callback ==
  /\ at("handler") /\ top.vector = IRQ0 /\ IRQ0 \in handlers
  /\ tick' = next_tick
  /\ goto("return")
  /\ UNCHANGED <<pc, IF_flag, gates, gdt, handlers, pic1, pic2, devices>>

read_port_forgotten == kb

\* inb(0x60) empties the output buffer
read_port == [kb EXCEPT !.full = 0]

\* Any command but int and reboot comes back to keyboard_callback
keyboard_callback ==
  /\ at("handler") /\ top.vector = IRQ1 /\ IRQ1 \in handlers
  /\ kb' = read_port
  /\ \/ goto("return")
     \/ frames' = [frames EXCEPT ![Len(frames)].stage = "test_interrupts",
                                 ![Len(frames)].ints = <<0, 4, 1>>]
     \/ goto("reboot")
  /\ UNCHANGED <<pc, IF_flag, gates, gdt, handlers, pic1, pic2, irr, in_service, tick>>

\* The next int instruction of test_interrupts
test_interrupts ==
  /\ at("test_interrupts")
  /\ IF top.ints = << >>
     THEN goto("return")
     ELSE frames' = Append([frames EXCEPT ![Len(frames)].ints = Tail(@)],
                           [vector |-> Head(top.ints), saved |-> IF_flag,
                            stage |-> "isr", ints |-> << >>])
  /\ IF_flag' = 0
  /\ UNCHANGED <<pc, gates, gdt, handlers, pic1, pic2, devices, tick>>

\* reboot: cli, drain the keyboard, reset the CPU
reboot ==
  /\ at("reboot")
  /\ pc' = "halted"
  /\ IF_flag' = 0
  /\ kb' = read_port
  /\ UNCHANGED <<gates, gdt, handlers, pic1, pic2, irr, in_service, frames, tick>>

\* isr_handler: page_fault panics; without a handler a message is printed
isr_handler ==
  /\ at("isr")
  /\ IF top.vector \in handlers
     THEN panic
     ELSE /\ goto("return")
          /\ UNCHANGED <<pc, IF_flag, gates, gdt, handlers, pic1, pic2, devices, tick>>

return_after_sti ==
  /\ at("return")
  /\ frames' = SubSeq(frames, 1, Len(frames) - 1)
  /\ IF_flag' = 1
  /\ UNCHANGED <<pc, gates, gdt, handlers, pic1, pic2, devices, tick>>

\* sti; iret: nothing is delivered between the two, and iret restores IF
iret ==
  /\ at("return")
  /\ frames' = SubSeq(frames, 1, Len(frames) - 1)
  /\ IF_flag' = top.saved
  /\ UNCHANGED <<pc, gates, gdt, handlers, pic1, pic2, devices, tick>>

Handler ==
  \/ irq_acknowledge \/ irq_unhandled \/ timer_callback \/ keyboard_callback
  \/ test_interrupts \/ reboot \/ isr_handler \/ iret

-----------------------------------------------------------------------------
\* The boot loader starts the kernel with interrupts off
Init ==
  /\ pc = "gdt" /\ IF_flag = 0
  /\ gates = {} /\ gdt = << >> /\ handlers = {}
  /\ \E a1, a2 \in masks :
       /\ pic1 = [step |-> 0, offset |-> 8, icw3 |-> 4, icw4 |-> 1, imr |-> a1]
       /\ pic2 = [step |-> 0, offset |-> 112, icw3 |-> 2, icw4 |-> 1, imr |-> a2]
  /\ irr = {} /\ in_service = {}
  /\ kb = [queue |-> 0, full |-> 0]
  /\ frames = << >> /\ tick = 0

Devices == KeyReady \/ \E q \in Lines : Request(q) \/ Deliver(q)

Next == Main \/ Handler \/ Devices \/ KeyEvent

(***************************************************************************)
(* The timer's period is far longer than its handler: while interrupts are *)
(* enabled again and again, line 0 does not keep every other line out.     *)
(***************************************************************************)
SlowTimer == []<>(IF_flag = 1) => []<>(IF_flag = 1 /\ 0 \notin irr)

\* The CPU executes, between interrupts too, the keyboard controller raises
\* its line, and the CPU takes a request that stays pending
Fairness ==
  /\ SF_vars(Main) /\ WF_vars(Handler) /\ WF_vars(KeyReady)
  /\ SF_vars(Deliver(1)) /\ SlowTimer

Spec == Init /\ [][Next]_vars /\ Fairness

\* No key is pressed or released before init_keyboard
NextQuiet ==
  Main \/ Handler \/ Devices \/ (IRQ1 \in handlers /\ KeyEvent)

SpecQuiet == Init /\ [][NextQuiet]_vars /\ Fairness

\* Where init_idt has not come to its sti
BeforeSti == {"gdt", "start", "pic", "irq_gates"}

\* No key is pressed or released before the kernel enables interrupts
NextFromSti ==
  Main \/ Handler \/ Devices \/ (pc \notin BeforeSti /\ KeyEvent)

SpecFromSti == Init /\ [][NextFromSti]_vars /\ Fairness

-----------------------------------------------------------------------------
\* Registers and counters keep their ranges; tick wraps instead of growing.
TypeOK ==
  /\ IF_flag \in {0, 1}
  /\ gates \subseteq 0 .. 255 /\ handlers \subseteq {14, IRQ0, IRQ1}
  /\ irr \subseteq Lines /\ in_service \subseteq Lines
  /\ kb \in [queue : 0 .. KeyLimit, full : {0, 1}]
  /\ tick \in 0 .. (TickWrap - 1)
  /\ \A k \in 1 .. Len(frames) : frames[k].vector \in 0 .. 255

\* irq_handler acknowledges before it calls the handler and every stub ends
\* with sti, yet no interrupt handler is ever interrupted by another one: tty.c
\* and keyboard.c, which have no locks, rely on it.
HandlersExclusive ==
  /\ frames # << >> => IF_flag = 0
  /\ \A k \in 2 .. Len(frames) : frames[k].stage \notin {"irq", "handler"}

\* When no handler runs, no line is left in service, where it would block
\* itself and every lower one (ack_irq, isr.c).
NothingStuckInService == frames = << >> => in_service = {}

\* A device's interrupt never arrives at the vector of an exception or at a
\* vector without a gate: pic_remap and both halves of init_idt come before
\* sti.
IrqVectorsHaveGates ==
  \A k \in 1 .. Len(frames) :
    frames[k].stage \in {"irq", "handler"} =>
      frames[k].vector \in gates \cap 32 .. 47

\* Every interrupt and exception that is taken goes through an interrupt gate
\* of ring 0 to its own stub, in a flat code segment, and the stub then loads
\* a flat data segment: what gdt.c and idt.c packed into bytes is what the CPU
\* finds in them, and it was loaded in time.
TrapsLandInStubs ==
  \A k \in 1 .. Len(frames) :
    LET g == gate(idt_entry(frames[k].vector))
        code == segment(gdt, g.selector)
        data == segment(gdt, DATA)
    IN /\ frames[k].vector \in gates /\ interrupt_gate(g)
       /\ flat(code) /\ readable_code(code)
       /\ code.base + g.offset = stub[frames[k].vector]
       /\ flat(data) /\ writable_data(data)

\* Every key event is read, unless the kernel halts or the boot loader left
\* line 1 masked: "the keyboard will be listen on IRQ1(33), so we have to
\* register an ISR for that" (keyboard.c:12).
KeysAreRead ==
  (kb.full = 1) ~> (kb.full = 0 \/ pc = "halted" \/ bit(pic1.imr, 1) = 1)
=============================================================================
