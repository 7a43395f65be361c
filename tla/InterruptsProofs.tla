-------------------------- MODULE InterruptsProofs --------------------------
(***************************************************************************)
(* No handler interrupts another, and every interrupt of a device finds    *)
(* its gate, for every set of lines and every state in which the boot      *)
(* loader leaves the controllers.                                          *)
(***************************************************************************)
EXTENDS Interrupts, SequenceTheorems, TLAPS

Pic == [step : Nat, offset : Nat, icw3 : Nat, icw4 : Nat, imr : Nat]

Stages == {"irq", "handler", "test_interrupts", "reboot", "isr", "return"}

Frame == [vector : 0 .. 47, saved : {0, 1}, stage : Stages, ints : Seq(0 .. 31)]

Types ==
  /\ IF_flag \in {0, 1}
  /\ pic1 \in Pic /\ pic2 \in Pic
  /\ frames \in Seq(Frame)

\* A frame that is not the outermost one was pushed by an int instruction in
\* a handler, where IF is 0, and so iret leaves IF at 0.
Nesting ==
  /\ frames # << >> => IF_flag = 0
  /\ \A k \in 2 .. Len(frames) :
       frames[k].saved = 0 /\ frames[k].stage \notin {"irq", "handler"}

\* What sti relies on
Order ==
  /\ pc \in BeforeSti => IF_flag = 0 /\ frames = << >>
  /\ pc # "gdt" => gdt = gdt_entries
  /\ pc \notin {"gdt", "start"} => 0 .. 31 \subseteq gates
  /\ pc \notin {"gdt", "start", "pic"} => pic1.offset = 32 /\ pic2.offset = 40
  /\ pc \notin BeforeSti => 32 .. 47 \subseteq gates

DeviceVectors ==
  \A k \in 1 .. Len(frames) :
    frames[k].stage \in {"irq", "handler"} => frames[k].vector \in 32 .. 47

IInv == Types /\ Nesting /\ Order /\ DeviceVectors

-----------------------------------------------------------------------------
\* The controllers before pic_remap are as the boot loader left them.
LEMMA InitEstablishes == Init => IInv
<1> SUFFICES ASSUME Init PROVE IInv
  OBVIOUS
<1>1. PICK a1 \in masks, a2 \in masks :
        /\ pic1 = [step |-> 0, offset |-> 8, icw3 |-> 4, icw4 |-> 1, imr |-> a1]
        /\ pic2 = [step |-> 0, offset |-> 112, icw3 |-> 2, icw4 |-> 1, imr |-> a2]
  BY DEF Init
<1>2. a1 \in Nat /\ a2 \in Nat
  BY InterruptsAssumption
<1>3. pic1 \in Pic /\ pic2 \in Pic
  BY <1>1, <1>2 DEF Pic
<1>4. frames = << >> /\ IF_flag = 0 /\ pc = "gdt"
  BY DEF Init
<1>5. Len(frames) = 0 /\ frames \in Seq(Frame)
  BY <1>4
<1> QED
  BY <1>3, <1>4, <1>5 DEF IInv, Types, Nesting, Order, DeviceVectors, BeforeSti

\* The first data byte after ICW1 is the vector offset.
LEMMA FirstByte ==
  ASSUME NEW p \in Pic, NEW b \in Nat, p.step = 2
  PROVE  outb_data(p, b) \in Pic /\ outb_data(p, b).offset = b
         /\ outb_data(p, b).step = 3
<1> DEFINE o == outb_data(p, b)
<1>1. o = [p EXCEPT !.step = 3, !.offset = b]
  BY DEF outb_data
<1> HIDE DEF o
<1>2. o \in Pic /\ o.offset = b /\ o.step = 3
  BY <1>1 DEF Pic
<1> QED
  BY <1>2 DEF o

\* The bytes that follow leave the offset alone.
LEMMA LaterByte ==
  ASSUME NEW p \in Pic, NEW b \in Nat, p.step # 2
  PROVE  outb_data(p, b) \in Pic /\ outb_data(p, b).offset = p.offset
         /\ outb_data(p, b).step # 2
<1> DEFINE o == outb_data(p, b)
<1>1. CASE p.step = 3
  <2>1. o = [p EXCEPT !.step = 4, !.icw3 = b]
    BY <1>1 DEF outb_data
  <2> HIDE DEF o
  <2>2. o \in Pic /\ o.offset = p.offset /\ o.step = 4
    BY <2>1 DEF Pic
  <2> QED
    BY <2>2 DEF o
<1>2. CASE p.step = 4
  <2>1. o = [p EXCEPT !.step = 0, !.icw4 = b]
    BY <1>2 DEF outb_data
  <2> HIDE DEF o
  <2>2. o \in Pic /\ o.offset = p.offset /\ o.step = 0
    BY <2>1 DEF Pic
  <2> QED
    BY <2>2 DEF o
<1>3. CASE p.step # 3 /\ p.step # 4
  <2>1. o = [p EXCEPT !.imr = b]
    BY <1>3 DEF outb_data
  <2> HIDE DEF o
  <2>2. o \in Pic /\ o.offset = p.offset /\ o.step = p.step
    BY <2>1 DEF Pic
  <2> QED
    BY <2>2 DEF o
<1> QED
  BY <1>1, <1>2, <1>3

\* ICW1 makes the next data byte the vector offset.
LEMMA StartInit ==
  ASSUME NEW p \in Pic
  PROVE  ICW1(p) \in Pic /\ ICW1(p).step = 2
  BY DEF ICW1, Pic

\* pic_remap moves the devices' vectors to 32..47 although the third byte
\* goes to the wrong controller.
LEMMA RemapOffsets ==
  ASSUME Types, pic_remap
  PROVE  /\ pic1' \in Pic /\ pic1'.offset = 32
         /\ pic2' \in Pic /\ pic2'.offset = 40
<1> DEFINE m2 == outb_data(ICW1(pic1), 32)
           m3 == outb_data(m2, 4)
           m4 == outb_data(m3, 2)
           m5 == outb_data(m4, 1)
           s2 == outb_data(ICW1(pic2), 40)
           s3 == outb_data(s2, 1)
<1>0. pic1 \in Pic /\ pic2 \in Pic /\ pic1.imr \in Nat /\ pic2.imr \in Nat
  BY DEF Types, Pic
<1>1. m2 \in Pic /\ m2.step # 2 /\ m2.offset = 32
  BY <1>0, StartInit, FirstByte
<1>2. m3 \in Pic /\ m3.step # 2 /\ m3.offset = 32
  <2> HIDE DEF m2
  <2> QED BY <1>1, LaterByte
<1>3. m4 \in Pic /\ m4.step # 2 /\ m4.offset = 32
  <2> HIDE DEF m3
  <2> QED BY <1>2, LaterByte
<1>4. m5 \in Pic /\ m5.step # 2 /\ m5.offset = 32
  <2> HIDE DEF m4
  <2> QED BY <1>3, LaterByte
<1>5. s2 \in Pic /\ s2.step # 2 /\ s2.offset = 40
  BY <1>0, StartInit, FirstByte
<1>6. s3 \in Pic /\ s3.step # 2 /\ s3.offset = 40
  <2> HIDE DEF s2
  <2> QED BY <1>5, LaterByte
<1>7. pic1' = outb_data(m5, pic1.imr) /\ pic2' = outb_data(s3, pic2.imr)
  BY DEF pic_remap
<1> HIDE DEF m5, s3
<1>8. pic1' \in Pic /\ pic1'.offset = 32
  BY <1>0, <1>4, <1>7, LaterByte
<1>9. pic2' \in Pic /\ pic2'.offset = 40
  BY <1>0, <1>6, <1>7, LaterByte
<1> QED
  BY <1>8, <1>9

-----------------------------------------------------------------------------
\* Steps of kernel_main, up to a page fault, keep the invariant.
LEMMA MainStep == IInv /\ Main => IInv'
<1> SUFFICES ASSUME IInv, Main PROVE IInv'
  OBVIOUS
<1> USE DEF IInv, Types, Nesting, Order, DeviceVectors, BeforeSti
<1>0. CASE gdt_setup
  BY <1>0 DEF gdt_setup, main_at, devices
<1>1. CASE SetGates
  BY <1>1 DEF SetGates, main_at, devices
<1>2. CASE pic_remap
  <2>1. pic1' \in Pic /\ pic1'.offset = 32 /\ pic2' \in Pic /\ pic2'.offset = 40
    BY <1>2, RemapOffsets
  <2>2. frames' = frames /\ IF_flag' = IF_flag /\ pc = "pic" /\ pc' = "irq_gates"
        /\ frames = << >> /\ UNCHANGED <<gates, gdt>>
    BY <1>2 DEF pic_remap, main_at
  <2> QED
    BY <2>1, <2>2
<1>3. CASE SetIrqGates
  BY <1>3 DEF SetIrqGates, main_at, devices
<1>4. CASE init_timer \/ init_keyboard \/ init_paging \/ HeapTestPasses
  BY <1>4 DEF init_timer, init_keyboard, init_paging, HeapTestPasses, main_at, devices
<1>5. CASE HeapTestPanics
  BY <1>5 DEF HeapTestPanics, panic, devices
<1>6. CASE PageFault
  <2> DEFINE f == [vector |-> 14, saved |-> IF_flag, stage |-> "isr", ints |-> << >>]
  <2>1. frames' = << f >> /\ IF_flag' = 0 /\ pc' = pc /\ pc = "heap_test"
        /\ pic1' = pic1 /\ pic2' = pic2 /\ gates' = gates /\ gdt' = gdt
    BY <1>6 DEF PageFault
  <2>2. f \in Frame /\ f.stage = "isr"
    BY DEF Frame, Stages
  <2>3. Len(frames') = 1 /\ frames'[1] = f /\ frames' \in Seq(Frame)
    <3> HIDE DEF f
    <3> QED BY <2>1, <2>2
  <2> HIDE DEF f
  <2>4. Types'
    BY <2>1, <2>3
  <2>5. Order'
    BY <2>1
  <2>6. Nesting' /\ DeviceVectors'
    <3> HIDE DEF IInv
    <3>1. \A k \in 2 .. 1 : FALSE
      OBVIOUS
    <3> QED
      BY <3>1, <2>1, <2>2, <2>3
  <2> QED
    BY <2>4, <2>5, <2>6
<1> QED
  BY <1>0, <1>1, <1>2, <1>3, <1>4, <1>5, <1>6 DEF Main

\* Devices and key presses do not touch the stack; an interrupt is delivered
\* only on an empty one and at a vector of its own.
LEMMA DeviceStep == IInv /\ (Devices \/ KeyEvent) => IInv'
<1> SUFFICES ASSUME IInv, Devices \/ KeyEvent PROVE IInv'
  OBVIOUS
<1> USE DEF IInv, Types, Nesting, Order, DeviceVectors, BeforeSti
<1>1. CASE KeyEvent \/ KeyReady
  BY <1>1 DEF KeyEvent, KeyReady
<1>2. ASSUME NEW q \in Lines, Request(q) PROVE IInv'
  BY <1>2 DEF Request
<1>3. ASSUME NEW q \in Lines, Deliver(q) PROVE IInv'
  <2> DEFINE f == [vector |-> vector(q), saved |-> IF_flag, stage |-> "irq",
                   ints |-> << >>]
  <2>1. frames = << >> /\ IF_flag = 1 /\ pc \notin BeforeSti
    BY <1>3 DEF Deliver
  <2>2. frames' = Append(frames, f) /\ IF_flag' = 0 /\ pc' = pc
        /\ pic1' = pic1 /\ pic2' = pic2 /\ gates' = gates /\ gdt' = gdt
    BY <1>3 DEF Deliver
  <2>3. q \in 0 .. 15 /\ q \in Int
    BY InterruptsAssumption
  <2>4. vector(q) \in 32 .. 47
    <3>1. pic1.offset = 32 /\ pic2.offset = 40
      BY <2>1
    <3> HIDE DEF IInv
    <3>2. CASE q < 8
      BY <3>1, <3>2, <2>3 DEF vector
    <3>3. CASE q >= 8
      BY <3>1, <3>3, <2>3 DEF vector
    <3> QED
      BY <3>2, <3>3, <2>3
  <2>5. f \in Frame /\ f.vector \in 32 .. 47
    BY <2>4 DEF Frame, Stages
  <2>6. Len(frames') = 1 /\ frames'[1] = f /\ frames' \in Seq(Frame)
    <3> HIDE DEF f
    <3> QED BY <2>1, <2>2, <2>5
  <2> QED
    BY <2>1, <2>2, <2>5, <2>6
<1> QED
  BY <1>1, <1>2, <1>3 DEF Devices

-----------------------------------------------------------------------------
\* A step that only moves the innermost handler to another stage keeps the
\* stack well-typed; the outer frames do not change.
LEMMA GotoFrames ==
  ASSUME Types, frames # << >>, NEW s \in Stages, goto(s)
  PROVE  /\ frames' \in Seq(Frame) /\ Len(frames') = Len(frames)
         /\ \A k \in 1 .. Len(frames) :
              /\ frames'[k].saved = frames[k].saved
              /\ frames'[k].vector = frames[k].vector
              /\ k # Len(frames) => frames'[k] = frames[k]
         /\ frames'[Len(frames)].stage = s
<1>1. frames \in Seq(Frame) /\ Len(frames) \in 1 .. Len(frames)
  BY DEF Types
<1> DEFINE n == Len(frames)
           g == [frames[n] EXCEPT !.stage = s]
<1>2. frames[n] \in Frame
  BY <1>1
<1>3. g \in Frame /\ g.stage = s /\ g.saved = frames[n].saved /\ g.vector = frames[n].vector
  BY <1>2 DEF Frame
<1>4. frames' = [frames EXCEPT ![n] = g]
  BY DEF goto
<1> HIDE DEF g
<1>5. frames' \in Seq(Frame) /\ Len(frames') = n
  BY <1>1, <1>3, <1>4
<1>6. frames'[n] = g /\ \A k \in 1 .. n : k # n => frames'[k] = frames[k]
  BY <1>1, <1>4
<1> QED
  BY <1>3, <1>5, <1>6

\* An interrupt request is handled on the outermost frame only, and stages
\* never lead back to it: a step of a handler to another stage keeps IInv.
LEMMA GotoStep ==
  ASSUME IInv, frames # << >>, NEW s \in Stages, goto(s),
         s = "irq" => FALSE,
         s = "handler" => top.stage = "irq",
         UNCHANGED <<pc, IF_flag, gates, gdt, pic1, pic2>>
  PROVE  IInv'
<1> DEFINE n == Len(frames)
<1>1. Types /\ Nesting /\ Order /\ DeviceVectors
  BY DEF IInv
<1>2. /\ frames' \in Seq(Frame) /\ Len(frames') = n
      /\ \A k \in 1 .. n : /\ frames'[k].saved = frames[k].saved
                           /\ frames'[k].vector = frames[k].vector
                           /\ k # n => frames'[k] = frames[k]
      /\ frames'[n].stage = s
  BY <1>1, GotoFrames
<1>3. n \in Nat \ {0}
  BY <1>1 DEF Types
<1>4. Types'
  BY <1>1, <1>2 DEF Types
<1>5. Nesting'
  <2>1. IF_flag' = 0
    BY <1>1 DEF Nesting
  <2>2. ASSUME NEW k \in 2 .. n
        PROVE  frames'[k].saved = 0 /\ frames'[k].stage \notin {"irq", "handler"}
    <3>1. frames[k].saved = 0 /\ frames[k].stage \notin {"irq", "handler"} /\ k \in 1 .. n
      BY <1>1, <1>3 DEF Nesting
    <3>2. frames'[k].saved = 0
      BY <1>2, <3>1
    <3>3. CASE k = n
      BY <3>3, <3>1, <1>2 DEF top
    <3>4. CASE k # n
      BY <3>4, <3>1, <1>2
    <3> QED
      BY <3>2, <3>3, <3>4
  <2> QED
    BY <1>2, <2>1, <2>2 DEF Nesting
<1>6. Order'
  BY <1>1 DEF Order, BeforeSti
<1>7. DeviceVectors'
  <2> SUFFICES ASSUME NEW k \in 1 .. n, frames'[k].stage \in {"irq", "handler"}
               PROVE  frames'[k].vector \in 32 .. 47
    BY <1>2 DEF DeviceVectors
  <2>1. CASE k = n
    <3>1. frames[n].stage = "irq"
      BY <2>1, <1>2 DEF top
    <3> QED
      BY <3>1, <2>1, <1>1, <1>2 DEF DeviceVectors
  <2>2. CASE k # n
    BY <2>2, <1>1, <1>2 DEF DeviceVectors
  <2> QED
    BY <2>1, <2>2
<1> QED
  BY <1>4, <1>5, <1>6, <1>7 DEF IInv

\* Before the innermost handler runs on, IF is 0 and sti was executed.
LEMMA InHandler ==
  ASSUME IInv, frames # << >>
  PROVE  IF_flag = 0 /\ pc \notin BeforeSti /\ Len(frames) \in Nat \ {0}
  BY DEF IInv, Nesting, Order, Types

\* Removing the innermost frame: iret restores IF from it.
LEMMA IretStep ==
  ASSUME IInv, iret
  PROVE  IInv'
<1> DEFINE n == Len(frames)
<1>1. Types /\ Nesting /\ Order /\ DeviceVectors
  BY DEF IInv
<1>2. frames # << >> /\ frames' = SubSeq(frames, 1, n - 1) /\ IF_flag' = frames[n].saved
      /\ UNCHANGED <<pc, gates, gdt, pic1, pic2>>
  BY DEF iret, at, top
<1>3. n \in Nat \ {0} /\ pc \notin BeforeSti
  BY <1>2, InHandler
<1>4. frames \in Seq(Frame) /\ frames[n] \in Frame
  BY <1>1, <1>3 DEF Types
<1>5. /\ frames' \in Seq(Frame) /\ Len(frames') = n - 1
      /\ \A k \in 1 .. (n - 1) : frames'[k] = frames[k]
  <2>1. n - 1 \in Int /\ \A k \in 1 .. (n - 1) : frames[k] \in Frame
    BY <1>3, <1>4
  <2> DEFINE m == n - 1
  <2>2. m \in Nat
    BY <1>3
  <2>3. frames' = SubSeq(frames, 1, m)
    BY <1>2
  <2>4. \A k \in 1 .. m : frames[k] \in Frame
    BY <2>1
  <2> HIDE DEF m
  <2>5. /\ SubSeq(frames, 1, m) \in Seq(Frame)
        /\ Len(SubSeq(frames, 1, m)) = IF 1 <= m THEN m - 1 + 1 ELSE 0
        /\ \A k \in 1 .. m - 1 + 1 : SubSeq(frames, 1, m)[k] = frames[1 + k - 1]
    BY <2>2, <2>4, SubSeqProperties
  <2>6. frames' \in Seq(Frame) /\ Len(frames') = m /\ \A k \in 1 .. m : frames'[k] = frames[k]
    BY <2>2, <2>3, <2>5
  <2> QED
    BY <2>6 DEF m
<1>6. IF_flag' \in {0, 1}
  BY <1>2, <1>4 DEF Frame
<1>7. frames' # << >> => IF_flag' = 0
  <2> SUFFICES ASSUME frames' # << >> PROVE IF_flag' = 0
    OBVIOUS
  <2>1. n - 1 # 0
    BY <1>5
  <2>2. n \in 2 .. n
    <3> HIDE DEF n
    <3> QED BY <2>1, <1>3
  <2> QED
    BY <2>2, <1>1, <1>2 DEF Nesting
<1>8. Nesting'
  BY <1>1, <1>3, <1>5, <1>7 DEF Nesting
<1>9. DeviceVectors'
  <2> SUFFICES ASSUME NEW k \in 1 .. (n - 1), frames'[k].stage \in {"irq", "handler"}
               PROVE  frames'[k].vector \in 32 .. 47
    BY <1>5 DEF DeviceVectors
  <2>1. k \in 1 .. n /\ frames'[k] = frames[k]
    BY <1>3, <1>5
  <2> QED
    BY <2>1, <1>1 DEF DeviceVectors
<1>10. Types'
  BY <1>1, <1>2, <1>5, <1>6 DEF Types
<1>11. Order'
  BY <1>1, <1>2, <1>3 DEF Order, BeforeSti
<1> QED
  BY <1>8, <1>9, <1>10, <1>11 DEF IInv

\* A handler pushes a frame only with an int instruction, so that the frame
\* is not the outermost one and saves IF = 0.
LEMMA IntStep ==
  ASSUME IInv, at("test_interrupts"), test_interrupts
  PROVE  IInv'
<1> DEFINE n == Len(frames)
<1>1. Types /\ Nesting /\ Order /\ DeviceVectors
  BY DEF IInv
<1>2. frames # << >> /\ IF_flag = 0 /\ pc \notin BeforeSti /\ n \in Nat \ {0}
  BY InHandler DEF at
<1>3. frames \in Seq(Frame) /\ frames[n] \in Frame /\ frames[n].stage = "test_interrupts"
  BY <1>1, <1>2 DEF Types, at, top
<1>4. UNCHANGED <<pc, gates, gdt, pic1, pic2>> /\ IF_flag' = 0
  BY DEF test_interrupts
<1>5. CASE top.ints = << >>
  <2>1. goto("return")
    BY <1>5 DEF test_interrupts
  <2>2. "return" \in Stages
    BY DEF Stages
  <2> QED
    BY <1>2, <1>4, <2>1, <2>2, GotoStep
<1>6. CASE top.ints # << >>
  <2> DEFINE e == [frames[n] EXCEPT !.ints = Tail(@)]
             g == [frames EXCEPT ![n] = e]
             f == [vector |-> Head(frames[n].ints), saved |-> IF_flag,
                   stage |-> "isr", ints |-> << >>]
  <2>1. frames' = Append(g, f)
    BY <1>6 DEF test_interrupts, top
  <2>2. frames[n].ints \in Seq(0 .. 31) /\ frames[n].ints # << >>
    BY <1>3, <1>6 DEF Frame, top
  <2>3. Tail(frames[n].ints) \in Seq(0 .. 31) /\ Head(frames[n].ints) \in 0 .. 31
    <3> DEFINE R == 0 .. 31
               t == frames[n].ints
    <3>1. t \in Seq(R) /\ t # << >>
      BY <2>2
    <3> HIDE DEF R, t
    <3>2. Tail(t) \in Seq(R) /\ Head(t) \in R
      BY <3>1
    <3> QED
      BY <3>2 DEF R, t
  <2>4. e \in Frame /\ e.saved = frames[n].saved /\ e.stage = frames[n].stage
        /\ e.vector = frames[n].vector
    BY <1>3, <2>3 DEF Frame
  <2>5. f \in Frame /\ f.saved = 0 /\ f.stage = "isr"
    BY <1>2, <2>3 DEF Frame, Stages
  <2> HIDE DEF e
  <2>6. g \in Seq(Frame) /\ Len(g) = n /\ g[n] = e
        /\ \A k \in 1 .. n : k # n => g[k] = frames[k]
    BY <1>2, <1>3, <2>4
  <2> HIDE DEF f, g
  <2>7. /\ frames' \in Seq(Frame) /\ Len(frames') = n + 1
        /\ frames'[n + 1] = f
        /\ \A k \in 1 .. n : frames'[k] = g[k]
    BY <2>1, <2>5, <2>6
  <2> HIDE DEF n
  <2>8. \A k \in 1 .. n : /\ frames'[k].saved = frames[k].saved
                          /\ frames'[k].stage = frames[k].stage
                          /\ frames'[k].vector = frames[k].vector
    BY <2>4, <2>6, <2>7
  <2>9. Types'
    BY <1>1, <1>4, <2>7 DEF Types
  <2>10. Nesting'
    <3> SUFFICES ASSUME NEW k \in 2 .. (n + 1)
                 PROVE  frames'[k].saved = 0 /\ frames'[k].stage \notin {"irq", "handler"}
      BY <1>4, <2>7 DEF Nesting
    <3>1. CASE k = n + 1
      BY <3>1, <2>5, <2>7
    <3>2. CASE k # n + 1
      <4>1. k \in 2 .. n /\ k \in 1 .. n
        BY <3>2, <1>2
      <4>2. frames[k].saved = 0 /\ frames[k].stage \notin {"irq", "handler"}
        BY <4>1, <1>1 DEF Nesting, n
      <4> QED
        BY <4>1, <4>2, <2>8
    <3> QED
      BY <3>1, <3>2
  <2>11. Order'
    BY <1>1, <1>2, <1>4 DEF Order, BeforeSti
  <2>12. DeviceVectors'
    <3> SUFFICES ASSUME NEW k \in 1 .. (n + 1), frames'[k].stage \in {"irq", "handler"}
                 PROVE  frames'[k].vector \in 32 .. 47
      BY <2>7 DEF DeviceVectors
    <3>1. k # n + 1
      BY <2>5, <2>7
    <3>2. k \in 1 .. n
      BY <3>1, <1>2
    <3> QED
      BY <3>2, <2>8, <1>1 DEF DeviceVectors, n
  <2> QED
    BY <2>9, <2>10, <2>11, <2>12 DEF IInv
<1> QED
  BY <1>5, <1>6

\* A command that runs in the keyboard's handler
LEMMA CommandStep ==
  ASSUME IInv, keyboard_callback
  PROVE  IInv'
<1> DEFINE n == Len(frames)
<1>1. frames # << >> /\ UNCHANGED <<pc, IF_flag, gates, gdt, pic1, pic2>>
  BY DEF keyboard_callback, at
<1>2. CASE goto("return") \/ goto("reboot")
  BY <1>1, <1>2, GotoStep DEF Stages
<1>3. CASE frames' = [frames EXCEPT ![n].stage = "test_interrupts", ![n].ints = <<0, 4, 1>>]
  <2> DEFINE e == [frames[n] EXCEPT !.stage = "test_interrupts", !.ints = <<0, 4, 1>>]
  <2>1. Types /\ Nesting /\ Order /\ DeviceVectors
    BY DEF IInv
  <2>2. n \in Nat \ {0} /\ frames \in Seq(Frame) /\ frames[n] \in Frame
    BY <1>1, <2>1 DEF Types
  <2>3. frames' = [frames EXCEPT ![n] = e]
    BY <1>3, <2>2
  <2>4. e \in Frame /\ e.saved = frames[n].saved /\ e.vector = frames[n].vector
        /\ e.stage = "test_interrupts"
    <3> DEFINE w == <<0, 4, 1>>
    <3>1. w \in Seq(0 .. 31)
      OBVIOUS
    <3> HIDE DEF w
    <3>2. e = [frames[n] EXCEPT !.stage = "test_interrupts", !.ints = w]
      BY DEF w
    <3> QED
      BY <2>2, <3>1, <3>2 DEF Frame, Stages
  <2> HIDE DEF e
  <2>5. frames' \in Seq(Frame) /\ Len(frames') = n /\ frames'[n] = e
        /\ \A k \in 1 .. n : k # n => frames'[k] = frames[k]
    BY <2>2, <2>3, <2>4
  <2>6. Types'
    BY <1>1, <2>1, <2>5 DEF Types
  <2>7. Nesting'
    <3>1. IF_flag' = 0
      BY <1>1, <2>1 DEF Nesting
    <3>2. ASSUME NEW k \in 2 .. n
          PROVE  frames'[k].saved = 0 /\ frames'[k].stage \notin {"irq", "handler"}
      <4>1. frames[k].saved = 0 /\ frames[k].stage \notin {"irq", "handler"} /\ k \in 1 .. n
        BY <2>1, <2>2 DEF Nesting
      <4> QED
        BY <4>1, <2>4, <2>5
    <3> QED
      BY <3>1, <3>2, <2>5 DEF Nesting
  <2>8. Order'
    BY <1>1, <2>1 DEF Order, BeforeSti
  <2>9. DeviceVectors'
    <3> SUFFICES ASSUME NEW k \in 1 .. n, frames'[k].stage \in {"irq", "handler"}
                 PROVE  frames'[k].vector \in 32 .. 47
      BY <2>5 DEF DeviceVectors
    <3>1. k # n
      BY <2>4, <2>5
    <3> QED
      BY <3>1, <2>1, <2>5 DEF DeviceVectors
  <2> QED
    BY <2>6, <2>7, <2>8, <2>9 DEF IInv
<1> QED
  BY <1>2, <1>3 DEF keyboard_callback

\* The kernel halts with IF = 0 and leaves its stack as it is.
LEMMA HaltStep ==
  ASSUME IInv, frames # << >>, pc' = "halted", IF_flag' = 0,
         UNCHANGED <<gates, gdt, pic1, pic2, frames>>
  PROVE  IInv'
<1>1. Types /\ Nesting /\ Order /\ DeviceVectors /\ pc \notin BeforeSti
  BY InHandler DEF IInv
<1>2. Types'
  BY <1>1 DEF Types
<1>3. Nesting'
  BY <1>1 DEF Nesting
<1>4. Order'
  BY <1>1 DEF Order, BeforeSti
<1>5. DeviceVectors'
  BY <1>1 DEF DeviceVectors
<1> QED
  BY <1>2, <1>3, <1>4, <1>5 DEF IInv

\* Every step of a handler keeps the invariant.
LEMMA HandlerStep == IInv /\ Handler => IInv'
<1> SUFFICES ASSUME IInv, Handler PROVE IInv'
  OBVIOUS
<1>0. "handler" \in Stages /\ "return" \in Stages
  BY DEF Stages
<1>1. CASE irq_acknowledge
  <2>1. frames # << >> /\ top.stage = "irq" /\ goto("handler")
        /\ UNCHANGED <<pc, IF_flag, gates, gdt, pic1, pic2>>
    BY <1>1 DEF irq_acknowledge, at
  <2> QED
    BY <1>0, <2>1, GotoStep
<1>2. CASE irq_unhandled \/ timer_callback
  <2>1. frames # << >> /\ goto("return") /\ UNCHANGED <<pc, IF_flag, gates, gdt, pic1, pic2>>
    BY <1>2 DEF irq_unhandled, timer_callback, at
  <2> QED
    BY <1>0, <2>1, GotoStep
<1>3. CASE keyboard_callback
  BY <1>3, CommandStep
<1>4. CASE test_interrupts
  <2>1. at("test_interrupts")
    BY <1>4 DEF test_interrupts
  <2> QED
    BY <1>4, <2>1, IntStep
<1>5. CASE reboot
  BY <1>5, HaltStep DEF reboot, at
<1>6. CASE isr_handler
  <2>1. CASE top.vector \in handlers
    BY <1>6, <2>1, HaltStep DEF isr_handler, panic, at
  <2>2. CASE top.vector \notin handlers
    <3>1. frames # << >> /\ goto("return") /\ UNCHANGED <<pc, IF_flag, gates, gdt, pic1, pic2>>
      BY <1>6, <2>2 DEF isr_handler, at
    <3> QED
      BY <1>0, <3>1, GotoStep
  <2> QED
    BY <2>1, <2>2
<1>7. CASE iret
  BY <1>7, IretStep
<1> QED
  BY <1>1, <1>2, <1>3, <1>4, <1>5, <1>6, <1>7 DEF Handler

-----------------------------------------------------------------------------
\* IInv is an inductive invariant, whenever a key is pressed.
LEMMA Invariance == Spec => []IInv
<1>1. IInv /\ [Next]_vars => IInv'
  <2> SUFFICES ASSUME IInv, [Next]_vars PROVE IInv'
    OBVIOUS
  <2>1. CASE UNCHANGED vars
    BY <2>1 DEF vars, IInv, Types, Nesting, Order, BeforeSti, DeviceVectors
  <2> QED
    BY <2>1, MainStep, HandlerStep, DeviceStep DEF Next
<1> QED
  BY InitEstablishes, <1>1, PTL DEF Spec

\* No handler is interrupted by another one, although irq_handler
\* acknowledges before it calls the handler and every stub ends with sti.
THEOREM HandlersAlwaysExclusive == Spec => []HandlersExclusive
<1>1. IInv => HandlersExclusive
  BY DEF IInv, Nesting, HandlersExclusive
<1> QED
  BY <1>1, Invariance, PTL

\* No device's interrupt arrives at an exception's vector or without a gate,
\* in spite of the byte that pic_remap sends to the wrong controller.
THEOREM VectorsAlwaysHaveGates == Spec => []IrqVectorsHaveGates
<1>1. IInv => IrqVectorsHaveGates
  <2> SUFFICES ASSUME IInv, NEW k \in 1 .. Len(frames),
                      frames[k].stage \in {"irq", "handler"}
               PROVE  frames[k].vector \in gates \cap 32 .. 47
    BY DEF IrqVectorsHaveGates
  <2>1. frames # << >>
    OBVIOUS
  <2>2. 32 .. 47 \subseteq gates
    BY <2>1, InHandler DEF IInv, Order
  <2> QED
    BY <2>2 DEF IInv, DeviceVectors
<1> QED
  BY <1>1, Invariance, PTL
-----------------------------------------------------------------------------
\* The packed table of gdt.c, read as the CPU reads it: flat code and flat
\* data of ring 0.
LEMMA KernelSegments ==
  /\ flat(segment(gdt_entries, CODE)) /\ readable_code(segment(gdt_entries, CODE))
  /\ flat(segment(gdt_entries, DATA)) /\ writable_data(segment(gdt_entries, DATA))
<1> DEFINE c == << 255, 255, 0, 0, 0, 154, 207, 0 >>
           d == << 255, 255, 0, 0, 0, 146, 207, 0 >>
<1>1. /\ construct_entry(gdt_access(GDT_CODE_TYPE_EXEC_READ, GDT_RING0)) = c
      /\ construct_entry(gdt_access(GDT_DATA_TYPE_READ_WRITE, GDT_RING0)) = d
  BY SMT DEF construct_entry, gdt_access, gdt_granularity, low, high,
         GDT_CODE_TYPE_EXEC_READ, GDT_DATA_TYPE_READ_WRITE, GDT_RING0
<1>2. gdt_entries[2] = c /\ gdt_entries[3] = d
  BY <1>1, SMT DEF gdt_entries
<1>3. CODE \div 8 + 1 = 2 /\ DATA \div 8 + 1 = 3
  BY DEF CODE, DATA
<1> QED
  BY <1>2, <1>3, SMT DEF segment, flat, readable_code, writable_data

\* The packed gate of idt.c, read as the CPU reads it.
LEMMA KernelGates ==
  ASSUME NEW n \in 0 .. 47
  PROVE  /\ interrupt_gate(gate(idt_entry(n)))
         /\ gate(idt_entry(n)).selector = CODE
         /\ gate(idt_entry(n)).offset = stub[n]
<1> DEFINE b == stub[n]
           e == idt_entry(n)
<1>1. b \in Nat /\ b \div 65536 < 65536
  BY SegmentsAssumption, SMT
<1>2. e = << low(b), high(b), low(8), high(8), 0, 142, low(b \div 65536),
             high(b \div 65536) >>
  BY SMT DEF idt_entry, idt_gate, idt_flags, IDT_FLAG_RESERVED, CODE
<1> HIDE DEF b, e
<1>3. /\ e[1] = b % 256 /\ e[2] = (b \div 256) % 256 /\ e[3] = 8 /\ e[4] = 0
      /\ e[6] = 142 /\ e[7] = (b \div 65536) % 256
      /\ e[8] = ((b \div 65536) \div 256) % 256
  BY <1>2, SMT DEF low, high
<1>4. e[1] + 256 * e[2] + 65536 * (e[7] + 256 * e[8]) = b
  BY <1>1, <1>3, SMT
<1>5. gate(e) = [offset |-> b, selector |-> 8, type |-> 14, dpl |-> 0, present |-> 1]
  BY <1>3, <1>4, SMT DEF gate
<1> QED
  BY <1>5, SMT DEF interrupt_gate, CODE, b, e

\* An interrupt with a known vector lands in its stub once the table is loaded.
LEMMA OneTrapLands ==
  ASSUME NEW n \in 0 .. 47
  PROVE  LET g == gate(idt_entry(n))
             code == segment(gdt_entries, g.selector)
             data == segment(gdt_entries, DATA)
         IN /\ interrupt_gate(g)
            /\ flat(code) /\ readable_code(code)
            /\ code.base + g.offset = stub[n]
            /\ flat(data) /\ writable_data(data)
<1> DEFINE g == gate(idt_entry(n))
           code == segment(gdt_entries, CODE)
<1>1. interrupt_gate(g) /\ g.selector = CODE /\ g.offset = stub[n]
  BY KernelGates
<1>2. stub[n] \in Nat
  BY SegmentsAssumption, SMT
<1>3. code.base = 0
  BY KernelSegments DEF flat
<1> HIDE DEF g, code
<1>4. code.base + g.offset = stub[n]
  BY <1>1, <1>2, <1>3
<1> QED
  BY <1>1, <1>4, KernelSegments, Zenon DEF g, code

\* Every interrupt and exception that is taken lands in its own stub, with
\* flat segments, wherever the linker put the stubs.
THEOREM TrapsAlwaysLand == Spec => []TrapsLandInStubs
<1>1. IInv => TrapsLandInStubs
  <2> SUFFICES ASSUME IInv, frames # << >> PROVE TrapsLandInStubs
    BY DEF TrapsLandInStubs, IInv, Types
  <2>1. gdt = gdt_entries
    BY InHandler DEF IInv, Order, BeforeSti
  <2>2. 0 .. 31 \subseteq gates /\ 32 .. 47 \subseteq gates
    BY InHandler DEF IInv, Order, BeforeSti
  <2>3. ASSUME NEW k \in 1 .. Len(frames) PROVE frames[k].vector \in 0 .. 47
    <3>1. frames \in Seq(Frame)
      BY DEF IInv, Types
    <3>2. frames[k] \in Frame
      BY <3>1
    <3> QED
      BY <3>2 DEF Frame
  <2>4. ASSUME NEW n \in 0 .. 47 PROVE n \in gates
    <3>1. n \in 0 .. 31 \/ n \in 32 .. 47
      BY <2>4
    <3> QED
      BY <3>1, <2>2, Zenon
  <2> QED
    BY <2>1, <2>3, <2>4, OneTrapLands, Zenon DEF TrapsLandInStubs
<1> QED
  BY <1>1, Invariance, PTL

-----------------------------------------------------------------------------
\* A line is in service only while the one frame on the stack is that of its
\* interrupt and irq_handler has not acknowledged it.
Service ==
  \/ in_service = {}
  \/ /\ Len(frames) = 1 /\ frames[1].stage = "irq"
     /\ in_service = {frames[1].vector - 32}

Counters ==
  /\ gates \subseteq 0 .. 255 /\ handlers \subseteq {14, IRQ0, IRQ1}
  /\ irr \subseteq Lines /\ in_service \subseteq Lines
  /\ kb \in [queue : 0 .. KeyLimit, full : {0, 1}]
  /\ tick \in 0 .. (TickWrap - 1)

\* The EOIs of irq_handler take the only line in service out of it: the
\* slave gets one exactly when the line is the slave's.
LEMMA AckEmpties ==
  ASSUME NEW q \in 0 .. 15
  PROVE  ack_irq(q + 32, {q}) = {} /\ ack_irq(q + 32, {}) = {}
<1>1. of_slave({}) = {} /\ eoi({}) = {}
  BY DEF of_slave, eoi
<1>2. priority(q) \in Int
  BY DEF priority
<1>3. eoi({q}) = {}
  BY <1>2 DEF eoi
<1>4. CASE q < 8
  <2>1. of_slave({q}) = {} /\ ~ (q + 32 >= 40)
    BY <1>4 DEF of_slave
  <2> QED
    BY <1>1, <1>3, <2>1 DEF ack_irq
<1>5. CASE q >= 8
  <2>1. of_slave({q}) = {q} /\ q + 32 >= 40 /\ {q} \ {q} = {}
    BY <1>5 DEF of_slave
  <2> QED
    BY <1>1, <1>3, <2>1 DEF ack_irq
<1> QED
  BY <1>4, <1>5

\* No step of kernel_main or of a handler other than irq_handler finds a line
\* in service, and delivery puts at most the line itself there.
LEMMA ServiceStep ==
  ASSUME IInv, Counters, Service, [Next]_vars
  PROVE  Service'
<1>1. CASE frames = << >> /\ in_service' = in_service
  <2>1. in_service = {}
    BY <1>1 DEF Service
  <2> QED
    BY <1>1, <2>1 DEF Service
<1>2. ASSUME NEW s, at(s), s # "irq", in_service' = in_service PROVE Service'
  <2>1. in_service = {}
    <3> SUFFICES ASSUME Len(frames) = 1, frames[1].stage = "irq" PROVE FALSE
      BY DEF Service
    <3> QED
      BY <1>2 DEF at, top
  <2> QED
    BY <1>2, <2>1 DEF Service
<1>3. CASE irq_acknowledge
  <2>1. at("irq") /\ in_service' = ack_irq(top.vector, in_service)
    BY <1>3 DEF irq_acknowledge
  <2>2. Len(frames) \in Nat \ {0}
    BY <2>1, InHandler DEF at
  <2>3. frames[Len(frames)].stage = "irq"
    BY <2>1 DEF at, top
  <2>4. Len(frames) = 1
    <3> DEFINE n == Len(frames)
    <3>1. n \notin 2 .. n
      BY <2>3 DEF IInv, Nesting
    <3>2. n \in Nat \ {0}
      BY <2>2
    <3> HIDE DEF n
    <3>3. n = 1
      BY <3>1, <3>2
    <3> QED
      BY <3>3 DEF n
  <2>5. top = frames[1] /\ frames[1].vector \in 32 .. 47
    BY <2>3, <2>4 DEF top, IInv, DeviceVectors
  <2> DEFINE q == frames[1].vector - 32
  <2>6. q \in 0 .. 15 /\ top.vector = q + 32 /\ in_service \in {{}, {q}}
    BY <2>5 DEF Service
  <2> HIDE DEF q
  <2>7. in_service' = {}
    BY <2>1, <2>6, AckEmpties
  <2> QED
    BY <2>7 DEF Service
<1>4. ASSUME NEW q \in Lines, Deliver(q) PROVE Service'
  <2>1. frames = << >> /\ pc \notin BeforeSti
    BY <1>4 DEF Deliver, IInv, Nesting, Order
  <2>2. in_service = {}
    BY <2>1 DEF Service
  <2>3. in_service' \in {{}, {q}}
    BY <1>4, <2>2 DEF Deliver
  <2> DEFINE f == [vector |-> vector(q), saved |-> IF_flag, stage |-> "irq",
                   ints |-> << >>]
  <2>4. frames' = Append(<< >>, f)
    BY <1>4, <2>1 DEF Deliver
  <2>5. f.stage = "irq" /\ f.vector = vector(q)
    OBVIOUS
  <2> HIDE DEF f
  <2>6. Len(frames') = 1 /\ frames'[1] = f
    BY <2>4
  <2>7. vector(q) - 32 = q
    <3>1. pic1.offset = 32 /\ pic2.offset = 40
      BY <2>1 DEF IInv, Order, BeforeSti
    <3>2. q \in 0 .. 15
      BY InterruptsAssumption
    <3> QED
      BY <3>1, <3>2 DEF vector
  <2> QED
    BY <2>3, <2>5, <2>6, <2>7 DEF Service
<1>5. CASE pic_remap
  BY <1>1, <1>5 DEF pic_remap, main_at
<1>6. ASSUME UNCHANGED <<frames, in_service>> PROVE Service'
  BY <1>6 DEF Service
<1>7. CASE Main
  <2>1. frames = << >> /\ in_service' = in_service
    BY <1>7 DEF Main, gdt_setup, SetGates, pic_remap, SetIrqGates, init_timer,
         init_keyboard, init_paging, HeapTestPasses, HeapTestPanics, PageFault,
         main_at, panic, devices
  <2> QED
    BY <1>1, <2>1
<1>8. CASE Handler
  <2>1. CASE irq_unhandled \/ timer_callback \/ keyboard_callback
    <3>1. at("handler") /\ in_service' = in_service
      BY <2>1 DEF irq_unhandled, timer_callback, keyboard_callback, devices
    <3> QED
      BY <1>2, <3>1
  <2>2. CASE test_interrupts
    <3>1. at("test_interrupts") /\ in_service' = in_service
      BY <2>2 DEF test_interrupts, devices
    <3> QED
      BY <1>2, <3>1
  <2>3. CASE reboot
    BY <1>2, <2>3 DEF reboot
  <2>4. CASE isr_handler
    <3>1. at("isr") /\ in_service' = in_service
      BY <2>4 DEF isr_handler, panic, devices
    <3> QED
      BY <1>2, <3>1
  <2>5. CASE iret
    <3>1. at("return") /\ in_service' = in_service
      BY <2>5 DEF iret, devices
    <3> QED
      BY <1>2, <3>1
  <2> QED
    BY <1>3, <1>8, <2>1, <2>2, <2>3, <2>4, <2>5 DEF Handler
<1>9. CASE Devices \/ KeyEvent
  <2>1. CASE KeyEvent \/ KeyReady
    BY <1>6, <2>1 DEF KeyEvent, KeyReady
  <2>2. ASSUME NEW q \in Lines, Request(q) PROVE Service'
    BY <1>6, <2>2 DEF Request
  <2> QED
    BY <1>4, <1>9, <2>1, <2>2 DEF Devices
<1>10. CASE UNCHANGED vars
  BY <1>6, <1>10 DEF vars
<1> QED
  BY <1>7, <1>8, <1>9, <1>10 DEF Next

\* EOIs only take lines out of service.
LEMMA AckShrinks ==
  ASSUME NEW n, NEW S
  PROVE  ack_irq(n, S) \subseteq S
BY DEF ack_irq, eoi, of_slave

\* Each register and counter keeps its range; tick wraps.
LEMMA CountersStep ==
  ASSUME Counters, [Next]_vars
  PROVE  Counters'
<1> USE InterruptsAssumption DEF Counters
<1>1. CASE UNCHANGED <<gates, handlers, irr, in_service, kb, tick>>
  BY <1>1
<1>2. CASE Main
  <2>1. CASE gdt_setup \/ HeapTestPasses \/ HeapTestPanics \/ PageFault
    BY <1>1, <2>1 DEF gdt_setup, HeapTestPasses, HeapTestPanics, PageFault, panic, devices
  <2>2. CASE SetGates \/ SetIrqGates
    <3>1. gates' \subseteq 0 .. 255
      <4>1. gates' = 0 .. 31 \/ gates' = gates \cup 32 .. 47
        BY <2>2 DEF SetGates, SetIrqGates
      <4>2. gates \subseteq 0 .. 255
        OBVIOUS
      <4>3. ASSUME NEW n \in gates' PROVE n \in 0 .. 255
        <5> DEFINE A == 0 .. 31
                   B == 32 .. 47
        <5>1. n \in A \/ n \in B \/ n \in gates
          <6>1. gates' = A \/ gates' = gates \cup B
            BY <4>1
          <6> HIDE DEF A, B
          <6> QED
            BY <6>1
        <5>2. n \in gates => n \in 0 .. 255
          BY <4>2, Zenon
        <5> QED
          BY <5>1, <5>2
      <4> QED
        BY <4>3, Zenon
    <3>2. UNCHANGED <<handlers, irr, in_service, kb, tick>>
      BY <2>2 DEF SetGates, SetIrqGates, devices
    <3> QED
      BY <3>1, <3>2
  <2>3. CASE pic_remap
    <3>1. irr' = {} /\ UNCHANGED <<gates, handlers, in_service, kb, tick>>
      BY <2>3 DEF pic_remap
    <3> QED
      BY <3>1
  <2>4. CASE init_timer \/ init_keyboard \/ init_paging
    <3>1. \E n \in {14, IRQ0, IRQ1} : handlers' = handlers \cup {n}
      BY <2>4, Zenon DEF init_timer, init_keyboard, init_paging,
           register_interrupt_handler
    <3>2. UNCHANGED <<gates, irr, in_service, kb, tick>>
      BY <2>4 DEF init_timer, init_keyboard, init_paging, devices
    <3>3. handlers' \subseteq {14, IRQ0, IRQ1}
      BY <3>1, Zenon
    <3> QED
      BY <3>2, <3>3
  <2> QED
    BY <1>2, <2>1, <2>2, <2>3, <2>4 DEF Main
<1>3. CASE Handler
  <2>1. CASE irq_acknowledge
    BY <2>1, AckShrinks DEF irq_acknowledge
  <2>2. CASE timer_callback
    <3>1. tick' \in 0 .. (TickWrap - 1)
      BY <2>2 DEF timer_callback, next_tick
    <3> QED
      BY <2>2, <3>1 DEF timer_callback, devices
  <2>3. CASE keyboard_callback \/ reboot
    <3>1. kb' = [kb EXCEPT !.full = 0]
      BY <2>3 DEF keyboard_callback, reboot, read_port
    <3> QED
      BY <2>3, <3>1 DEF keyboard_callback, reboot
  <2>4. CASE irq_unhandled \/ test_interrupts \/ isr_handler \/ iret
    BY <1>1, <2>4 DEF irq_unhandled, test_interrupts, isr_handler, iret, panic, devices
  <2> QED
    BY <1>3, <2>1, <2>2, <2>3, <2>4 DEF Handler
<1>4. CASE KeyEvent
  BY <1>4 DEF KeyEvent
<1>5. CASE KeyReady
  <2>1. kb' \in [queue : 0 .. KeyLimit, full : {0, 1}]
    BY <1>5 DEF KeyReady
  <2>2. irr' \subseteq Lines /\ UNCHANGED <<gates, handlers, in_service, tick>>
    BY <1>5 DEF KeyReady
  <2> QED
    BY <2>1, <2>2
<1>6. ASSUME NEW q \in Lines, Request(q) \/ Deliver(q) PROVE Counters'
  <2>1. UNCHANGED <<gates, handlers, kb, tick>>
    BY <1>6 DEF Request, Deliver
  <2>2. irr' \subseteq irr \cup {q} /\ in_service' \subseteq in_service \cup {q}
    BY <1>6, Zenon DEF Request, Deliver
  <2> QED
    BY <2>1, <2>2
<1>7. CASE UNCHANGED vars
  BY <1>1, <1>7 DEF vars
<1> QED
  BY <1>2, <1>3, <1>4, <1>5, <1>6, <1>7 DEF Next, Devices

LEMMA ServiceInvariance == Spec => [](IInv /\ Counters /\ Service)
<1>1. Init => Counters /\ Service
  <2> SUFFICES ASSUME Init PROVE Counters /\ Service
    OBVIOUS
  <2>1. /\ gates = {} /\ handlers = {} /\ irr = {} /\ in_service = {}
        /\ kb = [queue |-> 0, full |-> 0] /\ tick = 0
    BY DEF Init
  <2> QED
    BY <2>1, InterruptsAssumption DEF Counters, Service
<1>2. (IInv /\ Counters /\ Service) /\ [Next]_vars => (Counters /\ Service)'
  BY CountersStep, ServiceStep
<1> QED
  BY <1>1, <1>2, Invariance, PTL DEF Spec

\* Registers and counters keep their ranges for every set of lines, every
\* bound on waiting keys and every width of tick.
THEOREM TypeCorrect == Spec => []TypeOK
<1>1. IInv /\ Counters => TypeOK
  <2> SUFFICES ASSUME IInv, Counters PROVE TypeOK
    OBVIOUS
  <2>1. IF_flag \in {0, 1} /\ frames \in Seq(Frame)
    BY DEF IInv, Types
  <2>2. \A k \in 1 .. Len(frames) : frames[k] \in Frame
    BY <2>1
  <2>3. \A k \in 1 .. Len(frames) : frames[k].vector \in 0 .. 255
    BY <2>2 DEF Frame
  <2> QED
    BY <2>1, <2>3 DEF Counters, TypeOK
<1> QED
  BY <1>1, ServiceInvariance, PTL

\* The acknowledgement in irq_handler is enough: when the stack of handlers
\* is empty, neither controller has a line in service, although the second
\* controller may be in automatic EOI mode and is sent one all the same.
THEOREM NothingStaysInService == Spec => []NothingStuckInService
<1>1. Service => NothingStuckInService
  BY DEF Service, NothingStuckInService
<1> QED
  BY <1>1, ServiceInvariance, PTL
=============================================================================
