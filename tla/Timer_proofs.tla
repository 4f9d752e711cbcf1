---------------------------- MODULE Timer_proofs ----------------------------
(***************************************************************************)
(* Proofs about the timer, for every set of lines, every timer rate and    *)
(* every bound: interrupts and the main program's view of them stay in     *)
(* step, the interrupt controllers are told of the end of every handler,   *)
(* and the timer and sleep are a tick clock.                               *)
(***************************************************************************)
EXTENDS Timer, TLAPS

\* At most one handler runs.
OneFrame == stack = <<>> \/ \E f \in Frames : stack = <<f>>

\* Up to interrupt_enable nothing can be interrupted; afterwards the flag is clear
\* in a handler and where pit_get_ticks has cleared it, and only there.
FlagInv ==
  /\ int_flag \in BOOLEAN /\ int_enabled \in BOOLEAN
  /\ pc \in Boot \union Sleep \union Printing \union {"idle", "halt"}
  /\ OneFrame
  /\ InHandler => ~int_flag /\ int_enabled /\ stack[1].flag = TRUE
  /\ ~InHandler => int_flag = int_enabled
  /\ pc \in Boot => ~int_enabled
  /\ Booted => (int_enabled <=> pc \notin {"load", "sti"})

-----------------------------------------------------------------------------
(* Steps of the parts *)

\* A step of the main program leaves the stack alone and is taken only while no
\* handler runs.
LEMMA MoveFacts ==
  ASSUME NEW from, NEW to, Move(from, to)
  PROVE  stack = <<>> /\ pc = from /\ pc' = to
BY DEF Move, InHandler

\* Only the innermost frame changes its step.
LEMMA GotoFrame ==
  ASSUME NEW f \in Frames, stack = <<f>>, NEW step \in Steps, Goto(step)
  PROVE  /\ stack' = <<[f EXCEPT !.step = step]>>
         /\ [f EXCEPT !.step = step] \in Frames
         /\ stack'[1].flag = f.flag
<1>1. stack' = <<[f EXCEPT !.step = step]>>
  BY DEF Goto
<1>2. [f EXCEPT !.step = step] \in Frames
  BY DEF Frames
<1>3. [f EXCEPT !.step = step].flag = f.flag
  BY DEF Frames
<1>4. QED
  BY <1>1, <1>2, <1>3

\* No step of the main program starts or ends a handler.
LEMMA MainKeepsFlags ==
  ASSUME FlagInv, Main
  PROVE  FlagInv'
<1> USE DEF FlagInv, OneFrame, InHandler, Booted, Boot, Sleep, Printing, Move,
            interruptVars, cpuVars, picVars
<1>1. CASE MainClear
  BY <1>1 DEF MainClear
<1>2. CASE MainDisable
  BY <1>2 DEF MainDisable, InterruptDisable
<1>3. CASE MainPicInit
  BY <1>3 DEF MainPicInit, PicInit
<1>4. CASE MainInterruptInit
  BY <1>4 DEF MainInterruptInit, InterruptInit
<1>5. CASE MainPitInit
  BY <1>5 DEF MainPitInit, PitInit
<1>6. CASE MainPicEnable
  BY <1>6 DEF MainPicEnable, PicEnable
<1>7. CASE MainEnable
  BY <1>7 DEF MainEnable, InterruptEnable
<1>8. CASE MainRegister
  BY <1>8 DEF MainRegister
<1>9. CASE MainHalt
  BY <1>9 DEF MainHalt
<1>10. CASE StartSleep
  BY <1>10 DEF StartSleep
<1>11. CASE GetTicksWait
  BY <1>11 DEF GetTicksWait
<1>12. CASE GetTicksDisable
  BY <1>12 DEF GetTicksDisable, InterruptDisable
<1>13. CASE GetTicksLoad
  BY <1>13 DEF GetTicksLoad
<1>14. CASE GetTicksEnable
  BY <1>14 DEF GetTicksEnable, InterruptEnable
<1>15. CASE SleepOn
  BY <1>15 DEF SleepOn
<1>16. CASE SleepReturn
  BY <1>16 DEF SleepReturn
<1>17. CASE StartPrint
  BY <1>17 DEF StartPrint, printFrame
<1>18. CASE PrintFill
  BY <1>18 DEF PrintFill, printFrame
<1>19. CASE PrintWrite
  BY <1>19 DEF PrintWrite, printFrame
<1>20. CASE PrintPlace
  BY <1>20 DEF PrintPlace, printFrame
<1>21. CASE PrintPut
  BY <1>21 DEF PrintPut, printFrame
<1>22. CASE PrintNoMore
  BY <1>22 DEF PrintNoMore, printFrame
<1>23. CASE PrintEnd
  BY <1>23 DEF PrintEnd, printFrame
<1>24. QED
  BY <1>1, <1>2, <1>3, <1>4, <1>5, <1>6, <1>7, <1>8, <1>9, <1>10, <1>11, <1>12, <1>13, <1>14, <1>15, <1>16, <1>17, <1>18, <1>19, <1>20, <1>21, <1>22, <1>23 DEF Main

\* An interrupt is taken only when no handler runs, and its frame keeps the flag.
LEMMA EnterFlags ==
  ASSUME FlagInv, int_flag, NEW irq \in 0 .. 15, NEW in_service \in BOOLEAN,
         Enter(irq, in_service), UNCHANGED pc
  PROVE  FlagInv'
<1> DEFINE f == [irq |-> irq, in_service |-> in_service, step |-> "call", flag |-> int_flag]
<1>1. stack = <<>> /\ int_flag = TRUE /\ int_enabled = TRUE
  BY DEF FlagInv, InHandler
<1>2. f \in Frames /\ f.flag = TRUE
  BY <1>1 DEF Frames, Steps
<1>3. stack' = <<f>> /\ int_flag' = FALSE /\ int_enabled' = int_enabled
  BY <1>1 DEF Enter
<1>4. stack'[1].flag = TRUE /\ InHandler' /\ OneFrame'
  BY <1>2, <1>3 DEF InHandler, OneFrame
<1>5. QED
  BY <1>1, <1>3, <1>4 DEF FlagInv, Booted

\* Within a handler only its step changes.
LEMMA GotoFlags ==
  ASSUME FlagInv, InHandler, NEW step \in Steps, Goto(step),
         UNCHANGED <<int_flag, int_enabled, pc>>
  PROVE  FlagInv'
<1>1. PICK f \in Frames : stack = <<f>>
  BY DEF FlagInv, OneFrame, InHandler
<1>2. /\ stack' = <<[f EXCEPT !.step = step]>>
      /\ [f EXCEPT !.step = step] \in Frames
      /\ stack'[1].flag = f.flag
  BY <1>1, GotoFrame
<1>3. stack[1].flag = f.flag
  BY <1>1
<1>4. InHandler' /\ OneFrame'
  BY <1>2 DEF InHandler, OneFrame
<1>5. QED
  BY <1>2, <1>3, <1>4 DEF FlagInv, Booted, InHandler

LEMMA HandlerKeepsFlags ==
  ASSUME FlagInv, Handler
  PROVE  FlagInv'
<1>1. CASE TakeInterrupt
  <2>1. PICK line \in Lines : Deliver(line)
    BY <1>1 DEF TakeInterrupt
  <2>2. line \in 0 .. 15
    BY LineNumbers
  <2>3. QED
    BY <1>1, <2>1, <2>2, EnterFlags DEF Deliver, TakeInterrupt, mainVars
<1>2. CASE TakeSpurious
  <2>1. PICK line \in Lines : DeliverSpurious(line)
    BY <1>2 DEF TakeSpurious
  <2>2. (IF Slave(line) THEN 15 ELSE 7) \in 0 .. 15
    OBVIOUS
  <2>3. QED
    BY <1>2, <2>1, <2>2, EnterFlags DEF DeliverSpurious, TakeSpurious, mainVars
<1>3. CASE PitHandlerMark
  BY <1>3, GotoFlags DEF PitHandlerMark, Calls, inHandlerFrame, mainVars, Steps
<1>4. CASE PitHandlerCount
  BY <1>4, GotoFlags DEF PitHandlerCount, inHandlerFrame, mainVars, Steps
<1>5. CASE AtaHandler
  BY <1>5, GotoFlags DEF AtaHandler, Calls, inHandlerFrame, mainVars, Steps
<1>6. CASE PrintIrq
  BY <1>6, GotoFlags DEF PrintIrq, Calls, inHandlerFrame, mainVars, Steps
<1>7. CASE AcknowledgeIrq
  BY <1>7, GotoFlags DEF AcknowledgeIrq, Acknowledge, irqFrame, mainVars, Steps
<1>8. CASE LeaveIrq
  <2>1. PICK f \in Frames : stack = <<f>>
    BY <1>8 DEF FlagInv, OneFrame, InHandler, LeaveIrq, ReturnFromIrq
  <2>2. stack' = <<>> /\ int_flag' = TRUE /\ UNCHANGED <<int_enabled, pc>> /\ int_enabled
    BY <1>8, <2>1 DEF FlagInv, InHandler, LeaveIrq, ReturnFromIrq, irqFrame, mainVars
  <2>3. QED
    BY <2>2 DEF FlagInv, OneFrame, InHandler, Booted, Boot
<1>9. QED
  BY <1>1, <1>2, <1>3, <1>4, <1>5, <1>6, <1>7, <1>8 DEF Handler

\* The clock and the devices touch only the controllers.
LEMMA WorldKeepsFlags ==
  ASSUME FlagInv, Clock \/ Device \/ UNCHANGED vars
  PROVE  FlagInv'
<1>1. UNCHANGED <<int_flag, int_enabled, stack, pc>>
  BY DEF Clock, Device, Raise, vars, interruptVars, cpuVars, mainVars
<1>2. OneFrame' = OneFrame /\ InHandler' = InHandler /\ Booted' = Booted
  BY <1>1 DEF OneFrame, InHandler, Booted
<1>3. QED
  BY <1>1, <1>2 DEF FlagInv

LEMMA FlagsInductive ==
  Spec => []FlagInv
<1>1. ASSUME Init PROVE FlagInv
  <2>1. int_flag = FALSE /\ int_enabled = FALSE /\ stack = <<>> /\ pc = "clear"
    BY <1>1 DEF Init
  <2>2. QED
    BY <2>1 DEF FlagInv, OneFrame, InHandler, Booted, Boot, Sleep, Printing
<1>2. FlagInv /\ [Next]_vars => FlagInv'
  BY MainKeepsFlags, HandlerKeepsFlags, WorldKeepsFlags DEF Next
<1>3. QED
  BY <1>1, <1>2, PTL DEF Spec

\* Theorem.  Handlers do not nest: the gates clear the flag, and nothing sets it
\* before the stub's iretq.
THEOREM NoNesting ==
  Spec => []HandlersDoNotNest
<1>1. ASSUME OneFrame PROVE Len(stack) <= 1
  <2>1. CASE stack = <<>>
    BY <2>1
  <2>2. CASE stack # <<>>
    <3>1. PICK f \in Frames : stack = <<f>>
      BY <1>1, <2>2 DEF OneFrame
    <3>2. QED
      BY <3>1
  <2>3. QED
    BY <2>1, <2>2
<1>2. FlagInv => HandlersDoNotNest
  BY <1>1 DEF FlagInv, HandlersDoNotNest
<1>3. QED
  BY <1>2, FlagsInductive, PTL

\* Theorem.  _int_enabled is what the CPU does whenever the main program runs.
THEOREM FlagsStayInStep ==
  Spec => []FlagsAgree
<1>1. FlagInv => FlagsAgree
  BY DEF FlagInv, FlagsAgree, Booted
<1>2. QED
  BY <1>1, FlagsInductive, PTL

-----------------------------------------------------------------------------
(* The refinement *)

\* What sleep has read is not ahead of the timer, and between its calls its locals
\* are reset.
TickInv ==
  /\ ticks \in Nat /\ tick \in Nat /\ tick <= ticks
  /\ counter \in Nat /\ tick_count \in Nat
  /\ tick_start \in Nat \union {-1}
  /\ pc \notin Sleep => tick_start = -1 /\ tick = 0
  /\ pc \in {"sti", "check"} => tick_start # -1
  /\ pc \in Sleep => tick_count >= 1

\* A sleep is a whole number of ticks, and at least one.
LEMMA TickCountPositive ==
  ASSUME counter \in Nat, counter > 0, NEW time \in Times
  PROVE  TickCount(time) \in Nat /\ TickCount(time) >= 1
<1> DEFINE a == time * PIT_FREQ
           b == counter * 1000
<1>1. a \in Nat /\ b \in Nat /\ b > 0
  <2>1. time \in Nat /\ PIT_FREQ \in Nat
    BY TimerConstants
  <2>2. QED
    BY <2>1
<1>2. \A m, n \in Nat : n > 0 => m \div n \in Nat
  OBVIOUS
<1>3. a \div b \in Nat
  <2> HIDE DEF a, b
  <2>1. QED
    BY <1>1, <1>2
<1>4. QED
  BY <1>3 DEF TickCount

\* The main program's steps are steps of the tick clock, or stutter.
LEMMA MainTicks ==
  ASSUME TickInv, Main
  PROVE  TickInv' /\ [TC!Next]_TC!clockVars
<1> DEFINE Step == [TC!Next]_TC!clockVars
<1>1. ASSUME UNCHANGED <<ticks, counter, tick_count, tick_start, tick>>,
             NEW from, NEW to, Move(from, to),
             from \in Sleep <=> to \in Sleep,
             to \in {"sti", "check"} => from \in {"sti", "check"}
      PROVE  TickInv' /\ Step
  <2>1. pc = from /\ pc' = to
    BY <1>1 DEF Move
  <2>2. TickInv'
    BY <1>1, <2>1 DEF TickInv
  <2>3. UNCHANGED TC!clockVars
    BY <1>1, <2>1 DEF TC!clockVars
  <2>4. QED
    BY <2>2, <2>3
<1>2. CASE MainClear
  BY <1>2, <1>1 DEF MainClear, pitVars, sleepVars, Sleep
<1>3. CASE MainDisable
  BY <1>3, <1>1 DEF MainDisable, pitVars, sleepVars, Sleep
<1>4. CASE MainPicInit
  BY <1>4, <1>1 DEF MainPicInit, pitVars, sleepVars, Sleep
<1>5. CASE MainInterruptInit
  BY <1>5, <1>1 DEF MainInterruptInit, pitVars, sleepVars, Sleep
<1>6. CASE MainPitInit
  <2>1. pc = "pit_init" /\ pc' = "pic_enable" /\ ticks' = 0
        /\ UNCHANGED sleepVars /\ counter' = PitCounter(PIT_COUNTER)
    BY <1>6 DEF MainPitInit, Move, PitInit
  <2>2. counter' \in Nat
    <3>1. PIT_COUNTER \in Nat
      BY CounterWidth, SMTT(30)
    <3>2. 65535 \in Nat
      OBVIOUS
    <3>3. PitCounter(PIT_COUNTER) \in Nat
      BY <3>1, <3>2 DEF PitCounter
    <3>4. QED
      BY <2>1, <3>3
  <2>3. UNCHANGED <<tick_count, tick_start, tick>> /\ tick = 0 /\ tick_start = -1
    BY <2>1 DEF TickInv, sleepVars, Sleep
  <2>4. TickInv'
    BY <2>1, <2>2, <2>3 DEF TickInv, Sleep
  <2>5. TC!Restart
    BY <2>1, <2>3 DEF TC!Restart, Sleep
  <2>6. QED
    BY <2>4, <2>5 DEF TC!Next
<1>7. CASE MainPicEnable
  BY <1>7, <1>1 DEF MainPicEnable, pitVars, sleepVars, Sleep
<1>8. CASE MainEnable
  BY <1>8, <1>1 DEF MainEnable, pitVars, sleepVars, Sleep
<1>9. CASE MainRegister
  BY <1>9, <1>1 DEF MainRegister, pitVars, sleepVars, Sleep
<1>10. CASE MainHalt
  BY <1>10, <1>1 DEF MainHalt, pitVars, sleepVars, Sleep
<1>11. CASE StartSleep
  <2>1. PICK time \in Times : tick_count' = TickCount(time)
    BY <1>11 DEF StartSleep
  <2>2. pc = "idle" /\ pc' = "wait" /\ counter > 0
        /\ UNCHANGED <<ticks, counter, tick_start, tick>>
    BY <1>11 DEF StartSleep, Move, pitVars
  <2>3. tick_count' \in Nat /\ tick_count' >= 1
    BY <2>1, <2>2, TickCountPositive DEF TickInv
  <2>4. tick_start = -1 /\ tick = 0
    BY <2>2 DEF TickInv, Sleep
  <2>5. TickInv'
    BY <2>2, <2>3, <2>4 DEF TickInv, Sleep
  <2>6. UNCHANGED TC!clockVars
    BY <2>2, <2>4 DEF TC!clockVars, Sleep
  <2>7. QED
    BY <2>5, <2>6
<1>12. CASE GetTicksWait
  BY <1>12, <1>1 DEF GetTicksWait, pitVars, sleepVars, Sleep
<1>13. CASE GetTicksDisable
  BY <1>13, <1>1 DEF GetTicksDisable, pitVars, sleepVars, Sleep
<1>14. CASE GetTicksLoad
  <2>1. pc = "load" /\ pc' = "sti" /\ tick' = ticks
        /\ tick_start' = (IF tick_start = -1 THEN ticks ELSE tick_start)
        /\ UNCHANGED <<ticks, counter, tick_count>>
    BY <1>14 DEF GetTicksLoad, Move, pitVars
  <2>2. TickInv'
    BY <2>1 DEF TickInv, Sleep
  <2>3. CASE tick_start = -1
    <3>1. TC!FallAsleep
      BY <2>1, <2>3 DEF TC!FallAsleep, TickInv, Sleep
    <3>2. QED
      BY <2>2, <3>1 DEF TC!Next
  <2>4. CASE tick_start # -1
    <3>1. UNCHANGED TC!clockVars
      BY <2>1, <2>4 DEF TC!clockVars, Sleep
    <3>2. QED
      BY <2>2, <3>1
  <2>5. QED
    BY <2>3, <2>4
<1>15. CASE GetTicksEnable
  BY <1>15, <1>1 DEF GetTicksEnable, InterruptEnable, pitVars, sleepVars, Sleep
<1>16. CASE SleepOn
  BY <1>16, <1>1 DEF SleepOn, pitVars, sleepVars, Sleep
<1>17. CASE SleepReturn
  <2>1. pc = "check" /\ pc' = "idle" /\ tick >= tick_start + tick_count
        /\ tick_count' = 0 /\ tick_start' = -1 /\ tick' = 0
        /\ UNCHANGED <<ticks, counter>>
    BY <1>17 DEF SleepReturn, Move, Slept, pitVars
  <2>2. TickInv'
    BY <2>1 DEF TickInv, Sleep
  <2>3. TC!WakeUp
    BY <2>1 DEF TC!WakeUp, TickInv, Sleep
  <2>4. QED
    BY <2>2, <2>3 DEF TC!Next
<1>18. CASE StartPrint
  BY <1>18, <1>1 DEF StartPrint, printFrame, pitVars, sleepVars, Sleep
<1>19. CASE PrintFill
  BY <1>19, <1>1 DEF PrintFill, printFrame, pitVars, sleepVars, Sleep
<1>20. CASE PrintWrite
  BY <1>20, <1>1 DEF PrintWrite, printFrame, pitVars, sleepVars, Sleep
<1>21. CASE PrintPlace
  BY <1>21, <1>1 DEF PrintPlace, printFrame, pitVars, sleepVars, Sleep
<1>22. CASE PrintPut
  BY <1>22, <1>1 DEF PrintPut, printFrame, pitVars, sleepVars, Sleep
<1>23. CASE PrintNoMore
  BY <1>23, <1>1 DEF PrintNoMore, printFrame, pitVars, sleepVars, Sleep
<1>24. CASE PrintEnd
  BY <1>24, <1>1 DEF PrintEnd, printFrame, pitVars, sleepVars, Sleep
<1>25. QED
  BY <1>2, <1>3, <1>4, <1>5, <1>6, <1>7, <1>8, <1>9, <1>10, <1>11, <1>12, <1>13, <1>14, <1>15, <1>16, <1>17, <1>18, <1>19, <1>20, <1>21, <1>22, <1>23, <1>24 DEF Main

\* pit_handler's second step is a tick; nothing else outside the main program
\* concerns the tick clock.
LEMMA OtherTicks ==
  ASSUME TickInv, Handler \/ Clock \/ Device \/ UNCHANGED vars
  PROVE  TickInv' /\ [TC!Next]_TC!clockVars
<1>1. CASE PitHandlerCount
  <2>1. ticks' = ticks + 1 /\ UNCHANGED <<counter, tick_count, tick_start, tick, pc>>
    BY <1>1 DEF PitHandlerCount, inHandlerFrame, mainVars
  <2>2. TickInv'
    BY <2>1 DEF TickInv
  <2>3. TC!Tick
    BY <2>1 DEF TC!Tick
  <2>4. QED
    BY <2>2, <2>3 DEF TC!Next
<1>2. CASE ~PitHandlerCount
  <2>1. UNCHANGED <<ticks, counter, tick_count, tick_start, tick, pc>>
    <3>1. CASE TakeInterrupt \/ TakeSpurious \/ PitHandlerMark \/ AtaHandler \/ PrintIrq
      BY <3>1 DEF TakeInterrupt, TakeSpurious, PitHandlerMark, AtaHandler, PrintIrq,
                  inHandlerFrame, mainVars, pitVars
    <3>2. CASE AcknowledgeIrq \/ LeaveIrq
      BY <3>2 DEF AcknowledgeIrq, LeaveIrq, irqFrame, mainVars, pitVars
    <3>3. CASE Clock \/ Device \/ UNCHANGED vars
      BY <3>3 DEF Clock, Device, vars, mainVars, pitVars
    <3>4. QED
      BY <1>2, <3>1, <3>2, <3>3 DEF Handler
  <2>2. TickInv'
    BY <2>1 DEF TickInv
  <2>3. UNCHANGED TC!clockVars
    BY <2>1 DEF TC!clockVars
  <2>4. QED
    BY <2>2, <2>3
<1>3. QED
  BY <1>1, <1>2

\* Theorem.  The timer and sleep are a tick clock: ticks are counted one by one,
\* and sleep returns only when the ticks it asked for have been counted.
THEOREM TimerIsTickClock ==
  Spec => ImplementsTickClock
<1>1. Init => TickInv /\ TC!Init
  BY DEF Init, TickInv, TC!Init, Sleep
<1>2. TickInv /\ [Next]_vars => TickInv' /\ [TC!Next]_TC!clockVars
  BY MainTicks, OtherTicks DEF Next
<1>3. QED
  BY <1>1, <1>2, PTL DEF Spec, ImplementsTickClock, TC!Spec

-----------------------------------------------------------------------------
(* What is in service *)

\* The lines a frame holds in service, and what is in service without a frame.
Held(f) == IF f.in_service /\ f.step # "acknowledged"
           THEN {f.irq, MasterBit(f.irq)} ELSE {}
Base == IF stuck THEN {Cascade} ELSE {}

\* While the cascade is stuck, no line behind it gets through.
ServiceInv ==
  /\ irr \subseteq Lines
  /\ stuck \in BOOLEAN
  /\ pc \in Boot => ~stuck
  /\ stack = <<>> => isr = Base
  /\ \A f \in Frames : stack = <<f>> =>
       /\ isr = Base \union Held(f)
       /\ f.in_service => f.irq \in Lines
       /\ stuck /\ f.in_service /\ f.step # "acknowledged" => f.irq < Cascade

\* What MayInterrupt allows when no handler runs.
LEMMA FreeToInterrupt ==
  ASSUME NEW line \in Lines, MayInterrupt(line), isr = Base, stuck
  PROVE  line < Cascade
<1>1. Cascade \in isr /\ ~Slave(Cascade)
  BY DEF Base, Slave, Cascade
<1>2. MasterBit(line) < Cascade
  BY <1>1 DEF MayInterrupt
<1>3. QED
  BY <1>2, LineNumbers DEF MasterBit, Cascade

\* An end of interrupt takes back what the acknowledge put into service.
LEMMA EoiRetires ==
  ASSUME NEW f \in Frames, f.in_service, f.step # "acknowledged", f.irq \in Lines,
         stuck => f.irq < Cascade,
         isr = Base \union Held(f)
  PROVE  AfterEoi(f.irq) = Base
<1> DEFINE line == f.irq
<1>1. line \in 0 .. 15 /\ line # Cascade
  BY LineNumbers
<1>2. CASE Slave(line)
  <2>1. ~stuck /\ line >= 8
    BY <1>1, <1>2 DEF Slave, Cascade
  <2>2. isr = {line, Cascade}
    BY <1>2, <2>1 DEF Base, Held, MasterBit
  <2>3. {i \in isr : ~Slave(i)} = {Cascade} /\ {i \in isr : Slave(i)} = {line}
    BY <2>1, <2>2 DEF Slave, Cascade
  <2>4. Highest({Cascade}) = {Cascade} /\ Highest({line}) = {line}
    BY <1>1 DEF Highest, Cascade
  <2>5. AfterEoi(line) = {}
    BY <1>2, <2>2, <2>3, <2>4 DEF AfterEoi
  <2>6. QED
    BY <2>1, <2>5 DEF Base
<1>3. CASE ~Slave(line)
  <2>1. isr = Base \union {line}
    BY <1>3 DEF Held, MasterBit
  <2>2. {i \in isr : ~Slave(i)} = Base \union {line}
    BY <1>3, <2>1 DEF Base, Slave, Cascade
  <2>3. Highest(Base \union {line}) = {line}
    BY <1>1 DEF Highest, Base, Cascade
  <2>4. AfterEoi(line) = (Base \union {line}) \ {line}
    BY <1>3, <2>1, <2>2, <2>3 DEF AfterEoi
  <2>5. QED
    BY <1>1, <2>4 DEF Base
<1>4. QED
  BY <1>2, <1>3

\* A handler's call, from its frame's step "call" or "count", holds what it held.
LEMMA GotoService ==
  ASSUME FlagInv, ServiceInv, InHandler, NEW step \in Steps, step # "acknowledged",
         Head(stack).step # "acknowledged", Goto(step),
         UNCHANGED <<irr, isr, stuck, pc>>
  PROVE  ServiceInv'
<1>1. PICK f \in Frames : stack = <<f>>
  BY DEF FlagInv, OneFrame, InHandler
<1> DEFINE g == [f EXCEPT !.step = step]
<1>2. stack' = <<g>> /\ g \in Frames
  BY <1>1, GotoFrame
<1>3. /\ g.irq = f.irq /\ g.in_service = f.in_service /\ g.step = step
      /\ f.step # "acknowledged"
  BY <1>1 DEF Frames
<1> HIDE DEF g
<1>4. Held(g) = Held(f)
  BY <1>3 DEF Held
<1>5. stack' # <<>> /\ \A h \in Frames : stack' = <<h>> => h = g
  BY <1>2
<1>6. /\ isr = Base \union Held(f)
      /\ f.in_service => f.irq \in Lines
      /\ stuck /\ f.in_service => f.irq < Cascade
  BY <1>1, <1>3 DEF ServiceInv
<1>7. Base' = Base /\ Held(g)' = Held(g)
  BY DEF Base, Held, MasterBit
<1>8. \A h \in Frames : stack' = <<h>> =>
       /\ isr' = Base' \union Held(h)
       /\ h.in_service => h.irq \in Lines
       /\ stuck' /\ h.in_service /\ h.step # "acknowledged" => h.irq < Cascade
  BY <1>3, <1>4, <1>5, <1>6, <1>7
<1>9. QED
  BY <1>5, <1>8 DEF ServiceInv

LEMMA MainKeepsService ==
  ASSUME FlagInv, ServiceInv, Main
  PROVE  ServiceInv'
<1>1. stack = <<>> /\ stack' = <<>> /\ UNCHANGED stuck
  BY DEF Main, Move, InHandler, interruptVars, cpuVars, worldVars, printFrame,
         MainClear, MainDisable, MainPicInit, MainInterruptInit, MainPitInit,
         MainPicEnable, MainEnable, MainRegister, MainHalt, StartSleep,
         GetTicksWait, GetTicksDisable, GetTicksLoad, GetTicksEnable, SleepOn,
         SleepReturn, StartPrint, PrintFill, PrintWrite, PrintPlace, PrintPut,
         PrintNoMore, PrintEnd, InterruptDisable, InterruptEnable, PicInit,
         InterruptInit, PicEnable
<1>2. pc' \in Boot => pc \in Boot
  BY DEF Main, Move, Boot, 
         MainClear, MainDisable, MainPicInit, MainInterruptInit, MainPitInit,
         MainPicEnable, MainEnable, MainRegister, MainHalt, StartSleep,
         GetTicksWait, GetTicksDisable, GetTicksLoad, GetTicksEnable, SleepOn,
         SleepReturn, StartPrint, PrintFill, PrintWrite, PrintPlace, PrintPut,
         PrintNoMore, PrintEnd
<1>3. CASE MainPicInit
  <2>1. pc \in Boot /\ irr' = {} /\ isr' = {}
    BY <1>3 DEF MainPicInit, Move, Boot, PicInit
  <2>2. QED
    BY <1>1, <2>1 DEF ServiceInv, Base
<1>4. CASE ~MainPicInit
  <2>1. UNCHANGED <<irr, isr>>
    BY <1>4 DEF Main, interruptVars, picVars, printFrame,
         MainClear, MainDisable, MainInterruptInit, MainPitInit,
         MainPicEnable, MainEnable, MainRegister, MainHalt, StartSleep,
         GetTicksWait, GetTicksDisable, GetTicksLoad, GetTicksEnable, SleepOn,
         SleepReturn, StartPrint, PrintFill, PrintWrite, PrintPlace, PrintPut,
         PrintNoMore, PrintEnd, InterruptDisable, InterruptEnable,
         InterruptInit, PicEnable
  <2>2. QED
    BY <1>1, <1>2, <2>1 DEF ServiceInv, Base
<1>5. QED
  BY <1>3, <1>4

\* The frame that an interrupt pushes, alone on the stack.
LEMMA EnterService ==
  ASSUME FlagInv, ServiceInv, int_flag, NEW irq \in 0 .. 15, NEW in_service \in BOOLEAN,
         Enter(irq, in_service), irr' \subseteq Lines, stuck' \in BOOLEAN,
         UNCHANGED pc, pc \notin Boot,
         isr' = Base' \union (IF in_service THEN {irq, MasterBit(irq)} ELSE {}),
         in_service => irq \in Lines,
         stuck' /\ in_service => irq < Cascade
  PROVE  ServiceInv'
<1> DEFINE g == [irq |-> irq, in_service |-> in_service, step |-> "call",
                 flag |-> int_flag]
<1>1. stack = <<>>
  BY DEF FlagInv, InHandler
<1>2. stack' = <<g>>
  BY <1>1 DEF Enter
<1>3. g.irq = irq /\ g.in_service = in_service /\ g.step = "call"
  OBVIOUS
<1> HIDE DEF g
<1>4. stack' # <<>> /\ \A h \in Frames : stack' = <<h>> => h = g
  BY <1>2
<1>5. Held(g) = IF in_service THEN {irq, MasterBit(irq)} ELSE {}
  BY <1>3 DEF Held
<1>6. \A h \in Frames : stack' = <<h>> =>
       /\ isr' = Base' \union Held(h)
       /\ h.in_service => h.irq \in Lines
       /\ stuck' /\ h.in_service /\ h.step # "acknowledged" => h.irq < Cascade
  BY <1>3, <1>4, <1>5
<1>7. QED
  BY <1>4, <1>6 DEF ServiceInv

LEMMA HandlerKeepsService ==
  ASSUME FlagInv, ServiceInv, Handler
  PROVE  ServiceInv'
<1>1. CASE TakeInterrupt
  <2>1. PICK line \in Lines : Deliver(line)
    BY <1>1 DEF TakeInterrupt
  <2>2. UNCHANGED <<pc, stuck>> /\ line \in 0 .. 15 /\ int_flag
    BY <1>1, <2>1, LineNumbers DEF TakeInterrupt, mainVars, worldVars, Deliver
  <2>3. stack = <<>> /\ pc \notin Boot
    BY <2>2 DEF FlagInv, InHandler
  <2>4. isr = Base /\ Base' = Base
    BY <2>2, <2>3 DEF ServiceInv, Base
  <2>5. isr' = Base' \union {line, MasterBit(line)}
    BY <2>1, <2>4 DEF Deliver
  <2>6. stuck => line < Cascade
    BY <2>1, <2>4, FreeToInterrupt DEF Deliver, Foremost, Pending
  <2>7. irr' \subseteq Lines /\ Enter(line, TRUE) /\ stuck' \in BOOLEAN
    <3>1. irr' = irr \ {line} /\ Enter(line, TRUE)
      BY <2>1 DEF Deliver
    <3>2. irr \subseteq Lines /\ stuck \in BOOLEAN
      BY DEF ServiceInv
    <3>3. QED
      BY <2>2, <3>1, <3>2
  <2>8. QED
    BY <2>2, <2>3, <2>5, <2>6, <2>7, EnterService
<1>2. CASE TakeSpurious
  <2>1. PICK line \in Lines : /\ DeliverSpurious(line)
                              /\ stuck' = (stuck \/ Slave(line))
    BY <1>2 DEF TakeSpurious
  <2> DEFINE irq == IF Slave(line) THEN 15 ELSE 7
  <2>2. UNCHANGED pc /\ int_flag /\ irq \in 0 .. 15
    BY <1>2, <2>1 DEF TakeSpurious, mainVars, DeliverSpurious
  <2>3. stack = <<>> /\ pc \notin Boot
    BY <2>2 DEF FlagInv, InHandler
  <2>4. isr = Base
    BY <2>3 DEF ServiceInv
  <2>5. stuck' \in BOOLEAN
    BY <2>1 DEF ServiceInv, Slave
  <2>6. isr' = Base'
    BY <2>1, <2>4 DEF Base, DeliverSpurious, ServiceInv
  <2>7. irr' \subseteq Lines /\ Enter(irq, FALSE)
    BY <2>1 DEF DeliverSpurious, ServiceInv
  <2> HIDE DEF irq
  <2>8. QED
    BY <2>2, <2>3, <2>5, <2>6, <2>7, EnterService
<1>3. CASE PitHandlerMark
  BY <1>3, GotoService DEF PitHandlerMark, Calls, inHandlerFrame, mainVars,
                           worldVars, picVars, Steps
<1>4. CASE PitHandlerCount
  BY <1>4, GotoService DEF PitHandlerCount, inHandlerFrame, mainVars, worldVars,
                           picVars, Steps
<1>5. CASE AtaHandler
  BY <1>5, GotoService DEF AtaHandler, Calls, inHandlerFrame, mainVars, worldVars,
                           picVars, Steps
<1>6. CASE PrintIrq
  BY <1>6, GotoService DEF PrintIrq, Calls, inHandlerFrame, mainVars, worldVars,
                           picVars, Steps
<1>7. CASE AcknowledgeIrq
  <2>1. PICK f \in Frames : stack = <<f>>
    BY <1>7 DEF FlagInv, OneFrame, InHandler, AcknowledgeIrq, Acknowledge
  <2>2. /\ f.step = "done" /\ UNCHANGED <<irr, stuck, pc>>
        /\ isr' = (IF f.in_service THEN AfterEoi(f.irq) ELSE isr)
        /\ Goto("acknowledged")
    BY <1>7, <2>1 DEF AcknowledgeIrq, Acknowledge, irqFrame, mainVars, worldVars
  <2>3. isr = Base \union Held(f)
    BY <2>1 DEF ServiceInv
  <2>4. isr' = Base
    <3>1. CASE f.in_service
      <4>1. f.irq \in Lines /\ (stuck => f.irq < Cascade)
        BY <2>1, <2>2, <3>1 DEF ServiceInv
      <4>2. QED
        BY <2>2, <2>3, <3>1, <4>1, EoiRetires
    <3>2. CASE ~f.in_service
      BY <2>2, <2>3, <3>2 DEF Held
    <3>3. QED
      BY <3>1, <3>2
  <2> DEFINE g == [f EXCEPT !.step = "acknowledged"]
  <2>5. stack' = <<g>>
    BY <2>1, <2>2, GotoFrame DEF Steps
  <2>6. g.irq = f.irq /\ g.in_service = f.in_service /\ g.step = "acknowledged"
    BY DEF Frames
  <2> HIDE DEF g
  <2>7. stack' # <<>> /\ \A h \in Frames : stack' = <<h>> => h = g
    BY <2>5
  <2>8. Held(g) = {} /\ (g.in_service => g.irq \in Lines)
    BY <2>1, <2>6 DEF Held, ServiceInv
  <2>9. Base' = Base
    BY <2>2 DEF Base
  <2>10. \A h \in Frames : stack' = <<h>> =>
       /\ isr' = Base' \union Held(h)
       /\ h.in_service => h.irq \in Lines
       /\ stuck' /\ h.in_service /\ h.step # "acknowledged" => h.irq < Cascade
    BY <2>4, <2>6, <2>7, <2>8, <2>9
  <2>11. QED
    BY <2>2, <2>7, <2>10 DEF ServiceInv
<1>8. CASE LeaveIrq
  <2>1. PICK f \in Frames : stack = <<f>>
    BY <1>8 DEF FlagInv, OneFrame, InHandler, LeaveIrq, ReturnFromIrq
  <2>2. f.step = "acknowledged" /\ stack' = <<>> /\ UNCHANGED <<irr, isr, stuck, pc>>
    BY <1>8, <2>1 DEF LeaveIrq, ReturnFromIrq, irqFrame, mainVars, worldVars, picVars
  <2>3. isr = Base
    BY <2>1, <2>2 DEF ServiceInv, Held
  <2>4. \A h : stack' # <<h>>
    BY <2>2
  <2>5. Base' = Base
    BY <2>2 DEF Base
  <2>6. /\ irr' \subseteq Lines /\ stuck' \in BOOLEAN
        /\ pc' \in Boot => ~stuck'
    BY <2>2 DEF ServiceInv
  <2>7. QED
    BY <2>2, <2>3, <2>4, <2>5, <2>6 DEF ServiceInv
<1>9. QED
  BY <1>1, <1>2, <1>3, <1>4, <1>5, <1>6, <1>7, <1>8 DEF Handler

LEMMA WorldKeepsService ==
  ASSUME ServiceInv, Clock \/ Device \/ UNCHANGED vars
  PROVE  ServiceInv'
<1>1. UNCHANGED <<isr, stack, stuck, pc>>
  BY DEF Clock, Device, Raise, vars, interruptVars, cpuVars, picVars, mainVars,
         worldVars
<1>2. irr' \subseteq Lines
  <2>1. CASE Clock
    <3>1. irr' = irr \union {0} \/ irr' = irr
      BY <2>1 DEF Clock, Raise, interruptVars, picVars
    <3>2. irr \subseteq Lines /\ 0 \in Lines
      BY TimerConstants DEF ServiceInv
    <3>3. QED
      BY <3>1, <3>2
  <2>2. CASE Device
    <3>1. PICK line \in Lines : irr' = irr \union {line}
      BY <2>2 DEF Device, Raise
    <3>2. irr \subseteq Lines
      BY DEF ServiceInv
    <3>3. QED
      BY <3>1, <3>2
  <2>3. CASE UNCHANGED vars
    BY <2>3 DEF vars, interruptVars, picVars, ServiceInv
  <2>4. QED
    BY <2>1, <2>2, <2>3
<1>3. Base' = Base
  BY <1>1 DEF Base
<1>4. QED
  BY <1>1, <1>2, <1>3 DEF ServiceInv, Held, MasterBit

LEMMA ServiceInductive ==
  Spec => []ServiceInv
<1>1. ASSUME Init PROVE ServiceInv
  <2>1. irr \subseteq Lines
    BY <1>1, TimerConstants DEF Init
  <2>2. isr = {} /\ stack = <<>> /\ stuck = FALSE
    BY <1>1 DEF Init
  <2>3. \A f : stack # <<f>>
    BY <2>2
  <2>4. QED
    BY <2>1, <2>2, <2>3 DEF ServiceInv, Base
<1>2. FlagInv /\ ServiceInv /\ [Next]_vars => ServiceInv'
  BY MainKeepsService, HandlerKeepsService, WorldKeepsService DEF Next
<1>3. QED
  BY <1>1, <1>2, FlagsInductive, PTL DEF Spec

\* Theorem.  A line is in service from the acknowledge of the CPU to the end of
\* interrupt of irq_wrapper, at both controllers; all that can be left over is the
\* cascade, after a spurious request of the slave.
THEOREM ServiceStaysInStep ==
  Spec => []ServiceMatchesHandler
<1>1. ASSUME FlagInv, ServiceInv
      PROVE  ServiceMatchesHandler
  <2>1. CASE stack = <<>>
    <3>1. isr = Base /\ Len(stack) = 0
      BY <1>1, <2>1 DEF ServiceInv
    <3>2. QED
      BY <3>1 DEF ServiceMatchesHandler, Base
  <2>2. CASE stack # <<>>
    <3>1. PICK f \in Frames : stack = <<f>>
      BY <1>1, <2>2 DEF FlagInv, OneFrame
    <3>2. stack[1] = f /\ Len(stack) = 1 /\ 1 .. 1 = {1}
      BY <3>1
    <3>3. isr = Base \union Held(f)
      BY <1>1, <3>1 DEF ServiceInv
    <3>4. f.irq \in 0 .. 15 /\ MasterBit(f.irq) \in 0 .. 15
      BY DEF Frames, MasterBit, Cascade
    <3>5. Held(f) = {l \in 0 .. 15 : /\ f.in_service
                                     /\ f.step # "acknowledged"
                                     /\ l \in {f.irq, MasterBit(f.irq)}}
      BY <3>4 DEF Held
    <3>6. QED
      BY <3>2, <3>3, <3>5 DEF ServiceMatchesHandler, Base
  <2>3. QED
    BY <2>1, <2>2
<1>2. QED
  BY <1>1, FlagsInductive, ServiceInductive, PTL
=============================================================================
