---------------------------- MODULE Ticks_proofs ----------------------------
(***************************************************************************)
(* No tick is lost, and a sleep lasts as long as it should, for every      *)
(* period of at least four moments; and what the main program prints in    *)
(* between is shown whole unless a handler prints into it, for every size  *)
(* of the screen and every text.                                           *)
(***************************************************************************)
EXTENDS Timer_proofs, Iteration, SequenceTheorems

\* The timer runs.
Up == pc \notin {"clear", "disable", "pic_init", "interrupt_init", "pit_init"}

\* The frame of the timer's handler, until it has counted.
Uncounted(f) == f.irq = 0 /\ f.step \in {"call", "count"}
Counting     == \E f \in Frames : stack = <<f>> /\ Uncounted(f)

\* The steps that the main program still does with interrupts disabled.
StepsLeft ==
  IF pc \in {"pic_enable", "load"} THEN 2
  ELSE IF pc \in {"enable", "sti"} THEN 1 ELSE 0

\* The periods that have passed and have not been counted yet.
Owed == (IF 0 \in irr THEN 1 ELSE 0) + (IF Counting THEN 1 ELSE 0)

Elapses == IF moved THEN 1 ELSE 0

\* The timer's line leads to the timer's handler and to nothing else, and no line
\* is masked once the loader is up.
RouteInv ==
  /\ irq_handlers \in [0 .. 15 -> Handlers]
  /\ Up => irq_handlers[0] = "pit"
  /\ \A l \in 1 .. 15 : irq_handlers[l] # "pit"
  /\ pc = "enable" \/ Booted => imr = {}
  /\ \A f \in Frames : stack = <<f>> /\ f.step = "count" => f.irq = 0

\* A request of the timer is taken before its next one: the moments that can pass
\* before the main program has to give way still fit in the period.  In front of
\* its reading of the ticks there is none but one that has just been made.
PeriodInv ==
  /\ moment \in 0 .. PeriodLength - 1 /\ moved \in BOOLEAN /\ periods \in Int
  /\ Up /\ 0 \in irr => moment + Elapses + StepsLeft < PeriodLength
  /\ pc = "load" /\ 0 \in irr => moment = 0 /\ ~moved
  /\ Up => periods = ticks + Owed

-----------------------------------------------------------------------------
(* Steps of the main program *)

\* What the main program does to the controllers, to the clock and to itself.
LEMMA MainEffects ==
  ASSUME Main
  PROVE  /\ stack = <<>> /\ stack' = <<>> /\ moved' = TRUE
         /\ int_flag => Pending = {}
         /\ UNCHANGED <<irr, imr>> \/ MainPicInit \/ MainPicEnable
         /\ UNCHANGED <<ticks, moment, periods>> \/ MainPitInit
         /\ UNCHANGED irq_handlers \/ MainInterruptInit \/ MainPitInit \/ MainRegister
<1> USE DEF Move, InHandler, interruptVars, cpuVars, picVars, worldVars, pitVars,
            printFrame, MainClear, MainDisable, MainPicInit, MainInterruptInit,
            MainPitInit, MainPicEnable, MainEnable, MainRegister, MainHalt,
            StartSleep, GetTicksWait, GetTicksDisable, GetTicksLoad, GetTicksEnable,
            SleepOn, SleepReturn, StartPrint, PrintFill, PrintWrite, PrintPlace,
            PrintPut, PrintNoMore, PrintEnd, InterruptDisable, InterruptEnable,
            PicInit, InterruptInit, PicEnable
<1>1. stack = <<>> /\ stack' = <<>> /\ moved' = TRUE /\ (int_flag => Pending = {})
  BY DEF Main
<1>2. UNCHANGED <<irr, imr>> \/ MainPicInit \/ MainPicEnable
  BY DEF Main
<1>3. UNCHANGED <<ticks, moment, periods>> \/ MainPitInit
  BY DEF Main
<1>4. UNCHANGED irq_handlers \/ MainInterruptInit \/ MainPitInit \/ MainRegister
  BY DEF Main
<1>5. QED
  BY <1>1, <1>2, <1>3, <1>4

\* Where it goes.
LEMMA MainPlaces ==
  ASSUME Main
  PROVE  /\ Up' => Up \/ MainPitInit
         /\ pc' = "enable" \/ Booted' => \/ pc = "enable" \/ Booted
                                         \/ MainPicEnable
         /\ pc \in {"pic_enable", "enable", "load", "sti"} =>
              StepsLeft' = StepsLeft - 1 /\ pc' # "load"
<1> USE DEF Move, MainClear, MainDisable, MainPicInit, MainInterruptInit,
            MainPitInit, MainPicEnable, MainEnable, MainRegister, MainHalt,
            StartSleep, GetTicksWait, GetTicksDisable, GetTicksLoad, GetTicksEnable,
            SleepOn, SleepReturn, StartPrint, PrintFill, PrintWrite, PrintPlace,
            PrintPut, PrintNoMore, PrintEnd
<1>1. Up' => Up \/ MainPitInit
  BY DEF Main, Up
<1>2. pc' = "enable" \/ Booted' => pc = "enable" \/ Booted \/ MainPicEnable
  BY DEF Main, Booted, Boot
<1>3. pc \in {"pic_enable", "enable", "load", "sti"} =>
        StepsLeft' = StepsLeft - 1 /\ pc' # "load"
  BY DEF Main, StepsLeft
<1>4. QED
  BY <1>1, <1>2, <1>3

\* While interrupts are enabled and none is due, the timer has none either.
LEMMA NothingLatched ==
  ASSUME FlagInv, ServiceInv, RouteInv, int_flag, Pending = {}
  PROVE  0 \notin irr
<1>1. stack = <<>> /\ Booted
  BY DEF FlagInv, InHandler, Booted
<1>2. isr \subseteq {Cascade} /\ imr = {}
  BY <1>1 DEF ServiceInv, Base, RouteInv
<1>3. MayInterrupt(0)
  BY <1>2 DEF MayInterrupt, Slave, MasterBit, Cascade
<1>4. QED
  BY <1>3 DEF Pending

LEMMA MainKeepsRoutes ==
  ASSUME RouteInv, Main
  PROVE  RouteInv'
<1>1. stack' = <<>>
  BY MainEffects
<1>2. \A f \in Frames : stack' # <<f>>
  BY <1>1
<1>3. pc' = "enable" \/ Booted' => imr' = {}
  <2>1. CASE MainPicInit
    BY <2>1 DEF MainPicInit, PicInit
  <2>2. CASE MainPicEnable
    BY <2>2 DEF MainPicEnable, PicEnable
  <2>3. CASE ~MainPicInit /\ ~MainPicEnable
    BY <2>3, MainEffects, MainPlaces DEF RouteInv
  <2>4. QED
    BY <2>1, <2>2, <2>3
<1>4. /\ irq_handlers' \in [0 .. 15 -> Handlers]
      /\ Up' => irq_handlers'[0] = "pit"
      /\ \A l \in 1 .. 15 : irq_handlers'[l] # "pit"
  <2>1. CASE MainInterruptInit
    BY <2>1 DEF MainInterruptInit, InterruptInit, Move, Up, Handlers
  <2>2. CASE MainPitInit
    BY <2>2 DEF MainPitInit, PitInit, RegisterIrq, RouteInv, Handlers
  <2>3. CASE MainRegister
    BY <2>3 DEF MainRegister, Move, Up, RouteInv, Handlers
  <2>4. CASE UNCHANGED irq_handlers /\ ~MainPitInit
    BY <2>4, MainPlaces DEF RouteInv
  <2>5. QED
    BY <2>1, <2>2, <2>3, <2>4, MainEffects
<1>5. QED
  BY <1>2, <1>3, <1>4 DEF RouteInv

LEMMA MainKeepsPeriods ==
  ASSUME FlagInv, ServiceInv, TickInv, RouteInv, PeriodInv, Main
  PROVE  PeriodInv'
<1>1. /\ stack = <<>> /\ stack' = <<>> /\ moved' = TRUE
      /\ int_flag => Pending = {}
      /\ ~MainPitInit => UNCHANGED <<ticks, moment, periods>>
  BY MainEffects
<1>2. ~Counting /\ ~Counting'
  BY <1>1 DEF Counting
<1>3. Elapses' = 1 /\ Elapses \in 0 .. 1
  BY <1>1, <1>2 DEF Elapses
<1>4. CASE MainPitInit
  <2>1. /\ moment' = 0 /\ ticks' = 0 /\ pc' = "pic_enable" /\ irr' = irr
        /\ periods' = IF 0 \in irr THEN 1 ELSE 0
    BY <1>4 DEF MainPitInit, PitInit, Move, picVars
  <2>2. StepsLeft' = 2 /\ Owed' = periods' /\ periods' \in Int
    BY <1>2, <2>1 DEF StepsLeft, Owed
  <2>3. PeriodLength \in Int /\ PeriodLength >= 4
    BY TimerConstants, PeriodIsLong
  <2>4. QED
    BY <1>1, <1>3, <2>1, <2>2, <2>3 DEF PeriodInv
<1>5. CASE MainPicInit
  <2>1. ~MainPitInit /\ ~Up' /\ pc' # "load"
    BY <1>5 DEF MainPicInit, MainPitInit, Move, Up
  <2>2. QED
    BY <1>1, <2>1 DEF PeriodInv
<1>6. CASE ~MainPitInit /\ ~MainPicInit
  <2>1. irr' = irr
    BY <1>6, MainEffects DEF MainPicEnable, PicEnable
  <2>2. Owed' = Owed /\ (Up' => Up)
    BY <1>2, <1>6, <2>1, MainPlaces DEF Owed
  <2>3. Up' => periods' = ticks' + Owed'
    BY <1>1, <1>3, <1>6, <2>2 DEF PeriodInv
  <2>4. /\ Up' /\ 0 \in irr' => moment' + Elapses' + StepsLeft' < PeriodLength
        /\ pc' = "load" /\ 0 \in irr' => moment' = 0 /\ ~moved'
    <3>1. CASE 0 \notin irr
      BY <2>1, <3>1
    <3>2. CASE 0 \in irr
      <4>1. ~int_flag
        BY <1>1, <3>2, NothingLatched
      <4>2. Up => pc \in {"pic_enable", "enable", "load", "sti"}
        BY <1>1, <4>1 DEF FlagInv, InHandler, Booted, Up, Boot
      <4>3. Up => StepsLeft' = StepsLeft - 1 /\ pc' # "load"
        BY <4>2, MainPlaces
      <4>4. Up => moment + Elapses + StepsLeft < PeriodLength
        BY <3>2 DEF PeriodInv
      <4>5. moment' = moment /\ moment \in Int /\ StepsLeft \in Int /\ PeriodLength \in Int
        BY <1>1, <1>6, TimerConstants DEF PeriodInv, StepsLeft
      <4>6. pc' = "load" => Up'
        BY DEF Up
      <4>7. QED
        BY <1>3, <2>2, <4>3, <4>4, <4>5, <4>6
    <3>3. QED
      BY <3>1, <3>2
  <2>5. QED
    BY <1>1, <1>6, <2>3, <2>4 DEF PeriodInv
<1>7. QED
  BY <1>4, <1>5, <1>6

-----------------------------------------------------------------------------
(* Steps of the handlers *)

\* An interrupt is taken: the frame it pushes is alone, and is the timer's if its
\* line is.
LEMMA EnterCounts ==
  ASSUME FlagInv, RouteInv, PeriodInv, int_flag,
         NEW irq \in 0 .. 15, NEW in_service \in BOOLEAN,
         Enter(irq, in_service),
         0 \in irr' => 0 \in irr,
         irq = 0 <=> 0 \in irr /\ 0 \notin irr',
         UNCHANGED <<ticks, pc, moment, moved, periods>>
  PROVE  RouteInv' /\ PeriodInv'
<1> DEFINE g == [irq |-> irq, in_service |-> in_service, step |-> "call",
                 flag |-> int_flag]
<1>1. stack = <<>>
  BY DEF FlagInv, InHandler
<1>2. stack' = <<g>> /\ g \in Frames
  BY <1>1 DEF Enter, Frames, Steps, FlagInv
<1>3. g.irq = irq /\ g.step = "call"
  OBVIOUS
<1> HIDE DEF g
<1>4. \A h \in Frames : stack' = <<h>> <=> h = g
  BY <1>2
<1>5. ~Counting /\ (Counting' <=> irq = 0)
  BY <1>1, <1>2, <1>3, <1>4 DEF Counting, Uncounted
<1>6. Owed' = Owed
  BY <1>5 DEF Owed
<1>7. Up' => periods' = ticks' + Owed'
  BY <1>6 DEF PeriodInv, Up
<1>8. /\ moment' = moment /\ moved' = moved /\ pc' = pc /\ periods' = periods
      /\ Elapses' = Elapses /\ StepsLeft' = StepsLeft
  BY DEF Elapses, StepsLeft
<1>9. PeriodInv'
  BY <1>7, <1>8 DEF PeriodInv, Up
<1>10. RouteInv'
  <2>1. \A f \in Frames : stack' = <<f>> => f.step # "count"
    BY <1>3, <1>4
  <2>2. imr' = imr /\ irq_handlers' = irq_handlers /\ pc' = pc
    BY DEF Enter
  <2>3. QED
    BY <2>1, <2>2 DEF RouteInv, Up, Booted
<1>11. QED
  BY <1>9, <1>10

\* A handler goes on without counting the timer's period, or uncounting it.
LEMMA GotoCounts ==
  ASSUME FlagInv, RouteInv, PeriodInv, InHandler, NEW step \in Steps, Goto(step),
         Head(stack).irq = 0 =>
           (Head(stack).step \in {"call", "count"} <=> step \in {"call", "count"}),
         step = "count" => Head(stack).irq = 0,
         UNCHANGED <<irr, imr, irq_handlers, pc, ticks, moment, moved, periods>>
  PROVE  RouteInv' /\ PeriodInv'
<1>1. PICK f \in Frames : stack = <<f>>
  BY DEF FlagInv, OneFrame, InHandler
<1> DEFINE g == [f EXCEPT !.step = step]
<1>2. stack' = <<g>> /\ g \in Frames
  BY <1>1, GotoFrame
<1>3. g.irq = f.irq /\ g.step = step /\ Head(stack) = f
  BY <1>1 DEF Frames
<1> HIDE DEF g
<1>4. \A h \in Frames : (stack' = <<h>> <=> h = g) /\ (stack = <<h>> <=> h = f)
  BY <1>1, <1>2
<1>5. Counting' = Counting
  <2>1. Counting <=> Uncounted(f)
    BY <1>1, <1>4 DEF Counting
  <2>2. Counting' <=> Uncounted(g)
    BY <1>2, <1>4 DEF Counting, Uncounted
  <2>3. Uncounted(f) <=> Uncounted(g)
    BY <1>3 DEF Uncounted
  <2>4. QED
    BY <2>1, <2>2, <2>3 DEF Counting
<1>6. Owed' = Owed
  BY <1>5 DEF Owed
<1>7. Elapses' = Elapses /\ StepsLeft' = StepsLeft /\ Up' = Up
  BY DEF Elapses, StepsLeft, Up
<1>8. PeriodInv'
  BY <1>6, <1>7 DEF PeriodInv
<1>9. RouteInv'
  BY <1>3, <1>4, <1>7 DEF RouteInv, Booted
<1>10. QED
  BY <1>8, <1>9

\* The second step of pit_handler counts what its frame owed.
LEMMA CountCounts ==
  ASSUME FlagInv, TickInv, RouteInv, PeriodInv, PitHandlerCount
  PROVE  RouteInv' /\ PeriodInv'
<1>1. PICK f \in Frames : stack = <<f>>
  BY DEF FlagInv, OneFrame, InHandler, PitHandlerCount
<1>2. /\ f.step = "count" /\ Goto("done") /\ ticks' = ticks + 1
      /\ UNCHANGED <<irr, imr, irq_handlers, pc, moment, moved, periods>>
  BY <1>1 DEF PitHandlerCount, inHandlerFrame, picVars, mainVars, worldVars
<1> DEFINE g == [f EXCEPT !.step = "done"]
<1>3. stack' = <<g>> /\ g \in Frames
  BY <1>1, <1>2, GotoFrame DEF Steps
<1>4. g.step = "done"
  BY DEF Frames
<1> HIDE DEF g
<1>5. \A h \in Frames : stack' = <<h>> <=> h = g
  BY <1>3
<1>6. Counting /\ ~Counting'
  <2>1. f.irq = 0
    BY <1>1, <1>2 DEF RouteInv
  <2>2. Counting
    BY <1>1, <1>2, <2>1 DEF Counting, Uncounted
  <2>3. ~Counting'
    BY <1>4, <1>5 DEF Counting, Uncounted
  <2>4. QED
    BY <2>2, <2>3
<1>7. Owed' = Owed - 1 /\ Owed \in Int
  BY <1>2, <1>6 DEF Owed
<1>8. Elapses' = Elapses /\ StepsLeft' = StepsLeft /\ Up' = Up
  BY <1>2 DEF Elapses, StepsLeft, Up
<1>9. Up' => periods' = ticks' + Owed'
  BY <1>2, <1>7, <1>8 DEF PeriodInv, TickInv
<1>10. PeriodInv'
  BY <1>2, <1>8, <1>9 DEF PeriodInv
<1>11. RouteInv'
  BY <1>2, <1>4, <1>5, <1>8 DEF RouteInv, Booted
<1>12. QED
  BY <1>10, <1>11

\* iretq pops a frame that owes nothing.
LEMMA LeaveCounts ==
  ASSUME FlagInv, RouteInv, PeriodInv, LeaveIrq
  PROVE  RouteInv' /\ PeriodInv'
<1>1. PICK f \in Frames : stack = <<f>>
  BY DEF FlagInv, OneFrame, InHandler, LeaveIrq, ReturnFromIrq
<1>2. /\ f.step = "acknowledged" /\ stack' = <<>>
      /\ UNCHANGED <<irr, imr, irq_handlers, pc, ticks, moment, moved, periods>>
  BY <1>1 DEF LeaveIrq, ReturnFromIrq, irqFrame, picVars, mainVars, pitVars, worldVars
<1>3. \A h \in Frames : stack' # <<h>> /\ (stack = <<h>> <=> h = f)
  BY <1>1, <1>2
<1>4. ~Counting /\ ~Counting'
  BY <1>2, <1>3 DEF Counting, Uncounted
<1>5. Owed' = Owed
  BY <1>2, <1>4 DEF Owed
<1>6. Elapses' = Elapses /\ StepsLeft' = StepsLeft /\ Up' = Up
  BY <1>2 DEF Elapses, StepsLeft, Up
<1>7. PeriodInv'
  BY <1>2, <1>5, <1>6 DEF PeriodInv
<1>8. RouteInv'
  BY <1>2, <1>3, <1>6 DEF RouteInv, Booted
<1>9. QED
  BY <1>7, <1>8

LEMMA HandlerKeepsPeriods ==
  ASSUME FlagInv, TickInv, RouteInv, PeriodInv, Handler
  PROVE  RouteInv' /\ PeriodInv'
<1> DEFINE Still == UNCHANGED <<pc, ticks, moment, moved, periods>>
<1>1. CASE TakeInterrupt
  <2>1. PICK line \in Lines : Deliver(line)
    BY <1>1 DEF TakeInterrupt
  <2>2. Still
    BY <1>1 DEF TakeInterrupt, mainVars, pitVars, worldVars
  <2>3. line \in 0 .. 15 /\ line \in irr
    BY <2>1, LineNumbers DEF Deliver, Foremost, Pending
  <2>4. int_flag /\ Enter(line, TRUE) /\ irr' = irr \ {line}
    BY <2>1 DEF Deliver
  <2>5. (0 \in irr' => 0 \in irr) /\ (line = 0 <=> 0 \in irr /\ 0 \notin irr')
    BY <2>3, <2>4
  <2>6. QED
    BY <2>2, <2>3, <2>4, <2>5, EnterCounts
<1>2. CASE TakeSpurious
  <2>1. PICK line \in Lines : DeliverSpurious(line)
    BY <1>2 DEF TakeSpurious
  <2>2. Still
    BY <1>2 DEF TakeSpurious, mainVars, pitVars
  <2> DEFINE irq == IF Slave(line) THEN 15 ELSE 7
  <2>3. line # 0 /\ irq \in 0 .. 15 /\ irq # 0
    BY <2>1, WithdrawableLines DEF DeliverSpurious
  <2>4. int_flag /\ Enter(irq, FALSE) /\ irr' = irr \ {line}
    BY <2>1 DEF DeliverSpurious
  <2> HIDE DEF irq
  <2>5. (0 \in irr' => 0 \in irr) /\ (irq = 0 <=> 0 \in irr /\ 0 \notin irr')
    BY <2>3, <2>4
  <2>6. QED
    BY <2>2, <2>3, <2>4, <2>5, EnterCounts
<1>3. CASE PitHandlerMark
  <2>1. /\ InHandler /\ Head(stack).step = "call" /\ Goto("count")
        /\ irq_handlers[Head(stack).irq] = "pit"
        /\ Still /\ UNCHANGED <<irr, imr, irq_handlers>>
    BY <1>3 DEF PitHandlerMark, Calls, inHandlerFrame, picVars, mainVars, worldVars
  <2>2. Head(stack).irq \in 0 .. 15
    BY <2>1 DEF FlagInv, OneFrame, InHandler, Frames
  <2>3. Head(stack).irq = 0
    BY <2>1, <2>2 DEF RouteInv
  <2>4. QED
    BY <2>1, <2>3, GotoCounts DEF Steps
<1>4. CASE PitHandlerCount
  BY <1>4, CountCounts
<1>5. ASSUME NEW handler \in {"ata", "none"}, Calls(handler), Goto("done"),
             Still, UNCHANGED <<irr, imr, irq_handlers>>
      PROVE  RouteInv' /\ PeriodInv'
  <2>1. InHandler /\ irq_handlers[Head(stack).irq] = handler
    BY <1>5 DEF Calls
  <2>2. irq_handlers[0] = "pit"
    BY <2>1 DEF FlagInv, InHandler, Booted, Boot, Up, RouteInv
  <2>3. Head(stack).irq # 0
    BY <2>1, <2>2
  <2>4. QED
    BY <1>5, <2>1, <2>3, GotoCounts DEF Steps
<1>6. CASE AtaHandler
  BY <1>5, <1>6 DEF AtaHandler, inHandlerFrame, picVars, mainVars, pitVars, worldVars
<1>7. CASE PrintIrq
  BY <1>5, <1>7 DEF PrintIrq, inHandlerFrame, picVars, mainVars, pitVars, worldVars
<1>8. CASE AcknowledgeIrq
  <2>1. /\ InHandler /\ Head(stack).step = "done" /\ Goto("acknowledged")
        /\ Still /\ UNCHANGED <<irr, imr, irq_handlers>>
    BY <1>8 DEF AcknowledgeIrq, Acknowledge, irqFrame, mainVars, pitVars, worldVars
  <2>2. QED
    BY <2>1, GotoCounts DEF Steps
<1>9. CASE LeaveIrq
  BY <1>9, LeaveCounts
<1>10. QED
  BY <1>1, <1>2, <1>3, <1>4, <1>6, <1>7, <1>8, <1>9 DEF Handler

-----------------------------------------------------------------------------
(* The clock and the devices *)

LEMMA ClockKeepsPeriods ==
  ASSUME TickInv, RouteInv, PeriodInv, Clock
  PROVE  PeriodInv'
<1>1. /\ moved /\ moved' = FALSE /\ moment' = (moment + 1) % PeriodLength
      /\ UNCHANGED <<pc, ticks, stack>>
      /\ IF moment' = 0 THEN irr' = irr \union {0} /\ periods' = periods + 1
                        ELSE irr' = irr /\ periods' = periods
  BY DEF Clock, Raise, interruptVars, cpuVars, picVars, pitVars
<1>2. Elapses = 1 /\ Elapses' = 0 /\ Up' = Up /\ Counting' = Counting
  BY <1>1 DEF Elapses, Up, Counting
<1>3. StepsLeft' = StepsLeft /\ StepsLeft \in 0 .. 2
  BY <1>1 DEF StepsLeft
<1>4. PeriodLength \in Nat /\ PeriodLength >= 4 /\ moment \in 0 .. PeriodLength - 1
  BY TimerConstants, PeriodIsLong DEF PeriodInv
<1>5. CASE moment = PeriodLength - 1
  <2>1. moment' = 0
    BY <1>1, <1>4, <1>5
  <2>2. irr' = irr \union {0} /\ periods' = periods + 1
    BY <1>1, <2>1
  <2>3. Up => 0 \notin irr
    BY <1>2, <1>3, <1>4, <1>5 DEF PeriodInv
  <2>4. Up => Owed' = Owed + 1 /\ Owed \in Int
    BY <1>2, <2>2, <2>3 DEF Owed
  <2>5. Up => periods' = ticks' + Owed'
    BY <1>1, <2>2, <2>4 DEF PeriodInv, TickInv
  <2>6. moment' + Elapses' + StepsLeft' < PeriodLength
    BY <1>2, <1>3, <1>4, <2>1
  <2>7. moment' \in 0 .. PeriodLength - 1 /\ periods' \in Int
    BY <1>4, <2>1, <2>2 DEF PeriodInv
  <2>8. QED
    BY <1>1, <1>2, <2>1, <2>5, <2>6, <2>7 DEF PeriodInv
<1>6. CASE moment # PeriodLength - 1
  <2>1. moment' = moment + 1 /\ moment + 1 \in 1 .. PeriodLength - 1
    BY <1>1, <1>4, <1>6
  <2>2. irr' = irr /\ periods' = periods
    BY <1>1, <1>4, <2>1
  <2>3. Owed' = Owed
    BY <1>2, <2>2 DEF Owed
  <2>4. pc' = "load" => 0 \notin irr'
    BY <1>1, <1>2, <1>3, <1>4, <1>6, <2>2 DEF PeriodInv
  <2>5. Up' /\ 0 \in irr' => moment' + Elapses' + StepsLeft' < PeriodLength
    BY <1>2, <1>3, <1>4, <2>1, <2>2 DEF PeriodInv
  <2>6. Up' => periods' = ticks' + Owed'
    BY <1>1, <1>2, <2>2, <2>3 DEF PeriodInv
  <2>7. moment' \in 0 .. PeriodLength - 1 /\ periods' \in Int
    BY <1>4, <2>1, <2>2 DEF PeriodInv
  <2>8. QED
    BY <1>1, <2>4, <2>5, <2>6, <2>7 DEF PeriodInv
<1>7. QED
  BY <1>5, <1>6

\* The devices do not touch the timer's line.
LEMMA DeviceKeepsPeriods ==
  ASSUME PeriodInv, Device \/ UNCHANGED vars
  PROVE  PeriodInv'
<1>1. UNCHANGED <<pc, ticks, stack, moment, moved, periods>>
  BY DEF Device, Raise, vars, interruptVars, cpuVars, mainVars, pitVars, worldVars
<1>2. 0 \in irr' <=> 0 \in irr
  <2>1. CASE Device
    <3>1. PICK line \in Lines \ {0} : irr' = irr \union {line}
      BY <2>1 DEF Device, Raise
    <3>2. QED
      BY <3>1
  <2>2. CASE UNCHANGED vars
    BY <2>2 DEF vars, interruptVars, picVars
  <2>3. QED
    BY <2>1, <2>2
<1>3. /\ Owed' = Owed /\ Elapses' = Elapses /\ StepsLeft' = StepsLeft /\ Up' = Up
  BY <1>1, <1>2 DEF Owed, Counting, Elapses, StepsLeft, Up
<1>4. QED
  BY <1>1, <1>2, <1>3 DEF PeriodInv

LEMMA WorldKeepsRoutes ==
  ASSUME RouteInv, Clock \/ Device \/ UNCHANGED vars
  PROVE  RouteInv'
<1>1. UNCHANGED <<irq_handlers, imr, pc, stack>>
  BY DEF Clock, Device, Raise, vars, interruptVars, cpuVars, picVars, mainVars
<1>2. QED
  BY <1>1 DEF RouteInv, Up, Booted

LEMMA TicksInductive ==
  Spec => []TickInv
<1>1. Init => TickInv
  BY DEF Init, TickInv, Sleep
<1>2. TickInv /\ [Next]_vars => TickInv'
  BY MainTicks, OtherTicks DEF Next
<1>3. QED
  BY <1>1, <1>2, PTL DEF Spec

LEMMA PeriodsInductive ==
  Spec => [](RouteInv /\ PeriodInv)
<1> DEFINE PInv == RouteInv /\ PeriodInv
<1>1. ASSUME Init PROVE PInv
  <2>1. /\ pc = "clear" /\ stack = <<>> /\ moment = 0 /\ moved = FALSE /\ periods = 0
        /\ irq_handlers = [line \in 0 .. 15 |-> "none"]
    BY <1>1 DEF Init
  <2>2. ~Up /\ ~Booted /\ \A f \in Frames : stack # <<f>>
    BY <2>1 DEF Up, Booted, Boot
  <2>3. RouteInv
    BY <2>1, <2>2 DEF RouteInv, Handlers
  <2>4. 0 \in 0 .. PeriodLength - 1
    BY TimerConstants, PeriodIsLong
  <2>5. PeriodInv
    <3>1. moment \in 0 .. PeriodLength - 1 /\ periods \in Int
      BY <2>1, <2>4
    <3>2. moved \in BOOLEAN
      BY <2>1
    <3>3. QED
      BY <2>1, <2>2, <3>1, <3>2 DEF PeriodInv
  <2>6. QED
    BY <2>3, <2>5
<1>2. FlagInv /\ ServiceInv /\ TickInv /\ PInv /\ [Next]_vars => PInv'
  <2> SUFFICES ASSUME FlagInv, ServiceInv, TickInv, PInv, [Next]_vars PROVE PInv'
    OBVIOUS
  <2>1. CASE Main
    BY <2>1, MainKeepsRoutes, MainKeepsPeriods
  <2>2. CASE Handler
    BY <2>2, HandlerKeepsPeriods
  <2>3. CASE Clock
    BY <2>3, WorldKeepsRoutes, ClockKeepsPeriods
  <2>4. CASE Device \/ UNCHANGED vars
    BY <2>4, WorldKeepsRoutes, DeviceKeepsPeriods
  <2>5. QED
    BY <2>1, <2>2, <2>3, <2>4 DEF Next
<1>3. QED
  BY <1>1, <1>2, FlagsInductive, ServiceInductive, TicksInductive, PTL DEF Spec

\* Theorem.  No tick is lost and none is counted twice: every period that has passed
\* since pit_init is counted, latched, or in the hands of pit_handler.
THEOREM TicksStayKept ==
  Spec => []TicksKept
<1>1. ASSUME FlagInv, TickInv, PeriodInv PROVE TicksKept
  <2> DEFINE Handled == \E i \in 1 .. Len(stack) :
                          stack[i].irq = 0 /\ stack[i].step \in {"call", "count"}
  <2>1. Counting <=> Handled
    <3>1. CASE stack = <<>>
      BY <3>1 DEF Counting
    <3>2. CASE stack # <<>>
      <4>1. PICK f \in Frames : stack = <<f>>
        BY <1>1, <3>2 DEF FlagInv, OneFrame
      <4>2. Len(stack) = 1 /\ stack[1] = f /\ 1 .. 1 = {1}
        BY <4>1
      <4>3. Handled <=> Uncounted(f)
        BY <4>2 DEF Uncounted
      <4>4. Counting <=> Uncounted(f)
        BY <4>1 DEF Counting
      <4>5. QED
        BY <4>3, <4>4
    <3>3. QED
      BY <3>1, <3>2
  <2> DEFINE latched == IF 0 \in irr THEN 1 ELSE 0
  <2>2. Owed = latched + (IF Handled THEN 1 ELSE 0)
    BY <2>1 DEF Owed
  <2>3. TicksKept <=> (Up => periods = ticks + latched + (IF Handled THEN 1 ELSE 0))
    BY DEF TicksKept, Up
  <2>4. Up => periods = ticks + Owed
    BY <1>1 DEF PeriodInv
  <2> HIDE DEF Handled
  <2>5. CASE ~Up
    BY <2>3, <2>5
  <2>6. CASE Up
    <3>1. ticks \in Int /\ latched \in Int
      BY <1>1 DEF TickInv
    <3>2. QED
      BY <2>2, <2>3, <2>4, <2>6, <3>1
  <2>7. QED
    BY <2>5, <2>6
<1>2. QED
  BY <1>1, FlagsInductive, TicksInductive, PeriodsInductive, PTL

-----------------------------------------------------------------------------
(* How long a sleep lasts *)

\* The moments that have passed since pit_init, but for those that had passed when
\* sleep read its first tick: it read ticks, so these were less than ticks + 1
\* periods, or just so many.
SleepInv ==
  /\ slept \in Nat
  /\ pc \in Sleep /\ tick_start # -1 =>
       periods * PeriodLength + moment <= slept + (tick_start + 1) * PeriodLength

\* Multiplication by the length of a period.
LEMMA Products ==
  ASSUME NEW m \in Int, NEW k \in Int, NEW n \in Nat
  PROVE  /\ m * n \in Int
         /\ (m + 1) * n = m * n + n
         /\ (m + k) * n = m * n + k * n
         /\ (k - 1) * n = k * n - n
         /\ m <= k => m * n <= k * n
<1>1. m * n \in Int
  OBVIOUS
<1>2. (m + 1) * n = m * n + n
  OBVIOUS
<1>3. (m + k) * n = m * n + k * n
  OBVIOUS
<1>4. (k - 1) * n = k * n - n
  OBVIOUS
<1>5. m <= k => m * n <= k * n
  OBVIOUS
<1>6. QED
  BY <1>1, <1>2, <1>3, <1>4, <1>5

LEMMA FirstReading ==
  ASSUME TickInv, PeriodInv, SleepInv, GetTicksLoad
  PROVE  SleepInv'
<1>1. /\ stack = <<>> /\ pc = "load" /\ pc' = "sti"
      /\ UNCHANGED <<periods, moment, irr, ticks>>
      /\ tick_start' = (IF tick_start = -1 THEN ticks ELSE tick_start)
      /\ slept' = (IF tick_start = -1 THEN 0 ELSE slept)
  BY DEF GetTicksLoad, Move, InHandler, interruptVars, picVars, worldVars, pitVars
<1>2. CASE tick_start # -1
  BY <1>1, <1>2 DEF SleepInv, Sleep
<1>3. CASE tick_start = -1
  <2>1. ~Counting /\ Up
    BY <1>1 DEF Counting, Up
  <2>2. /\ periods = ticks + Owed /\ ticks \in Nat /\ periods \in Int
        /\ moment \in 0 .. PeriodLength - 1
        /\ 0 \in irr => moment = 0
    BY <1>1, <2>1 DEF PeriodInv, TickInv
  <2>3. Owed = IF 0 \in irr THEN 1 ELSE 0
    BY <2>1 DEF Owed
  <2> DEFINE passed == periods * PeriodLength
             read   == ticks * PeriodLength
             limit  == (ticks + 1) * PeriodLength
  <2>4. PeriodLength \in Nat
    BY TimerConstants
  <2>5. passed \in Int /\ read \in Int /\ limit = read + PeriodLength
    BY <2>2, <2>4, Products
  <2>6. passed + moment <= limit
    <3>1. CASE 0 \in irr
      <4>1. periods = ticks + 1 /\ moment = 0
        BY <2>2, <2>3, <3>1
      <4>2. passed = limit
        BY <4>1
      <4> HIDE DEF passed, read, limit
      <4>3. QED
        BY <2>4, <2>5, <4>1, <4>2
    <3>2. CASE 0 \notin irr
      <4>1. periods = ticks
        BY <2>2, <2>3, <3>2
      <4>2. passed = read
        BY <4>1
      <4> HIDE DEF passed, read, limit
      <4>3. QED
        BY <2>2, <2>4, <2>5, <4>2
    <3>3. QED
      BY <3>1, <3>2
  <2>7. slept' = 0 /\ tick_start' = ticks
    BY <1>1, <1>3
  <2>8. periods' * PeriodLength + moment' <= slept' + (tick_start' + 1) * PeriodLength
    <3>1. 0 + limit = limit
      BY <2>4, <2>5
    <3>2. QED
      BY <1>1, <2>6, <2>7, <3>1
  <2>9. QED
    BY <2>7, <2>8 DEF SleepInv
<1>4. QED
  BY <1>2, <1>3

LEMMA MainKeepsSleep ==
  ASSUME TickInv, PeriodInv, SleepInv, Main
  PROVE  SleepInv'
<1>1. CASE GetTicksLoad
  BY <1>1, FirstReading
<1>2. CASE SleepReturn
  <2>1. slept' = 0 /\ pc' \notin Sleep
    BY <1>2 DEF SleepReturn, Move, Sleep
  <2>2. QED
    BY <2>1 DEF SleepInv
<1>3. CASE ~GetTicksLoad /\ ~SleepReturn
  <2>1. UNCHANGED <<slept, tick_start>>
    BY <1>3 DEF Main, sleepVars, printFrame, MainClear, MainDisable, MainPicInit,
         MainInterruptInit, MainPitInit, MainPicEnable, MainEnable, MainRegister,
         MainHalt, StartSleep, GetTicksWait, GetTicksDisable, GetTicksEnable, SleepOn,
         StartPrint, PrintFill, PrintWrite, PrintPlace, PrintPut, PrintNoMore, PrintEnd
  <2>2. pc' \in Sleep /\ tick_start # -1 => pc \in Sleep
    BY <1>3 DEF Main, Move, Sleep, TickInv, MainClear, MainDisable, MainPicInit,
         MainInterruptInit, MainPitInit, MainPicEnable, MainEnable, MainRegister,
         MainHalt, StartSleep, GetTicksWait, GetTicksDisable, GetTicksEnable, SleepOn,
         StartPrint, PrintFill, PrintWrite, PrintPlace, PrintPut, PrintNoMore, PrintEnd
  <2>3. CASE MainPitInit
    <3>1. pc' \notin Sleep
      BY <2>3 DEF MainPitInit, Move, Sleep
    <3>2. QED
      BY <2>1, <3>1 DEF SleepInv
  <2>4. CASE ~MainPitInit
    <3>1. UNCHANGED <<moment, periods>>
      BY <2>4, MainEffects
    <3>2. QED
      BY <2>1, <2>2, <3>1 DEF SleepInv
  <2>5. QED
    BY <2>3, <2>4
<1>4. QED
  BY <1>1, <1>2, <1>3

LEMMA ClockKeepsSleep ==
  ASSUME TickInv, PeriodInv, SleepInv, Clock
  PROVE  SleepInv'
<1> DEFINE asleep == pc \in Sleep /\ tick_start # -1
           passed == periods * PeriodLength
           limit  == (tick_start + 1) * PeriodLength
<1>1. /\ UNCHANGED <<pc, tick_start>>
      /\ moment' = (moment + 1) % PeriodLength
      /\ slept' = (IF asleep THEN slept + 1 ELSE slept)
      /\ periods' = (IF moment' = 0 THEN periods + 1 ELSE periods)
  BY DEF Clock
<1>2. /\ PeriodLength \in Nat /\ PeriodLength >= 4
      /\ moment \in 0 .. PeriodLength - 1 /\ periods \in Int /\ tick_start \in Int
      /\ slept \in Nat
      /\ asleep => passed + moment <= slept + limit
  BY TimerConstants, PeriodIsLong DEF PeriodInv, TickInv, SleepInv
<1>3. slept' \in Nat
  BY <1>1, <1>2
<1>4. passed \in Int /\ limit \in Int
  BY <1>2, Products
<1>5. periods' * PeriodLength + moment' = passed + moment + 1
  <2>1. CASE moment = PeriodLength - 1
    <3>1. moment' = 0
      BY <1>1, <1>2, <2>1
    <3>2. periods' = periods + 1
      BY <1>1, <3>1
    <3>3. periods' * PeriodLength = passed + PeriodLength
      BY <1>2, <3>2, Products
    <3> HIDE DEF passed
    <3>4. QED
      BY <1>2, <1>4, <2>1, <3>1, <3>3
  <2>2. CASE moment # PeriodLength - 1
    <3>1. moment' = moment + 1 /\ moment + 1 # 0
      BY <1>1, <1>2, <2>2
    <3>2. periods' = periods
      BY <1>1, <3>1
    <3>3. periods' * PeriodLength = passed
      BY <3>2
    <3> HIDE DEF passed
    <3>4. QED
      BY <1>2, <1>4, <3>1, <3>3
  <2>3. QED
    BY <2>1, <2>2
<1>6. asleep => periods' * PeriodLength + moment' <= slept' + limit
  <2> DEFINE later == periods' * PeriodLength + moment'
  <2>1. later = passed + moment + 1
    BY <1>5
  <2> HIDE DEF passed, limit, later
  <2>2. asleep => later <= slept' + limit
    BY <1>1, <1>2, <1>4, <2>1
  <2>3. QED
    BY <2>2 DEF later
<1>7. QED
  BY <1>1, <1>3, <1>6 DEF SleepInv

LEMMA OthersKeepSleep ==
  ASSUME SleepInv, Handler \/ Device \/ UNCHANGED vars
  PROVE  SleepInv'
<1>1. UNCHANGED <<pc, tick_start, slept, periods, moment>>
  <2>1. CASE Handler
    BY <2>1 DEF Handler, TakeInterrupt, TakeSpurious, PitHandlerMark, PitHandlerCount,
         AtaHandler, PrintIrq, AcknowledgeIrq, LeaveIrq, irqFrame, inHandlerFrame,
         mainVars, worldVars
  <2>2. CASE Device \/ UNCHANGED vars
    BY <2>2 DEF Device, vars, mainVars, worldVars
  <2>3. QED
    BY <2>1, <2>2
<1>2. QED
  BY <1>1 DEF SleepInv

LEMMA SleepsInductive ==
  Spec => []SleepInv
<1>1. Init => SleepInv
  BY DEF Init, SleepInv, Sleep
<1>2. TickInv /\ PeriodInv /\ SleepInv /\ [Next]_vars => SleepInv'
  BY MainKeepsSleep, ClockKeepsSleep, OthersKeepSleep DEF Next
<1>3. QED
  BY <1>1, <1>2, TicksInductive, PeriodsInductive, PTL DEF Spec

\* Theorem.  A sleep of n ticks lasts at least n - 1 periods from its first reading
\* of the ticks.
THEOREM SleepStaysLong ==
  Spec => []SleepLasts
<1>1. ASSUME TickInv, PeriodInv, SleepInv, pc = "check", Slept
      PROVE  slept >= (tick_count - 1) * PeriodLength
  <2> DEFINE passed  == periods * PeriodLength
             started == tick_start * PeriodLength
             asked   == tick_count * PeriodLength
             due     == (tick_start + tick_count) * PeriodLength
  <2>1. /\ tick_start \in Nat /\ tick_count \in Nat /\ ticks \in Nat /\ tick \in Nat
        /\ tick <= ticks
    BY <1>1 DEF TickInv
  <2>2. /\ periods \in Int /\ moment \in Nat /\ slept \in Nat /\ PeriodLength \in Nat
        /\ periods >= ticks
    <3>1. Owed \in Nat /\ Up
      BY <1>1 DEF Owed, Up
    <3>2. periods = ticks + Owed
      BY <1>1, <3>1 DEF PeriodInv
    <3>3. PeriodLength \in Nat /\ moment \in 0 .. PeriodLength - 1 /\ slept \in Nat
      BY <1>1, TimerConstants DEF PeriodInv, SleepInv
    <3>4. QED
      BY <2>1, <3>1, <3>2, <3>3
  <2>3. tick_start + tick_count <= periods /\ tick_start + tick_count \in Int
    BY <1>1, <2>1, <2>2 DEF Slept
  <2>4. due <= passed
    BY <2>2, <2>3, Products
  <2>5. due = started + asked /\ started \in Int /\ asked \in Int /\ passed \in Int
    BY <2>1, <2>2, Products
  <2>6. /\ (tick_start + 1) * PeriodLength = started + PeriodLength
        /\ (tick_count - 1) * PeriodLength = asked - PeriodLength
    BY <2>1, <2>2, Products
  <2>7. passed + moment <= slept + (started + PeriodLength)
    BY <1>1, <2>1, <2>6 DEF SleepInv, Sleep
  <2> HIDE DEF passed, started, asked, due
  <2>8. slept >= asked - PeriodLength
    BY <2>2, <2>4, <2>5, <2>7
  <2>9. QED
    BY <2>6, <2>8 DEF asked
<1>2. TickInv /\ PeriodInv /\ SleepInv => SleepLasts
  BY <1>1 DEF SleepLasts
<1>3. QED
  BY <1>2, TicksInductive, PeriodsInductive, SleepsInductive, PTL

-----------------------------------------------------------------------------
(* The text screen *)

\* Where the cursor may be between two steps.
Cursors == (0 .. Columns) \X (0 .. Rows + 1)

\* Placed puts the cursor on the screen.
LEMMA PlacedOnScreen ==
  ASSUME NEW c \in Cursors
  PROVE  Placed(c) \in (0 .. Columns - 1) \X (0 .. Rows - 1)
<1>1. Columns \in Nat \ {0} /\ Rows \in Nat \ {0}
  BY ScreenSize
<1>2. Wrapped(c) \in (0 .. Columns - 1) \X (0 .. Rows + 2)
  BY <1>1 DEF Cursors, Wrapped
<1>3. \A d \in (0 .. Columns - 1) \X (0 .. Rows + 2) :
         Clamped(d) \in (0 .. Columns - 1) \X (0 .. Rows - 1)
  BY <1>1 DEF Clamped
<1>4. QED
  BY <1>2, <1>3 DEF Placed

\* After at least one character the cursor is on a row of the screen.
LEMMA AfterOnScreen ==
  ASSUME NEW c \in Cursors, NEW n \in Nat, n # 0
  PROVE  After(c, n)[2] \in 0 .. Rows - 1
<1> DEFINE F == [p \in Cursors |-> <<Placed(p)[1] + 1, Placed(p)[2]>>]
           Walk(f) == f = [k \in 0 .. n |->
                             IF k = 0 THEN c
                             ELSE <<Placed(f[k - 1])[1] + 1, Placed(f[k - 1])[2]>>]
           after == CHOOSE f : Walk(f)
<1>1. After(c, n) = after[n]
  BY DEF After
<1>2. \A p \in Cursors : /\ <<Placed(p)[1] + 1, Placed(p)[2]>> \in Cursors
                         /\ Placed(p)[2] \in 0 .. Rows - 1
  BY PlacedOnScreen, ScreenSize DEF Cursors
<1>3. F \in [Cursors -> Cursors]
  BY <1>2
<1>4. \E f : Walk(f)
  <2>1. PICK f \in [0 .. n -> Cursors] : Iterates(f, F, c, n)
    <3> HIDE DEF F
    <3>1. QED
      BY <1>3, IteratesExist
  <2>2. ASSUME NEW k \in 1 .. n
        PROVE  f[k] = <<Placed(f[k - 1])[1] + 1, Placed(f[k - 1])[2]>>
    <3>1. f[k - 1] \in Cursors
      BY <2>2
    <3>2. F[f[k - 1]] = <<Placed(f[k - 1])[1] + 1, Placed(f[k - 1])[2]>>
      BY <3>1
    <3>3. QED
      BY <2>1, <3>2 DEF Iterates
  <2>3. Walk(f)
    <3>1. f[0] = c
      BY <2>1 DEF Iterates
    <3> DEFINE e(k) == IF k = 0 THEN c
                       ELSE <<Placed(f[k - 1])[1] + 1, Placed(f[k - 1])[2]>>
    <3>2. ASSUME NEW k \in 0 .. n PROVE f[k] = e(k)
      <4>1. CASE k = 0
        BY <3>1, <4>1
      <4>2. CASE k # 0
        <5>1. k \in 1 .. n
          BY <4>2
        <5>2. QED
          BY <2>2, <4>2, <5>1
      <4>3. QED
        BY <4>1, <4>2
    <3>3. f = [k \in 0 .. n |-> f[k]]
      OBVIOUS
    <3> HIDE DEF e
    <3>4. f = [k \in 0 .. n |-> e(k)]
      BY <3>2, <3>3
    <3>5. QED
      BY <3>4 DEF e
  <2>4. QED
    BY <2>3
<1>5. Walk(after)
  <2> HIDE DEF Walk
  <2>1. QED
    BY <1>4
<1>6. \A k \in 0 .. n :
         after[k] = IF k = 0 THEN c
                    ELSE <<Placed(after[k - 1])[1] + 1, Placed(after[k - 1])[2]>>
  <2> HIDE DEF after
  <2>1. QED
    BY <1>5
<1> HIDE DEF after
<1> DEFINE Inside == {k \in Nat : k <= n => after[k] \in Cursors}
<1>7. 0 \in Inside
  <2>1. 0 \in 0 .. n
    OBVIOUS
  <2>2. after[0] = c
    BY <1>6, <2>1
  <2>3. QED
    BY <2>2
<1>8. ASSUME NEW k \in Nat, k \in Inside PROVE k + 1 \in Inside
  <2>1. SUFFICES ASSUME k + 1 <= n PROVE after[k + 1] \in Cursors
    OBVIOUS
  <2>2. after[k] \in Cursors
    BY <1>8, <2>1
  <2>3. after[k + 1] = <<Placed(after[k])[1] + 1, Placed(after[k])[2]>>
    <3>1. k + 1 \in 0 .. n /\ k + 1 # 0 /\ (k + 1) - 1 = k
      BY <2>1
    <3>2. QED
      BY <1>6, <3>1
  <2>4. QED
    BY <1>2, <2>2, <2>3
<1>9. n - 1 \in Inside
  <2> HIDE DEF Inside
  <2>1. n - 1 \in Nat
    OBVIOUS
  <2>2. QED
    BY <1>7, <1>8, <2>1, InductionOverNat
<1>10. QED
  <2>1. after[n - 1] \in Cursors
    BY <1>9
  <2>2. after[n] = <<Placed(after[n - 1])[1] + 1, Placed(after[n - 1])[2]>>
    <3>1. n \in 0 .. n
      OBVIOUS
    <3>2. QED
      BY <1>6, <3>1
  <2>3. QED
    BY <1>1, <1>2, <2>1, <2>2

-----------------------------------------------------------------------------
(* The print of the main program *)

N == Len(MainText)

\* The cursor is on the screen where a character is put, and at most one row below
\* it after a print; a second print that ends before a character is placed takes it
\* one row further, and only at the start of the main program's print.
CursorInv ==
  /\ x \in 0 .. Columns /\ y \in 0 .. Rows + 1
  /\ pc = "put" => x < Columns
  /\ pc \in {"put", "eol"} => y <= Rows
  /\ pc = "place" /\ s > 1 => y <= Rows

\* The loop has something to print, and has printed some of it at its end.
LoopInv ==
  /\ str \in Seq(Marks) /\ s \in Nat \ {0} /\ disturbed \in BOOLEAN
  /\ pc \in {"place", "put", "eol"} => str # <<>>
  /\ pc = "write" => s = 1
  /\ pc = "eol" => s > 1

\* What the print has put on the screen is what it has gone through of its text.
ShownInv ==
  ~disturbed =>
    /\ pc = "write" => str = <<>> /\ shown = <<>>
    /\ pc \in {"place", "put", "eol"} =>
         str = MainText /\ s \in 1 .. N + 1 /\ shown = SubSeq(MainText, 1, s - 1)
    /\ pc = "put" => s <= N /\ y < Rows
    /\ pc = "eol" => s = N + 1

ConsoleInv == CursorInv /\ LoopInv /\ ShownInv

\* A step elsewhere in the main program.
LEMMA ElsewhereKeepsConsole ==
  ASSUME ConsoleInv, UNCHANGED consoleVars, pc' \notin Printing
  PROVE  ConsoleInv'
<1>1. pc' \notin {"write", "place", "put", "eol"} /\ UNCHANGED <<x, y, str, s, disturbed>>
  BY DEF consoleVars, Printing
<1>2. CursorInv' /\ LoopInv' /\ ShownInv'
  BY <1>1 DEF ConsoleInv, CursorInv, LoopInv, ShownInv
<1>3. QED
  BY <1>2 DEF ConsoleInv

\* One character more of the text.
LEMMA OneMore ==
  ASSUME NEW k \in 1 .. N
  PROVE  Append(SubSeq(MainText, 1, k - 1), MainText[k]) = SubSeq(MainText, 1, k)
<1>1. MainText \in Seq(Marks) /\ k \in 1 .. Len(MainText) /\ 1 \in 1 .. Len(MainText)
  BY Texts DEF N
<1>2. SubSeq(MainText, 1, k) = SubSeq(MainText, 1, k - 1) \o <<MainText[k]>>
  BY <1>1, SubSeqRecursiveSecond
<1>3. SubSeq(MainText, 1, k - 1) \in Seq(Marks) /\ MainText[k] \in Marks
  <2>1. \A i \in 1 .. k - 1 : MainText[i] \in Marks
    BY <1>1
  <2>2. MainText[k] \in Marks
    BY <1>1
  <2>3. QED
    BY <1>1, <2>1, <2>2, SubSeqProperties
<1>4. QED
  BY <1>2, <1>3, AppendIsConcat

\* A step of the print.
LEMMA PrintKeepsConsole ==
  ASSUME ConsoleInv,
         PrintFill \/ PrintWrite \/ PrintPlace \/ PrintPut \/ PrintNoMore
  PROVE  ConsoleInv'
<1> USE DEF ConsoleInv
<1>1. MainText \in Seq(Marks) /\ MainText # <<>> /\ N \in Nat \ {0}
  BY Texts DEF N
<1>2. cursor \in Cursors
  BY DEF CursorInv, cursor, Cursors
<1>3. CASE PrintFill
  <2>1. /\ pc' = "write" /\ str' = <<>> /\ s' = 1 /\ shown' = <<>>
        /\ disturbed' = FALSE /\ UNCHANGED <<x, y>>
    BY <1>3 DEF PrintFill, Move, Fill
  <2>2. disturbed' \in BOOLEAN
    BY <2>1
  <2>3. CursorInv'
    BY <2>1 DEF CursorInv
  <2>4. str' \in Seq(Marks) /\ s' \in Nat \ {0} /\ pc' = "write" /\ s' = 1
    BY <2>1
  <2>5. LoopInv'
    BY <2>2, <2>4 DEF LoopInv
  <2>6. ShownInv'
    BY <2>1 DEF ShownInv
  <2>7. QED
    BY <2>3, <2>5, <2>6
<1>4. CASE PrintWrite
  <2> DEFINE rest == SubSeq(str, N + 1, Len(str))
  <2>1. /\ pc = "write" /\ pc' = "place" /\ str' = MainText \o rest
        /\ UNCHANGED <<x, y, s, shown, disturbed>>
    BY <1>4 DEF PrintWrite, Move, Write, N
  <2>2. rest \in Seq(Marks)
    <3>1. Len(str) \in Int /\ N + 1 \in Int
      BY <1>1 DEF LoopInv
    <3>2. \A i \in N + 1 .. Len(str) : str[i] \in Marks
      BY <1>1 DEF LoopInv
    <3>3. QED
      BY <3>1, <3>2, SubSeqProperties
  <2>3. str' \in Seq(Marks) /\ str' # <<>>
    <3> HIDE DEF rest
    <3>1. MainText \o rest \in Seq(Marks) /\ Len(MainText \o rest) = N + Len(rest)
      BY <1>1, <2>2, ConcatProperties DEF N
    <3>2. Len(rest) \in Nat
      BY <2>2
    <3>3. Len(str') # 0
      BY <1>1, <2>1, <3>1, <3>2
    <3>4. QED
      BY <2>1, <3>1, <3>3
  <2>4. s = 1
    BY <2>1 DEF LoopInv
  <2>5. CursorInv' /\ LoopInv'
    BY <2>1, <2>3, <2>4 DEF CursorInv, LoopInv
  <2>6. ASSUME ~disturbed
        PROVE  str' = MainText /\ shown' = SubSeq(MainText, 1, s - 1) /\ s \in 1 .. N + 1
    <3>1. str = <<>> /\ shown = <<>>
      BY <2>1, <2>6 DEF ShownInv
    <3>2. rest = <<>>
      BY <1>1, <3>1, SubSeqEmpty
    <3>3. str' = MainText
      BY <1>1, <2>1, <3>2, ConcatEmptySeq
    <3>4. SubSeq(MainText, 1, 0) = <<>>
      BY SubSeqEmpty
    <3>5. s - 1 = 0 /\ s \in 1 .. N + 1
      BY <1>1, <2>4
    <3>6. QED
      BY <2>1, <3>1, <3>3, <3>4, <3>5
  <2>7. ShownInv'
    BY <2>1, <2>6 DEF ShownInv
  <2>8. QED
    BY <2>5, <2>7
<1>5. CASE PrintPlace
  <2>1. /\ pc = "place" /\ pc' = "put" /\ s <= Len(str)
        /\ x' = Placed(cursor)[1] /\ y' = Placed(cursor)[2]
        /\ UNCHANGED <<str, s, shown, disturbed>>
    BY <1>5 DEF PrintPlace, Move, Place, MoreText
  <2>2. x' \in 0 .. Columns - 1 /\ y' \in 0 .. Rows - 1
    BY <1>2, <2>1, PlacedOnScreen
  <2>3. CursorInv'
    BY <2>1, <2>2, ScreenSize DEF CursorInv
  <2>4. LoopInv'
    BY <2>1 DEF LoopInv
  <2>5. ShownInv'
    BY <2>1, <2>2, ScreenSize DEF ShownInv, N
  <2>6. QED
    BY <2>3, <2>4, <2>5
<1>6. CASE PrintPut
  <2>1. /\ pc = "put" /\ pc' = "place" /\ s' = s + 1
        /\ UNCHANGED <<y, str, disturbed>>
        /\ x' = (IF s <= Len(str) THEN x + 1 ELSE x)
        /\ shown' = (IF s <= Len(str) THEN Append(shown, str[s]) ELSE shown)
    BY <1>6 DEF PrintPut, Move, Put, MoreText
  <2>2. CursorInv'
    BY <2>1, ScreenSize DEF CursorInv
  <2>3. LoopInv'
    BY <2>1 DEF LoopInv
  <2>4. ASSUME ~disturbed
        PROVE  str' = MainText /\ s' \in 1 .. N + 1 /\ shown' = SubSeq(MainText, 1, s' - 1)
    <3>1. str = MainText /\ s \in 1 .. N /\ shown = SubSeq(MainText, 1, s - 1)
      BY <1>1, <2>1, <2>4 DEF ShownInv
    <3>2. shown' = Append(SubSeq(MainText, 1, s - 1), MainText[s])
      BY <2>1, <3>1 DEF N
    <3>3. shown' = SubSeq(MainText, 1, s)
      BY <3>1, <3>2, OneMore
    <3>4. s' - 1 = s /\ s' \in 1 .. N + 1
      BY <1>1, <2>1, <3>1
    <3>5. QED
      BY <2>1, <3>1, <3>3, <3>4
  <2>5. ShownInv'
    BY <2>1, <2>4 DEF ShownInv
  <2>6. QED
    BY <2>2, <2>3, <2>5
<1>7. CASE PrintNoMore
  <2>1. /\ pc = "place" /\ pc' = "eol" /\ ~(s <= Len(str))
        /\ UNCHANGED <<x, y, str, s, shown, disturbed>>
    BY <1>7 DEF PrintNoMore, Move, MoreText, consoleVars
  <2>2. s > 1
    <3>1. Len(str) \in Nat /\ Len(str) # 0 /\ s \in Nat
      BY <2>1 DEF LoopInv
    <3>2. QED
      BY <2>1, <3>1
  <2>3. CursorInv' /\ LoopInv'
    BY <2>1, <2>2 DEF CursorInv, LoopInv
  <2>4. ShownInv'
    BY <1>1, <2>1 DEF ShownInv, N
  <2>5. QED
    BY <2>3, <2>4
<1>8. QED
  BY <1>3, <1>4, <1>5, <1>6, <1>7

LEMMA MainKeepsConsole ==
  ASSUME ConsoleInv, Main
  PROVE  ConsoleInv'
<1>1. CASE PrintFill \/ PrintWrite \/ PrintPlace \/ PrintPut \/ PrintNoMore
  BY <1>1, PrintKeepsConsole
<1>2. CASE MainClear
  <2>1. /\ pc' \notin {"write", "place", "put", "eol"} /\ x' = 0 /\ y' = 0
        /\ UNCHANGED <<str, s, disturbed>>
    BY <1>2 DEF MainClear, Move, Clear
  <2>2. CursorInv'
    BY <2>1, ScreenSize DEF CursorInv
  <2>3. LoopInv' /\ ShownInv'
    BY <2>1 DEF ConsoleInv, LoopInv, ShownInv
  <2>4. QED
    BY <2>2, <2>3 DEF ConsoleInv
<1>3. CASE PrintEnd
  <2>1. /\ pc = "eol" /\ pc' = "idle" /\ x' = 0 /\ y' = y + 1 /\ s' = 1
        /\ disturbed' = FALSE /\ str' = str
    BY <1>3 DEF PrintEnd, Move, EndOfLine, NextRow, cursor
  <2>2. CursorInv'
    BY <2>1, ScreenSize DEF ConsoleInv, CursorInv
  <2>3. disturbed' \in BOOLEAN
    BY <2>1
  <2>4. LoopInv' /\ ShownInv'
    BY <2>1, <2>3 DEF ConsoleInv, LoopInv, ShownInv
  <2>5. QED
    BY <2>2, <2>4 DEF ConsoleInv
<1>4. CASE StartPrint
  <2>1. pc' = "fill" /\ UNCHANGED <<x, y, str, s, shown, disturbed>>
    BY <1>4 DEF StartPrint, Move, consoleVars
  <2>2. CursorInv' /\ LoopInv' /\ ShownInv'
    BY <2>1 DEF ConsoleInv, CursorInv, LoopInv, ShownInv
  <2>3. QED
    BY <2>2 DEF ConsoleInv
<1>5. CASE ~(\/ PrintFill \/ PrintWrite \/ PrintPlace \/ PrintPut \/ PrintNoMore
             \/ MainClear \/ PrintEnd \/ StartPrint)
  <2>1. UNCHANGED consoleVars
    BY <1>5 DEF Main, MainDisable, MainPicInit, MainInterruptInit, MainPitInit,
         MainPicEnable, MainEnable, MainRegister, MainHalt, StartSleep,
         GetTicksWait, GetTicksDisable, GetTicksLoad, GetTicksEnable, SleepOn,
         SleepReturn
  <2>2. pc' \notin Printing
    BY <1>5 DEF Main, Move, Printing, MainDisable, MainPicInit, MainInterruptInit,
         MainPitInit, MainPicEnable, MainEnable, MainRegister, MainHalt, StartSleep,
         GetTicksWait, GetTicksDisable, GetTicksLoad, GetTicksEnable, SleepOn,
         SleepReturn
  <2>3. QED
    BY <2>1, <2>2, ElsewhereKeepsConsole
<1>6. QED
  BY <1>1, <1>2, <1>3, <1>4, <1>5

\* The print of irq_wrapper leaves the cursor at the start of a row, the one below
\* the screen at most, and the main program's print with another text.
LEMMA PrintIrqKeepsConsole ==
  ASSUME ConsoleInv, PrintIrq
  PROVE  ConsoleInv'
<1>1. /\ x' = 0 /\ y' = After(cursor, Len(IrqText))[2] + 1 /\ str' = IrqText
      /\ disturbed' = TRUE /\ UNCHANGED <<s, shown, pc>>
  BY DEF PrintIrq, PrintFromIrq, NextRow, inHandlerFrame, mainVars
<1>2. cursor \in Cursors
  BY DEF ConsoleInv, CursorInv, cursor, Cursors
<1>3. IrqText \in Seq(Marks) /\ IrqText # <<>> /\ Len(IrqText) \in Nat /\ Len(IrqText) # 0
  BY Texts
<1>4. y' \in 1 .. Rows
  BY <1>1, <1>2, <1>3, AfterOnScreen, ScreenSize
<1>5. CursorInv'
  BY <1>1, <1>4, ScreenSize DEF CursorInv
<1>6. disturbed' \in BOOLEAN
  BY <1>1
<1>7. LoopInv' /\ ShownInv'
  BY <1>1, <1>3, <1>6 DEF ConsoleInv, LoopInv, ShownInv
<1>8. QED
  BY <1>5, <1>7 DEF ConsoleInv

LEMMA OthersKeepConsole ==
  ASSUME ConsoleInv, Handler \/ Clock \/ Device \/ UNCHANGED vars, ~PrintIrq
  PROVE  ConsoleInv'
<1>1. UNCHANGED <<x, y, str, s, shown, disturbed, pc>>
  <2>1. CASE Handler
    BY <2>1 DEF Handler, TakeInterrupt, TakeSpurious, PitHandlerMark, PitHandlerCount,
         AtaHandler, AcknowledgeIrq, LeaveIrq, irqFrame, inHandlerFrame, consoleVars,
         mainVars
  <2>2. CASE Clock \/ Device \/ UNCHANGED vars
    BY <2>2 DEF Clock, Device, vars, consoleVars, mainVars
  <2>3. QED
    BY <2>1, <2>2
<1>2. CursorInv' /\ LoopInv' /\ ShownInv'
  BY <1>1 DEF ConsoleInv, CursorInv, LoopInv, ShownInv
<1>3. QED
  BY <1>2 DEF ConsoleInv

LEMMA ConsoleInductive ==
  Spec => []ConsoleInv
<1>1. ASSUME Init PROVE ConsoleInv
  <2>1. x = 0 /\ y = 0 /\ str = <<>> /\ s = 1 /\ disturbed = FALSE /\ pc = "clear"
    BY <1>1 DEF Init, ConsoleInit
  <2>2. CursorInv
    BY <2>1, ScreenSize DEF CursorInv
  <2>3. disturbed \in BOOLEAN
    BY <2>1
  <2>4. str \in Seq(Marks) /\ s \in Nat \ {0} /\ pc = "clear"
    BY <2>1
  <2>5. LoopInv
    BY <2>3, <2>4 DEF LoopInv
  <2>6. ShownInv
    BY <2>1 DEF ShownInv
  <2>7. QED
    BY <2>2, <2>5, <2>6 DEF ConsoleInv
<1>2. ConsoleInv /\ [Next]_vars => ConsoleInv'
  BY MainKeepsConsole, PrintIrqKeepsConsole, OthersKeepConsole DEF Next
<1>3. QED
  BY <1>1, <1>2, PTL DEF Spec

\* Theorem.  A print that no handler's print fell into shows the whole text, and on
\* the screen; the cursor is never further off it than the rows that the next
\* character scrolls.
THEOREM TextStaysIntact ==
  Spec => []TextIntact
<1>1. ASSUME ConsoleInv PROVE TextIntact
  <2>1. x <= Columns /\ y <= Rows + 1
    BY <1>1, ScreenSize DEF ConsoleInv, CursorInv
  <2>2. ASSUME ~disturbed, pc = "eol" PROVE shown = MainText
    <3>1. shown = SubSeq(MainText, 1, s - 1) /\ s = N + 1
      BY <1>1, <2>2 DEF ConsoleInv, ShownInv
    <3>2. N \in Nat /\ SubSeq(MainText, 1, N) = MainText
      BY Texts, SubSeqFull DEF N
    <3>3. s - 1 = N
      BY <3>1, <3>2
    <3>4. QED
      BY <3>1, <3>2, <3>3
  <2>3. ~disturbed /\ pc = "put" => y < Rows
    BY <1>1 DEF ConsoleInv, ShownInv
  <2>4. QED
    BY <2>1, <2>2, <2>3 DEF TextIntact
<1>2. QED
  BY <1>1, ConsoleInductive, PTL
=============================================================================
