------------------------------- MODULE Timer -------------------------------
(***************************************************************************)
(* The timer (pit.c) and sleep (sleep.c), run by the main program of the   *)
(* loader (main64.c) against the interrupts that the timer and other       *)
(* devices raise.  Steps of the main program, of the handler that runs, of *)
(* the clock and of the devices interleave; the main program moves only    *)
(* while no handler runs and no interrupt is due.                          *)
(*                                                                         *)
(* Time.  A timer period is PeriodLength moments.  The clock moves by at   *)
(* most one moment between two steps of the main program: the CPU is fast  *)
(* against the 1 ms period, handlers included.                             *)
(***************************************************************************)
EXTENDS Interrupts, Console

CONSTANTS
  PIT_FREQ,      \* ticks of the PIT's oscillator in a second
  PIT_COUNTER,   \* what main64 gives to pit_init
  PeriodLength,  \* moments in a period
  Times,         \* arguments of sleep
  JobsMax,       \* bound: sleeps and prints of the main program
  RequestsMax    \* bound: requests of the devices other than the timer

ASSUME TimerConstants ==
  /\ PIT_FREQ \in Nat \ {0}
  /\ PeriodLength \in Nat /\ Times \subseteq Nat
  /\ JobsMax \in Nat /\ RequestsMax \in Nat /\ 0 \in Lines

ASSUME CounterWidth == PIT_COUNTER \in 0 .. 65535

\* A period is longer than what the main program does with interrupts disabled,
\* from pit_init to interrupt_enable: three steps, and so at most three moments.
ASSUME PeriodIsLong == PeriodLength >= 4

VARIABLES
  ticks,        \* _ticks
  tick_update,  \* _tick_update
  counter,      \* _counter
  pc,           \* where the main program is
  registered,   \* ata_init has registered its handler
  tick_count, tick_start, tick,  \* the locals of sleep
  jobs,         \* sleeps and prints the main program has started
  requests,     \* requests of the devices so far
  moment,       \* moments into the current period
  moved,        \* the main program has moved since the last moment
  periods,      \* ghost: requests of the timer that pit_init left or that came later
  slept,        \* ghost: moments since sleep read its first tick
  stuck         \* ghost: a spurious request of the slave has been answered

mainVars  == <<pc, registered, tick_count, tick_start, tick, jobs, slept>>
pitVars   == <<ticks, tick_update, counter>>
worldVars == <<requests, moment, periods, stuck>>
vars == <<interruptVars, consoleVars, mainVars, pitVars, worldVars, moved>>

Boot  == {"clear", "disable", "pic_init", "interrupt_init", "pit_init",
          "pic_enable", "enable"}
Sleep == {"wait", "cli", "load", "sti", "check"}
Printing == {"fill", "write", "place", "put", "eol"}

Booted == pc \notin Boot

Init ==
  /\ int_flag = FALSE /\ int_enabled = FALSE /\ stack = <<>>
  /\ irr \in SUBSET {0} /\ isr = {} /\ imr = {}
  /\ irq_handlers = [line \in 0 .. 15 |-> "none"]
  /\ ConsoleInit
  /\ ticks = 0 /\ tick_update = FALSE /\ counter = 0
  /\ pc = "clear" /\ registered = FALSE
  /\ tick_count = 0 /\ tick_start = -1 /\ tick = 0 /\ jobs = 0
  /\ requests = 0 /\ moment = 0 /\ moved = FALSE
  /\ periods = 0 /\ slept = 0 /\ stuck = FALSE

-----------------------------------------------------------------------------
(* main64: the order in which the loader sets itself up *)

\* The main program moves from one place to another.
Move(from, to) ==
  /\ ~InHandler /\ ~(int_flag /\ Pending # {})
  /\ pc = from /\ pc' = to
  /\ moved' = TRUE

sleepVars == <<tick_count, tick_start, tick, slept>>

MainClear ==
  /\ Move("clear", "disable")
  /\ Clear
  /\ UNCHANGED <<interruptVars, pitVars, worldVars, registered, jobs, sleepVars>>

MainDisable ==
  /\ Move("disable", "pic_init")
  /\ InterruptDisable
  /\ UNCHANGED <<consoleVars, pitVars, worldVars, registered, jobs, sleepVars>>

MainPicInit ==
  /\ Move("pic_init", "interrupt_init")
  /\ PicInit
  /\ UNCHANGED <<consoleVars, pitVars, worldVars, registered, jobs, sleepVars>>

MainInterruptInit ==
  /\ Move("interrupt_init", "pit_init")
  /\ InterruptInit
  /\ UNCHANGED <<consoleVars, pitVars, worldVars, registered, jobs, sleepVars>>

\* The number of clock pulses in a period: 0 becomes the longest period but one.
PitCounter(c) == IF c = 0 THEN 65535 ELSE c

PitInit ==
  /\ ticks' = 0 /\ tick_update' = FALSE
  /\ counter' = PitCounter(PIT_COUNTER)
  /\ RegisterIrq(0, "pit")

MainPitInit ==
  /\ Move("pit_init", "pic_enable")
  /\ PitInit
  /\ moment' = 0
  /\ periods' = IF 0 \in irr THEN 1 ELSE 0
  /\ UNCHANGED <<cpuVars, picVars, consoleVars, requests, stuck, registered,
                 jobs, sleepVars>>

MainPicEnable ==
  /\ Move("pic_enable", "enable")
  /\ PicEnable(0 .. 15)
  /\ UNCHANGED <<consoleVars, pitVars, worldVars, registered, jobs, sleepVars>>

MainEnable ==
  /\ Move("enable", "idle")
  /\ InterruptEnable
  /\ UNCHANGED <<consoleVars, pitVars, worldVars, registered, jobs, sleepVars>>

\* ata_init registers its handler for the lines of both channels.
MainRegister ==
  /\ Move("idle", "idle")
  /\ ~registered /\ registered' = TRUE
  /\ irq_handlers' = [irq_handlers EXCEPT ![14] = "ata", ![15] = "ata"]
  /\ UNCHANGED <<cpuVars, picVars, consoleVars, pitVars, worldVars, jobs, sleepVars>>

\* while(true){}
MainHalt ==
  /\ Move("idle", "halt")
  /\ jobs = JobsMax
  /\ UNCHANGED <<interruptVars, consoleVars, pitVars, worldVars, registered,
                 jobs, sleepVars>>

-----------------------------------------------------------------------------
(* sleep and pit_get_ticks *)

\* Mutant of TickCount: a short sleep is no tick at all.
TickCountZero(time) == (time * PIT_FREQ) \div (counter * 1000)

TickCount(time) ==
  LET n == (time * PIT_FREQ) \div (counter * 1000) IN IF n = 0 THEN 1 ELSE n

StartSleep ==
  /\ Move("idle", "wait")
  /\ jobs < JobsMax /\ jobs' = jobs + 1
  /\ counter > 0
  /\ \E time \in Times : tick_count' = TickCount(time)
  /\ UNCHANGED <<interruptVars, consoleVars, pitVars, worldVars, registered,
                 tick_start, tick, slept>>

\* while (_tick_update)
GetTicksWait ==
  /\ Move("wait", "cli")
  /\ ~tick_update
  /\ UNCHANGED <<interruptVars, consoleVars, pitVars, worldVars, registered,
                 jobs, sleepVars>>

GetTicksDisable ==
  /\ Move("cli", "load")
  /\ InterruptDisable
  /\ UNCHANGED <<consoleVars, pitVars, worldVars, registered, jobs, sleepVars>>

\* The first value read is tick_start, the later ones are tick.
GetTicksLoad ==
  /\ Move("load", "sti")
  /\ tick' = ticks
  /\ tick_start' = IF tick_start = -1 THEN ticks ELSE tick_start
  /\ slept' = IF tick_start = -1 THEN 0 ELSE slept
  /\ UNCHANGED <<interruptVars, consoleVars, pitVars, worldVars, registered,
                 jobs, tick_count>>

\* It returns with interrupts enabled, whatever they were before.
GetTicksEnable ==
  /\ Move("sti", "check")
  /\ InterruptEnable
  /\ UNCHANGED <<consoleVars, pitVars, worldVars, registered, jobs, sleepVars>>

\* Mutant of Slept: a tick too early.
SleptEarly == tick + 1 >= tick_start + tick_count

\* The condition of the loop, negated.
Slept == tick >= tick_start + tick_count

SleepOn ==
  /\ Move("check", "wait")
  /\ ~Slept
  /\ UNCHANGED <<interruptVars, consoleVars, pitVars, worldVars, registered,
                 jobs, sleepVars>>

SleepReturn ==
  /\ Move("check", "idle")
  /\ Slept
  /\ tick_count' = 0 /\ tick_start' = -1 /\ tick' = 0 /\ slept' = 0
  /\ UNCHANGED <<interruptVars, consoleVars, pitVars, worldVars, registered, jobs>>

-----------------------------------------------------------------------------
(* debug_print, called by the main program *)

printFrame == <<interruptVars, pitVars, worldVars, registered, sleepVars>>

StartPrint ==
  /\ Move("idle", "fill")
  /\ jobs < JobsMax /\ jobs' = jobs + 1
  /\ UNCHANGED <<consoleVars, printFrame>>

PrintFill  == Move("fill", "write") /\ Fill /\ UNCHANGED <<jobs, printFrame>>
PrintWrite == Move("write", "place") /\ Write /\ UNCHANGED <<jobs, printFrame>>

PrintPlace ==
  /\ Move("place", "put") /\ MoreText
  /\ Place
  /\ UNCHANGED <<jobs, printFrame>>

PrintPut == Move("put", "place") /\ Put /\ UNCHANGED <<jobs, printFrame>>

PrintNoMore ==
  /\ Move("place", "eol") /\ ~MoreText
  /\ UNCHANGED <<consoleVars, jobs, printFrame>>

PrintEnd == Move("eol", "idle") /\ EndOfLine /\ UNCHANGED <<jobs, printFrame>>

Main ==
  \/ MainClear \/ MainDisable \/ MainPicInit \/ MainInterruptInit \/ MainPitInit
  \/ MainPicEnable \/ MainEnable \/ MainRegister \/ MainHalt
  \/ StartSleep \/ GetTicksWait \/ GetTicksDisable \/ GetTicksLoad
  \/ GetTicksEnable \/ SleepOn \/ SleepReturn
  \/ StartPrint \/ PrintFill \/ PrintWrite \/ PrintPlace \/ PrintPut
  \/ PrintNoMore \/ PrintEnd

-----------------------------------------------------------------------------
(* Handlers, and what goes on outside the CPU *)

TakeInterrupt ==
  /\ \E line \in Lines : Deliver(line)
  /\ UNCHANGED <<consoleVars, mainVars, pitVars, worldVars, moved>>

TakeSpurious ==
  /\ \E line \in Lines :
       /\ DeliverSpurious(line)
       /\ stuck' = (stuck \/ Slave(line))
  /\ UNCHANGED <<consoleVars, mainVars, pitVars, requests, moment, periods, moved>>

\* irq_wrapper calls the handler of the line.
Calls(handler) ==
  /\ InHandler
  /\ Head(stack).step = "call"
  /\ irq_handlers[Head(stack).irq] = handler

inHandlerFrame ==
  <<int_flag, int_enabled, picVars, irq_handlers, mainVars, worldVars, moved>>

\* Mutant of PitHandlerMark: it counts the tick, too.
PitHandlerMarkCounts ==
  /\ Calls("pit")
  /\ tick_update' = TRUE /\ ticks' = ticks + 1
  /\ Goto("count")
  /\ UNCHANGED <<counter, consoleVars, inHandlerFrame>>

\* pit_handler marks the update, then counts the tick and clears the mark.
PitHandlerMark ==
  /\ Calls("pit")
  /\ tick_update' = TRUE
  /\ Goto("count")
  /\ UNCHANGED <<ticks, counter, consoleVars, inHandlerFrame>>

\* Mutant of PitHandlerCount: the mark stays.
PitHandlerCountMarked ==
  /\ InHandler /\ Head(stack).step = "count"
  /\ ticks' = ticks + 1
  /\ Goto("done")
  /\ UNCHANGED <<tick_update, counter, consoleVars, inHandlerFrame>>

PitHandlerCount ==
  /\ InHandler /\ Head(stack).step = "count"
  /\ ticks' = ticks + 1
  /\ tick_update' = FALSE
  /\ Goto("done")
  /\ UNCHANGED <<counter, consoleVars, inHandlerFrame>>

\* ata_handler does nothing and says the interrupt is handled.
AtaHandler ==
  /\ Calls("ata")
  /\ Goto("done")
  /\ UNCHANGED <<pitVars, consoleVars, inHandlerFrame>>

\* A line without a handler: its number is printed.
PrintIrq ==
  /\ Calls("none")
  /\ PrintFromIrq
  /\ Goto("done")
  /\ UNCHANGED <<pitVars, inHandlerFrame>>

irqFrame == <<consoleVars, mainVars, pitVars, worldVars, moved>>

AcknowledgeIrq == Acknowledge /\ UNCHANGED irqFrame
LeaveIrq       == ReturnFromIrq /\ UNCHANGED irqFrame

Handler ==
  TakeInterrupt \/ TakeSpurious \/ PitHandlerMark \/ PitHandlerCount
    \/ AtaHandler \/ PrintIrq \/ AcknowledgeIrq \/ LeaveIrq

\* The clock runs until the main program has nothing left to do (a bound of the
\* model).  The end of a period raises line 0.
Clock ==
  /\ moved /\ moved' = FALSE
  /\ pc # "halt"
  /\ moment' = (moment + 1) % PeriodLength
  /\ slept' = IF pc \in Sleep /\ tick_start # -1 THEN slept + 1 ELSE slept
  /\ IF moment' = 0
     THEN Raise(0) /\ periods' = periods + 1
     ELSE UNCHANGED <<interruptVars, periods>>
  /\ UNCHANGED <<consoleVars, pitVars, requests, stuck, pc, registered,
                 tick_count, tick_start, tick, jobs>>

Device ==
  /\ requests < RequestsMax /\ requests' = requests + 1
  /\ \E line \in Lines \ {0} : Raise(line)
  /\ UNCHANGED <<consoleVars, mainVars, pitVars, moment, periods, stuck, moved>>

Next == Main \/ Handler \/ Clock \/ Device

Spec == Init /\ [][Next]_vars /\ WF_vars(Main) /\ WF_vars(Handler) /\ WF_vars(Clock)

-----------------------------------------------------------------------------
(* Properties *)

\* Handlers do not nest, whatever the devices raise: the gates clear the flag
\* and no handler sets it before its frame is popped.
HandlersDoNotNest ==
  Len(stack) <= 1 /\ (InHandler => ~int_flag)

\* A line is in service exactly from the acknowledge of the CPU to the end of
\* interrupt of irq_wrapper.  What else is in service is the cascade, and only
\* when a spurious request of the slave has been answered: irq_wrapper sends no
\* end of interrupt for it and the master waits for one for ever.
ServiceMatchesHandler ==
  isr = (IF stuck THEN {Cascade} ELSE {})
          \union {l \in 0 .. 15 :
                    \E i \in 1 .. Len(stack) :
                      /\ stack[i].in_service
                      /\ stack[i].step # "acknowledged"
                      /\ l \in {stack[i].irq, MasterBit(stack[i].irq)}}

\* While the main program runs, _int_enabled says what the CPU does: the cli of
\* pit_get_ticks is always undone and never done twice.
FlagsAgree ==
  ~InHandler => int_flag = int_enabled /\ (Booted => int_flag \/ pc \in {"load", "sti"})

\* No tick is lost and none is counted twice: after pit_init the ticks and the
\* one request that is latched or being handled are the periods that have passed.
TicksKept ==
  pc \notin {"clear", "disable", "pic_init", "interrupt_init", "pit_init"} =>
    periods = ticks
              + (IF 0 \in irr THEN 1 ELSE 0)
              + (IF \E i \in 1 .. Len(stack) :
                      stack[i].irq = 0 /\ stack[i].step \in {"call", "count"}
                 THEN 1 ELSE 0)

\* A sleep of n ticks lasts at least n - 1 periods from its first reading.  (For
\* n = 1 it may last no time at all: sleep counts the ends of periods.)
SleepLasts ==
  pc = "check" /\ Slept => slept >= (tick_count - 1) * PeriodLength

\* A print that no handler's print fell into shows the whole text, and on the
\* screen.  Otherwise the cursor stays on it but for the rows that the next
\* character scrolls (two, when two prints end together).
TextIntact ==
  /\ ~disturbed => /\ pc = "eol" => shown = MainText
                   /\ pc = "put" => y < Rows
  /\ x <= Columns /\ y <= Rows + 1

\* A sleep ends.
SleepReturns == pc \in Sleep ~> pc = "idle"

\* A request is taken, unless the cascade blocks its line.
RequestsServed ==
  \A line \in Lines :
    (Booted /\ line \in irr) ~> (line \notin irr \/ (stuck /\ line > Cascade))

TC == INSTANCE TickClock WITH
        now      <- ticks,
        sleeping <- pc \in Sleep /\ tick_start # -1,
        deadline <- IF pc \in Sleep /\ tick_start # -1
                    THEN tick_start + tick_count ELSE 0

\* The timer and sleep are a tick clock: ticks are counted one by one and sleep
\* returns only when the ticks it asked for have been counted.
ImplementsTickClock == TC!Spec
=============================================================================
