----------------------------- MODULE Interrupts -----------------------------
(***************************************************************************)
(* Interrupts of the loader: the two cascaded 8259 controllers (pic.c),    *)
(* the assembly stubs (interrupts.asm) and irq_wrapper (interrupts.c).     *)
(*                                                                         *)
(* Everything here is one CPU: an interrupt is taken between two steps of  *)
(* the program when int_flag is set.  All gates are interrupt gates (type  *)
(* 0x8E), so the flag is clear in a stub until its iretq restores it.  The *)
(* sti in front of iretq changes nothing: the CPU recognises interrupts    *)
(* only after the instruction that follows sti, and that is the iretq.     *)
(*                                                                         *)
(* IRQ 2 is the cascade.  No device raises it and its vector is never      *)
(* delivered, so the branch of irq_wrapper for it does not occur.          *)
(***************************************************************************)
EXTENDS Integers, Sequences

CONSTANTS
  Lines,       \* the IRQ lines devices are wired to
  Withdrawable \* the lines whose device may take a request back

Cascade == 2

ASSUME LineNumbers == Lines \subseteq (0 .. 15) \ {Cascade}
ASSUME WithdrawableLines == Withdrawable \subseteq Lines \ {0}

VARIABLES
  int_flag,      \* the interrupt flag of the CPU
  int_enabled,   \* _int_enabled, what interrupt_enable and _disable believe
  irr,           \* requests latched by the controllers (edge triggered)
  isr,           \* lines in service, the cascade included
  imr,           \* masked lines
  irq_handlers,  \* the registered handler of each line, "none" if there is none
  stack          \* frames of the handlers that run, the innermost first

cpuVars       == <<int_flag, int_enabled, stack>>
picVars       == <<irr, isr, imr>>
interruptVars == <<cpuVars, picVars, irq_handlers>>

Handlers == {"none", "pit", "ata"}
Steps    == {"call", "count", "done", "acknowledged"}

\* A stub's frame: the line its vector stands for, whether irq_wrapper found it
\* in the ISR, where it is, and the flag that iretq restores.
Frames == [irq : 0 .. 15, in_service : BOOLEAN, step : Steps, flag : BOOLEAN]

-----------------------------------------------------------------------------
(* The interrupt controllers *)

Slave(line) == line >= 8

\* The bit a line has in the master's registers.
MasterBit(line) == IF Slave(line) THEN Cascade ELSE line

\* Fully nested mode: a line interrupts only what has a lower priority.
MayInterrupt(line) ==
  /\ line \notin imr
  /\ \A i \in isr : ~Slave(i) => MasterBit(line) < i
  /\ Slave(line) => \A i \in isr : Slave(i) => line < i

\* What asks for the CPU.
Pending == {line \in irr : MayInterrupt(line)}

\* The pending line of the highest priority.
Foremost(line) ==
  /\ line \in Pending
  /\ \A other \in Pending :
       \/ MasterBit(line) < MasterBit(other)
       \/ MasterBit(line) = MasterBit(other) /\ line <= other

\* A device raises its line.  A request that is still latched swallows it.
Raise(line) ==
  /\ irr' = irr \union {line}
  /\ UNCHANGED <<cpuVars, isr, imr, irq_handlers>>

Highest(S) == {i \in S : \A j \in S : i <= j}

\* Mutant of AfterEoi: a line of the slave is acknowledged at the slave only.
AfterEoiSlaveOnly(line) ==
  isr \ IF Slave(line) THEN Highest({i \in isr : Slave(i)})
                       ELSE Highest({i \in isr : ~Slave(i)})

\* Non-specific EOI retires the line in service of the highest priority, at the
\* slave too when the line is one of the slave's (pic_eoi).
AfterEoi(line) ==
  isr \ (Highest({i \in isr : ~Slave(i)})
           \union IF Slave(line) THEN Highest({i \in isr : Slave(i)}) ELSE {})

\* pic_init: ICW1 drops requests, services and masks.
PicInit ==
  /\ irr' = {} /\ isr' = {} /\ imr' = {}
  /\ UNCHANGED <<cpuVars, irq_handlers>>

\* pic_enable writes the complement of its argument to the mask registers.
PicEnable(lines) ==
  /\ imr' = (0 .. 15) \ lines
  /\ UNCHANGED <<cpuVars, irr, isr, irq_handlers>>

-----------------------------------------------------------------------------
(* interrupts.c and interrupts.asm *)

InHandler == stack # <<>>

\* Mutant of InterruptDisable: cli is issued but not noted.
InterruptDisableUnnoted ==
  /\ int_flag' = FALSE
  /\ UNCHANGED <<int_enabled, stack, picVars, irq_handlers>>

\* interrupt_disable and interrupt_enable trust _int_enabled, not the CPU.  The
\* store to _int_enabled is covered by sti's delay of one instruction.
InterruptDisable ==
  /\ int_flag' = (int_flag /\ ~int_enabled)
  /\ int_enabled' = FALSE
  /\ UNCHANGED <<stack, picVars, irq_handlers>>

InterruptEnable ==
  /\ int_flag' = (int_flag \/ ~int_enabled)
  /\ int_enabled' = TRUE
  /\ UNCHANGED <<stack, picVars, irq_handlers>>

\* interrupt_init clears the tables of handlers and loads the gates.
InterruptInit ==
  /\ int_enabled' = FALSE
  /\ irq_handlers' = [line \in 0 .. 15 |-> "none"]
  /\ UNCHANGED <<int_flag, stack, picVars>>

\* interrupt_reg_irq_handler
RegisterIrq(line, handler) ==
  irq_handlers' = [irq_handlers EXCEPT ![line] = handler]

\* The gate and the stub of an IRQ, and the start of irq_wrapper, which reads
\* the ISR before it calls the handler.
Enter(irq, in_service) ==
  /\ stack' = <<[irq |-> irq, in_service |-> in_service, step |-> "call",
                 flag |-> int_flag]>> \o stack
  /\ int_flag' = FALSE
  /\ UNCHANGED <<int_enabled, imr, irq_handlers>>

\* The CPU acknowledges a request.
Deliver(line) ==
  /\ int_flag
  /\ Foremost(line)
  /\ irr' = irr \ {line}
  /\ isr' = isr \union {line, MasterBit(line)}
  /\ Enter(line, TRUE)

\* The request is gone when the CPU acknowledges it: the controller answers with
\* its lowest line, which is not in service.  The master in front of a slave
\* has taken the cascade into service by then.
DeliverSpurious(line) ==
  /\ int_flag
  /\ Foremost(line)
  /\ line \in Withdrawable
  /\ irr' = irr \ {line}
  /\ isr' = IF Slave(line) THEN isr \union {Cascade} ELSE isr
  /\ Enter(IF Slave(line) THEN 15 ELSE 7, FALSE)

\* irq_wrapper goes on to the next step of the innermost frame.
Goto(step) == stack' = [stack EXCEPT ![1].step = step]

\* Mutant of Acknowledge: the stub enables interrupts before it pops its frame.
AcknowledgeEnabled ==
  /\ InHandler /\ Head(stack).step = "done"
  /\ isr' = IF Head(stack).in_service THEN AfterEoi(Head(stack).irq) ELSE isr
  /\ Goto("acknowledged")
  /\ int_flag' = TRUE
  /\ UNCHANGED <<int_enabled, irr, imr, irq_handlers>>

\* The handler has returned: irq_wrapper acknowledges what was in service.
Acknowledge ==
  /\ InHandler /\ Head(stack).step = "done"
  /\ isr' = IF Head(stack).in_service THEN AfterEoi(Head(stack).irq) ELSE isr
  /\ Goto("acknowledged")
  /\ UNCHANGED <<int_flag, int_enabled, irr, imr, irq_handlers>>

\* POP_ALL, sti and iretq
ReturnFromIrq ==
  /\ InHandler /\ Head(stack).step = "acknowledged"
  /\ int_flag' = Head(stack).flag
  /\ stack' = Tail(stack)
  /\ UNCHANGED <<int_enabled, picVars, irq_handlers>>
=============================================================================
