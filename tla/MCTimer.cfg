SPECIFICATION Spec
CONSTANTS
  Lines = {0, 14}
  Withdrawable = {14}
  Columns = 1
  Rows = 1
  MainText <- MCMainText
  IrqText <- MCIrqText
  PIT_FREQ = 1193180
  PIT_COUNTER = 1193
  PeriodLength = 4
  Times = {0, 2}
  JobsMax = 1
  RequestsMax = 2
INVARIANTS
  HandlersDoNotNest
  ServiceMatchesHandler
  FlagsAgree
  TicksKept
  SleepLasts
  TextIntact
PROPERTIES
  ImplementsTickClock
  SleepReturns
  RequestsServed
CHECK_DEADLOCK FALSE
