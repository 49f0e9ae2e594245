CONSTANTS
  Client = {c1, c2}
  timers_per_client = 1
  TIMER_PERIOD = 2
  Delays = {1, 3}
  Times = {2}
  MaxTime = 4
  NULL = NULL
SPECIFICATION FairSpec
INVARIANTS
  TypeOK
  ListWellFormed
  NoLostCompletion
  AtMostATickEarly
PROPERTIES
  ImplementsTimerService
  DueTimersServed
  ServingEnds
