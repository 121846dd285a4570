\* Two managed timers, two commands; with and without automatic sleep.
SPECIFICATION FairSpec
CONSTANTS
  Managed = {"uart", "app_timer"}
  Uart = "uart"
  Task <- Threads
  SlotOf <- Hash
  Defaults <- Names
  MaxTicks = 2
  CheckTicks = 2
  Times = {0, 1}
  MaxSleeps = 2
  MaxCommands = 2
  MaxTouches = 1
INVARIANTS TypeOK SleepIsQuiet LockCountSound
PROPERTIES WokenAsBefore AutoSleepHappens
CHECK_DEADLOCK FALSE
