CONSTANTS
  Timers = {0, 1}
  BadTimer = 7
  Pads = {0}
  MaxTime = 2
SPECIFICATION SleepSpec

  
PROPERTIES
  FailedSleepEffects
  
CHECK_DEADLOCK FALSE
