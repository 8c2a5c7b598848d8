CONSTANTS
  first = first
  second = second
  third = third
  Server = {first, second}
  Nobody = Nobody
  Other = Other
  MaxTries = 3
SPECIFICATION RestartSpec
INVARIANT EveryCallServes
\* a panic ends the process
CHECK_DEADLOCK FALSE
