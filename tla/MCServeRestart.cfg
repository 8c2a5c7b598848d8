CONSTANTS
  first = first
  second = second
  third = third
  Server = {first, second, third}
  Nobody = Nobody
  Other = Other
  MaxTries = 3
SPECIFICATION RestartFairSpec
INVARIANTS RestartTypeOK OrderlyServes OrderlyNoPanic
PROPERTY LeftIsStopped
\* a panic ends the process
CHECK_DEADLOCK FALSE
