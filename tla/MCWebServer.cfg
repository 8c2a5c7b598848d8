CONSTANTS
  first = first
  second = second
  Server = {first, second}
  Nobody = Nobody
  Other = Other
  MaxTries = 3
SPECIFICATION FairSpec
INVARIANTS TypeOK StoppedIsDown OwnerServes
PROPERTY StopReturns
\* a panic ends the process
CHECK_DEADLOCK FALSE
