CONSTANTS
  Signal = {SIGINT, SIGPIPE, SIGKILL}
  SIGINT = SIGINT
  SIGPIPE = SIGPIPE
  SIGKILL = SIGKILL
  Fixed = {SIGKILL}
  Slot = {svv}
  MaxDepth = 2
SPECIFICATION Spec
INVARIANTS TypeOK OnStackInGo NoGoHandlerInR SigintReachesR
PROPERTY HandlersSurviveFlatCall
