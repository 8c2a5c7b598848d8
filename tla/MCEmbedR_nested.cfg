CONSTANTS
  Signal = {SIGINT, SIGPIPE, SIGKILL}
  SIGINT = SIGINT
  SIGPIPE = SIGPIPE
  SIGKILL = SIGKILL
  Fixed = {SIGKILL}
  Slot = {svv}
  MaxDepth = 2
SPECIFICATION Spec
PROPERTY HandlersSurviveCall
