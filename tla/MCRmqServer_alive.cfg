CONSTANTS
  timed = timed
  forever = forever
  Call = {timed, forever}
  Timed = {timed}
  NoCall = NoCall
  MaxAge = 6
SPECIFICATION Spec
INVARIANT StoppedOnlyWhenGone
