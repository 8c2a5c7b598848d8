CONSTANTS
  timed = timed
  forever = forever
  Call = {timed, forever}
  Timed = {timed}
  NoCall = NoCall
  MaxAge = 6
SPECIFICATION FairSpec
INVARIANTS TypeOK ReplyToRequester MainNotStuck GoneServerStopped
PROPERTIES IdleServerKept EventuallyServed CallsReturn GoneLeadsToStop RpcSpec
