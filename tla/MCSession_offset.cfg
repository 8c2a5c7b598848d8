CONSTANTS
  Addr = {a1, a2, a3, a4, a5, a6, a7, a8, a9, a10, a11, a12}
  R_NilValue = nilvalue
  rawStream = rawstream
  NoObject = NoObject
  Malformed = Malformed
  JsonValue <- MCJsonValue
  MsgpackValue <- MCMsgpackValue
  Decodes <- MCDecodes
  DBL_MANT_DIG = 3
  NA_LOGICAL <- NALogical
  NA_STRING = 9
  NAText = 4
  Streams <- MCStreams
  Junk <- MCJunk
  SexpValue <- MCSexpValue
  GoValue <- MCGoValue
  MessageValues <- MCMessageValues
SPECIFICATION Spec
INVARIANT OffsetAfterNewline
