SPECIFICATION FairSpec
CONSTANTS
  None = None
  Streams <- MCStreams
  SEQ_MOD = 2
  IdSpaces = {1, 2}
  MaxChannels = 2
  MaxKeys = 2
  MaxAsked = 2
  MaxWire = 1
INVARIANTS
  DataIsWhole
  KeyIsForRequest
  PanicsForAReason
PROPERTIES
  KeysAreAnswered
  StreamsEnd
