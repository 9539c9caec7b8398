SPECIFICATION Spec
CONSTANTS
  t1 = t1
  t2 = t2
  None = None
  Tracks <- MCTracks
  MaxPlays = 3
  ScrobbleAfter = 1
  Answers <- AllAnswers
  LastfmResults <- AllResults
SYMMETRY Symmetry
INVARIANTS
  TypeOK
  MetaBelongsToPlay
  OneEntryPerPlay
PROPERTIES
  DuePlayIsScrobbledOnExit
  ImplementsPlayLog
