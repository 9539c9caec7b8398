SPECIFICATION FairSpec
CONSTANTS
  t1 = t1
  t2 = t2
  None = None
  Tracks <- MCTracks
  MaxPlays = 2
  MaxFrames = 1
  MaxShutdowns = 1
  ScrobbleAfter = 1
  Answers <- OnlyOk
  LastfmResults <- OnlyOk
  SendAnswers <- OnlyOk
  SubAnswers <- OnlyOpen
  Frames <- FewFrames
PROPERTIES
  DuePlayIsScrobbled
