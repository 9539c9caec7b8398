SPECIFICATION FairSpec
CONSTANTS
  t1 = t1
  t2 = t2
  None = None
  Tracks <- MCTracks
  MaxPlays = 2
  MaxFrames = 2
  MaxShutdowns = 1
  ScrobbleAfter = 1
  Answers <- AllAnswers
  LastfmResults <- AllResults
  SendAnswers <- AllResults
  SubAnswers <- AllSubAnswers
  Frames <- AllFrames
INVARIANTS
  NoLostWakeup
  GoodbyeIsLast
  ShutdownScrobbles
PROPERTIES
  ImplementsLife
  ShutdownCompletes
  PlayIsAnnounced
  HelloIsAnswered
