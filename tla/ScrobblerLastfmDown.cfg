\* The access point always answers; only Last.fm fails.
SPECIFICATION Spec
CONSTANTS
  t1 = t1
  t2 = t2
  None = None
  Tracks <- MCTracks
  MaxPlays = 2
  ScrobbleAfter = 1
  Answers <- OnlyOk
  LastfmResults <- AllResults
INVARIANTS
  LastfmErrorIsSurvived
