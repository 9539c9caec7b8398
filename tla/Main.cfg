SPECIFICATION FairSpec
CONSTANTS
  ann = ann
  mail = mail
  bob = bob
  None = None
  Names <- MCNames
  Account <- MCAccount
  CommandLines <- MCCommandLines
  MaxStarts = 3
  MaxPresses = 2
INVARIANTS
  TypeOK
  RightUser
  EndIsExpected
  OnePressIsClean
PROPERTIES
  CacheIsFromLogin
  PressStops
