SPECIFICATION Spec
CONSTANTS
  Quarter = 4
  HexBase = 2
  WordBase = 3
  HalfDigits = 4
  Countries <- MCCountries
  MaxDigits <- MCMaxDigits
  Gids <- MCGids
  Known <- MCKnown
  Tracks <- MCTracks
  Artists <- MCArtists
  Albums <- MCAlbums
INVARIANTS
  IdIsTheNumber
  NamesAreOfTheTrack
  AvailableAsListed
  PanicsForAReason
