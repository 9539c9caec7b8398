SPECIFICATION FairSpec
CONSTANTS
  None = None
  MaxRequests = 2
  MaxEvents = 1
  Asks <- SubAndGet
  Replies <- MCReplies
  Events <- MCEvents
  ListedUri <- user
  Extends <- MCExtends
INVARIANTS
  PendingUntilFinal
  EventsAreWhole
PROPERTIES
  ImplementsRpc
  RequestsAreAnswered
