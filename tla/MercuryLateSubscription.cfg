SPECIFICATION Spec
CONSTANTS
  None = None
  MaxRequests = 1
  MaxEvents = 1
  Asks <- OnlySub
  Replies <- HeaderOnly
  Events <- OneEvent
  ListedUri <- user
  Extends <- MCExtends
INVARIANTS
  EventIsDelivered
