\* Three turns of a panel, with resets, stops, retries and a page that is left.
CONSTANTS
  None = None
  MaxTurns = 3
  MaxStatuses = 1
SPECIFICATION Spec
INVARIANTS
  TurnsKeepToTheirConversation
  TurnsEndAsTheyWere
