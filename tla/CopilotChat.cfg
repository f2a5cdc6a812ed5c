\* One message: two rounds of one lookup, one proposal, one keep-alive.
CONSTANTS
  Turns = {t1}
  MaxRounds = 2
  MaxLookups = 1
  MaxPrepared = 1
  MaxKeepalives = 1
SPECIFICATION ChatSpec
CHECK_DEADLOCK FALSE
INVARIANTS
  ChatTypeOK
  StoredRoundsAreWhole
  ShownRepliesAreStored
  CardsAreOfStoredProposals
  EventsComeInOrder
PROPERTIES
  AbandonedTurnsStop
  ChatsEnd
