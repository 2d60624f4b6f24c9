SPECIFICATION FairSpec
CONSTANTS
  User = {alice, bob}
  MaxSend = 3
INVARIANTS TypeOK SameConversation OwnAnswer DiesOfAbrupt
PROPERTIES BackToPrompt
CHECK_DEADLOCK FALSE
