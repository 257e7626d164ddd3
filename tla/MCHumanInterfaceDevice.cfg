CONSTANTS
  MaxHeld = 3
  MaxListLen = 3
SPECIFICATION Spec
INVARIANT BookkeepingMatchesHeld
