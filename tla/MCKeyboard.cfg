SPECIFICATION FairSpec
CONSTANTS
  Keys <- MCKeys
  LINE = 3
INVARIANTS
  KeysTypedInOrder
  ModifiersFollowKeys
PROPERTIES
  HandlerReturns
