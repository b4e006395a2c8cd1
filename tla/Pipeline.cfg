SPECIFICATION Spec
CONSTANTS
  Capacity = 2
  MaxMsgs = 2
  MaxTexts = 1
INVARIANTS
  TypeOK
  ShownInOrder
  SavedLast
PROPERTY Flows
CHECK_DEADLOCK FALSE
