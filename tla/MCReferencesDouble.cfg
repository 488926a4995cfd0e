CONSTANTS
  Setups <- DoubleSetups
  MaxLines = 2
  Foreign <- ForeignTexts
  MaxRows = 1
  MaxChanges = 0
SPECIFICATION Spec
CHECK_DEADLOCK FALSE
INVARIANT FieldsFollowTheMove
