CONSTANTS
  Setups <- PassingSetups
  MaxLines = 3
  Foreign <- ForeignTexts
  MaxRows = 3
  MaxChanges = 1
SPECIFICATION Spec
CHECK_DEADLOCK FALSE
INVARIANTS
  FieldsFollowGuarded
  OthersKeepTheirBytes
  SchemaRefusedByThePlan
PROPERTIES
  RowsFollowTheMove
  OtherRowsStay
