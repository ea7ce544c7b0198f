SPECIFICATION Spec
CONSTANTS
  Bases <- MCBases
  OpsOf <- MCOpsOf
  ListFields = {"points"}
  FieldsOf <- MCFieldsOf
INVARIANTS
  TP1ExceptClashes
  RemoveWins
  FieldwiseMerge
  ComposeExceptLossy
CHECK_DEADLOCK FALSE
