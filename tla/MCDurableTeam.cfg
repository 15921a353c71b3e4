CONSTANTS
  MaxAttempts <- MCMaxAttempts
  Size = 2
  MaxRounds = 1
  ToolUsers = {1, 2}
SPECIFICATION Spec
INVARIANTS
  TypeOK
  CallsNotRebought
  ReceiptsAccountForCalls
  MembersSeeTheAnswer
  ReceiptsAreInherited
CHECK_DEADLOCK FALSE
