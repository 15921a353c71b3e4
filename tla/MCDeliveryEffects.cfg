CONSTANTS
  MaxAttempts = 3
  MaxRounds = 2
  c1 = c1
  c2 = c2
  Calls <- MCCalls
  MayCall <- MCMayCall
  Classes <- MCClasses
SPECIFICATION Spec
INVARIANTS
  TypeOK
  EffectsNotRepeated
  RepliesNotRebought
  ReceiptsAreTrue
  ResultHidesNothing
  ConversationIsComplete
  EffectsDoNotOverlap
CHECK_DEADLOCK FALSE
