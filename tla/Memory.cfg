SPECIFICATION Spec
CONSTANTS
  a1 = a1
  a2 = a2
  None = None
  Ask = {a1, a2}
  Command = {a1}
  MaxTurns = 4
  Trigger = 5
  Budget = 2
  Past = 1
  MaxConvs = 2
  MaxCompactions = 2
INVARIANTS NoTurnForgotten CallsAnswered NoOrphanResponse
CHECK_DEADLOCK FALSE
