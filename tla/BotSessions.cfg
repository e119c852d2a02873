SPECIFICATION Spec
CONSTANTS
  Inv = {"i1"}
  MaxSessions = 2
  MaxInbox = 2
  Members = 2
  MaxCalls = 2
  ToolBudget = 2
INVARIANTS OrcaGwLive
PROPERTIES CardsEnd CardsClose SessionsReplaced
CHECK_DEADLOCK FALSE
