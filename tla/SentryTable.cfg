SPECIFICATION Spec
SYMMETRY Alike
CONSTANTS
  u1 = u1
  u2 = u2
  UIDs = {u1, u2}
  A = A
  B = B
  Nicks = {A, B}
  NoNick = NoNick
  Never = Never
  Hosts <- OneHost
  Bodies <- OneBody
  Kinds <- TableKinds
  Secured = {}
  NickForms = {"nick", "target"}
  Limit <- TableLimits
  MaxRecentMessages = 1
  MaxRecentJoins = 1
  MaxRecentEvents = 1
  Minute = 0
  BurstResume = 2
  BurstHold = 1
  MaxIdle = 0
  MaxLines = 4
  MaxBacklog = 2
  MaxConns = 2
  MaxTime = 1
  MaxAdmin = 0
  MaxSaves = 2
  MaxStops = 2
  MaxWork = 4
INVARIANTS AttributedToSelf IndexHonest ModelsWhole StepsOnRecord
CHECK_DEADLOCK FALSE
