SPECIFICATION Spec
SYMMETRY Alike
CONSTANTS
  u1 = u1
  UIDs = {u1}
  u2 = u2
  A = A
  B = B
  Nicks = {A, B}
  NoNick = NoNick
  Never = Never
  Hosts <- OneHost
  Bodies <- TwoBodies
  Kinds <- WindowKinds
  Secured = {u1}
  NickForms = {"nick"}
  Limit <- SmallLimits
  MaxRecentMessages = 2
  MaxRecentJoins = 2
  MaxRecentEvents = 2
  Minute = 0
  BurstResume = 1
  BurstHold = 0
  MaxIdle = 0
  MaxLines = 5
  MaxBacklog = 1
  MaxConns = 1
  MaxTime = 1
  MaxAdmin = 1
  MaxSaves = 0
  MaxStops = 0
  MaxWork = 6
INVARIANTS HashesMatchWindow FeaturesCurrent RateAlertsTrue
CHECK_DEADLOCK FALSE
