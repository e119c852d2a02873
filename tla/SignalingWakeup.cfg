SPECIFICATION FairSpec
CONSTANTS
  t1 = t1
  t2 = t2
  t3 = t3
  Track = {t1, t2}
  Early = {}
  Dispatcher = Dispatcher
  Slots = 1
  MaxOffers = 1
  MaxLosses = 0
PROPERTIES FlagDrained
CHECK_DEADLOCK FALSE
