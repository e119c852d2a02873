SPECIFICATION FairSpec
CONSTANTS
  t1 = t1
  t2 = t2
  Track = {t1, t2, t3}
  t3 = t3
  Early = {t3}
  Dispatcher = Dispatcher
  Slots = 1
  MaxOffers = 1
  MaxLosses = 2
INVARIANTS OneOfferOut
PROPERTIES ExchangesEnd TracksAnnounced
CHECK_DEADLOCK FALSE
