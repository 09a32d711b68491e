SPECIFICATION FairSpec
CONSTANTS
  Requests = {r1, r2}
  Threshold = 2
  MaxVersion = 2
  NoEntry = NoEntry
  Alien = Alien
INVARIANTS TypeOK TripAccounted OutageCost
PROPERTIES EventuallyFresh BreakerRecovers
