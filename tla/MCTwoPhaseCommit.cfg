SPECIFICATION FairSpec
CONSTANTS
  w1 = w1
  w2 = w2
  pair1 = pair1
  buyerTrade = buyerTrade
  sellerTrade = sellerTrade
  Nobody = Nobody
  Workers <- MCWorkers
  Messages <- MCMessages
  TradesOf <- MCTradesOf
  MaxAttempts = 2
  MaxFaults = 3
INVARIANTS
  EndsAreEarned
  BothOrNeither
  LogIsHonest
  SettledOnceWithinLeases
PROPERTIES
  EventuallySettled
