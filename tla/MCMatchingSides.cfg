SPECIFICATION Spec
CONSTANTS
  w1 = w1
  w2 = w2
  buy1 = buy1
  buy2 = buy2
  sell1 = sell1
  eurusd = eurusd
  Nobody = Nobody
  Workers <- MCWorkers
  Messages <- MCTrades
  Key <- MCKey
  Role <- MCRole
  MaxAttempts = 2
  MaxFaults = 1
INVARIANTS
  OppositeSides
