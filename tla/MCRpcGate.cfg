SPECIFICATION GateFairSpec
CONSTANTS
  HotCall = {h1, h2}
  EnrichCall = {e1}
  BackgroundCall = {b1, b2}
  InFlight = 2
  MaxTimes = 1
INVARIANT GateBalance
 
