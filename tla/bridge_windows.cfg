\* One call over two launches, every timeout and every error of the clock from
\* two seconds behind to two ahead; block time goes on past every window.
SPECIFICATION Spec
CONSTANTS
  BadAmount = BadAmount
  NoTimeout = NoTimeout
  Unset = Unset
  NoKey = NoKey
  NoEntry = NoEntry
  MaxTimeout = 3
  DefaultTimeout = 2
  Slack = 2
  Calls = {c1}
  Keys = {k1}
  Payers = {k1}
  Allowances = {2}
  MaxClock = 9
  Replies <- TimedReplies
  Guards = {2}
  Skews <- Wrong
  MaxSkew = 2
  Nonces = {n1}
  MaxSessions = 2
INVARIANTS
  ExposureEnds
  ValidOnArrival
