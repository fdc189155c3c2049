\* A wallet that granted Permit2 nothing.
SPECIFICATION Spec
CONSTANTS
  BadAmount = BadAmount
  NoTimeout = NoTimeout
  Unset = Unset
  NoKey = NoKey
  NoEntry = NoEntry
  MaxTimeout = 2
  DefaultTimeout = 1
  Slack = 2
  Calls = {c1, c2}
  Keys = {k1}
  Payers = {k1}
  Allowances = {0}
  MaxClock = 4
  Replies <- AllReplies
  Guards = {Unset, 2}
  Skews = {1}
  MaxSkew = 1
  Nonces = {n1}
  MaxSessions = 2
PROPERTIES
  ExactUntilApproved
