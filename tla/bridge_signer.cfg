\* Three calls racing for the signer, two wallets the resolver may return, two
\* launches; no time passes and nothing is settled beyond the moment of signing.
\* Without symmetry: liveness is checked too, whose fairness is in the
\* properties themselves (Served).
SPECIFICATION Spec
CONSTANTS
  BadAmount = BadAmount
  NoTimeout = NoTimeout
  Unset = Unset
  NoKey = NoKey
  NoEntry = NoEntry
  MaxTimeout = 2
  DefaultTimeout = 1
  Slack = 2
  Calls = {c1, c2, c3}
  Keys = {k1, k2}
  Payers = {k1, k2}
  Allowances = {0}
  MaxClock = 0
  Replies <- CellReplies
  Guards = {1}
  Skews = {1}
  MaxSkew = 1
  Nonces = {n1}
  MaxSessions = 2
INVARIANTS
  QueueInv
  OnePayer
  NoLostWaiter
  PromptsAccounted
  PromptsOnlyToPay
PROPERTIES
  KeepsKeyPromise
  OnlyPayersWait
  AnsweredIfServed
