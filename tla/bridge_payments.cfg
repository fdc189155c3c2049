\* Two concurrent calls over two launches, every kind of reply, a chain that
\* settles what was signed, nonces that may collide.
SPECIFICATION Spec
CONSTANTS
  BadAmount = BadAmount
  NoTimeout = NoTimeout
  Unset = Unset
  NoKey = NoKey
  NoEntry = NoEntry
  MaxTimeout = 2
  DefaultTimeout = 1
  Slack = 2
  Calls = {c1, c2}
  Keys = {k1}
  Payers = {k1}
  Allowances = {2}
  MaxClock = 3
  Replies <- AllReplies
  Guards = {Unset, 2}
  Skews <- EitherWay
  MaxSkew = 1
  Nonces = {n1, n2}
  MaxSessions = 2
SYMMETRY CallAndNonceSymmetry
INVARIANTS
  TypeOK
  CeilingRespected
  CostBounded
  PaidOnce
  TruthfulAnswers
  UptoPreferred
PROPERTIES
  KeepsPromise
