\* Two runs for one wallet, in any order or at once, a settlement in between.
SPECIFICATION FairSpec
CONSTANTS
  Runs = {r1, r2}
  Amounts = {1, 2}
  Allowances = {0, 1}
  MaxDraws = 1
INVARIANTS
  OnlyWithConsent
  TruthfulReports
  ReadyWhenReported
  NeedlessOnlyWhenOvertaken
PROPERTIES
  EndsUnlessForgotten
  KeepsApproval
