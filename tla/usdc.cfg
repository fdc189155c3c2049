\* Every text of up to two digits before the point and four after it, in a
\* ternary system with three decimals.  A ceiling that is rejected is the end.
SPECIFICATION Spec
CONSTANTS
  Base = 3
  Decimals = 3
  Shown = 1
  MaxUnits = 146
  Plus = Plus
  Other = Other
  Bad = Bad
  None = None
  Texts <- MCTexts
CHECK_DEADLOCK FALSE
INVARIANTS
  TypeOK
  ReadAsWritten
  ShownExactly
