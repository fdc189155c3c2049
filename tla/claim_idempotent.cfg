\* A run whose transaction is mined while another run is at its prompt.
SPECIFICATION Spec
CONSTANTS
  Runs = {r1, r2}
  Amounts = {1, 2}
  Allowances = {0, 1}
  MaxDraws = 1
PROPERTIES
  SkipsIfApproved
