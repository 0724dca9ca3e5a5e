SPECIFICATION RoundSpec
CONSTANTS
  Calls = {c1, c2, c3}
  MaxRounds = 2
  MaxEdits = 2
  MaxEdges = 2
  MaxActions = 3
  VaultBudget = 1
SYMMETRY MCSymmetry
INVARIANTS RoundTypeOK PrerequisitesFirst RestoresRoundStart BudgetOvershoot
CHECK_DEADLOCK FALSE
