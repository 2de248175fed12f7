\* Two connections, two roles.
SPECIFICATION Spec
CONSTANTS
  Connections = {c1, c2}
  Users = {u1, u2}
  Values = {"v"}
  Statements <- MixedStatements
  Base = base
  None = none
  MaxCaptured = 2
SYMMETRY Symmetry
INVARIANTS
  ShowTellsOwnSettings
  CaptureHoldsAnswers
