\* One connection that describes and executes a SHOW.
SPECIFICATION Spec
CONSTANTS
  Connections = {c1}
  Users = {u1}
  Values = {"v"}
  Statements <- ShowStatements
  Base = base
  None = none
  MaxCaptured = 1
INVARIANT
  DescriptionMatchesRows
