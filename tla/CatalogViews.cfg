\* Two registrations over three stacked views, every creation order, a body that
\* may stop planning and one that may never have planned.  A failed build stops.
SPECIFICATION FairSpec
CONSTANTS
  class = class
  settings = settings
  tables = tables
  columns = columns
  usage = usage
  Tables = {class, settings}
  Independent = {settings}
  Views = {tables, columns, usage}
  BaseOf <- BaseTables
  InnerOf <- InnerViews
  Orders <- AllOrders
  Breakable = {tables, usage}
  MaxRegistrations = 2
CHECK_DEADLOCK FALSE
INVARIANTS
  OkMeansFresh
  ReadyMeansComplete
  FailureIsNotTheOrder
  SchemaIsRestored
PROPERTY CreationEnds
