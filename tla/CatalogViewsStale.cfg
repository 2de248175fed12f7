\* A view stacked on one that fails to re-plan.
SPECIFICATION Spec
CONSTANTS
  class = class
  settings = settings
  tables = tables
  columns = columns
  usage = usage
  Tables = {class, settings}
  Independent = {settings}
  Views = {tables, columns, usage}
  BaseOf <- BaseTables
  InnerOf <- InnerViews
  Orders <- AllOrders
  Breakable = {tables}
  MaxRegistrations = 1
CHECK_DEADLOCK FALSE
INVARIANT StaleViewsAreNamed
