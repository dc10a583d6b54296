\* Three hooks over two connections; two records with two actions in flight;
\* three values of a cell; three searches, two filters, two pages; three queries;
\* four rows on pages of three; forms of two fields;
\* four months of two or three days, of two instants each; two actions.
CONSTANTS
  h1 = h1
  h2 = h2
  h3 = h3
  Hooks = {h1, h2, h3}
  k1 = k1
  k2 = k2
  Keys = {k1, k2}
  NoKey = NoKey
  OfflineAfter = 2
  rec1 = rec1
  rec2 = rec2
  Records = {rec1, rec2}
  NoRecord = NoRecord
  MaxVersion = 2
  MaxPosts = 2
  x = x
  y = y
  z = z
  Values = {x, y, z}
  NoValue = NoValue
  Texts = {NoText, x, y}
  NoText = NoText
  f0 = f0
  f1 = f1
  Filters = {f0, f1}
  MaxPage = 2
  w1 = w1
  w2 = w2
  w3 = w3
  w4 = w4
  Rows = {w1, w2, w3, w4}
  NoRow = NoRow
  PageSize = 3
  Queries = {NoQuery, x, y}
  NoQuery = NoQuery
  NoOptions = NoOptions
  MaxLoads = 3
  field = field
  flag = flag
  FormFields <- MCFormFields
  Forms <- MCForms
  Contents = {x, y}
  NoContent = NoContent
  MonthLengths <- MonthsOfTheYear
  Week = 2
  Span = 4
  DayTicks = 2
  Zones <- ZonesOfBrowsers
  FirstDay = 6
  Links <- RangesInLinks
  NoDay = NoDay
  MaxTicks = 1
  Actions = {x, y}
  NoAction = NoAction
  MaxRuns = 2
SPECIFICATION PageSpec
PROPERTIES ActionsAreTold
INVARIANTS HooksShowTheConnection SettledShowsTheRecord UntypedWritesNothing BoxTellsTheSearch ListAnswersTheQuery CursorKeepsItsRow SavingIsTrue RangesAreTold
CHECK_DEADLOCK FALSE
