\* PostgreSQL, and files whose literals hold backslashes.
CONSTANTS
  Dialects = {"pg"}
  Written = {"backslash"}
  MaxDepth = 2
SPECIFICATION SqlSpec
INVARIANT ProtectedStays
CHECK_DEADLOCK FALSE
