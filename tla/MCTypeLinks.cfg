CONSTANTS
  Tables <- MCTables
  Strings = {0, 1, 2, 3, 4}
  Unnamed = Unnamed
  Graphs <- MCGraphs
  Methods <- MCMethods
SPECIFICATION MCSpec
INVARIANT Exact
PROPERTIES Finishes Answered
CHECK_DEADLOCK FALSE
