SPECIFICATION Spec
CONSTANTS
  ColumnLists <- MCColumnLists
  Values <- MCValues
  RowLists <- MCRowLists
  PlaceholderLists <- MCPlaceholderLists
  Words <- MCWords
  IndexOf <- MCIndex
  LowerOf <- MCLower
  MaxFailures = 1
INVARIANTS
  TypeOK
  FetchesIntoAllColumns
  EveryColumnReturned
  KeysAreStandard
CHECK_DEADLOCK FALSE
