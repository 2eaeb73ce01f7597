SPECIFICATION Spec
CONSTANTS
  v1 = v1
  v2 = v2
  v3 = v3
  Name = Name
  Age = Age
  Score = Score
  Programs = {v1, v2, v3}
  Columns <- MCColumns
  KeyColumn = Name
  Keys = {1, 2}
  Val = Val
  Null = Null
  Missing = Missing
  Tables <- MCTables
  None = None
  MaxRows = 2
  MaxStarts = 1
PROPERTIES MigratesAtOnce MigrateLetsGo
CHECK_DEADLOCK FALSE
