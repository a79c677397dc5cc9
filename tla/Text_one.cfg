CONSTANTS
  Clients = {"c1", "c2", "c3"}
  Request <- Requests
  Buf = 2
  Backlog = 2
  Settings <- FourSettings
  obj1 = obj1
  obj2 = obj2
  name1 = name1
  name2 = name2
  Objs = {obj1, obj2}
  Names <- MCNames
  Values = {"1", "2"}
  Files <- MCFiles
  Disks <- MCDisks
  MaxOps = 4
  MaxSort = 4
SPECIFICATION JobSpec
INVARIANTS KeptApart TablesTell
PROPERTIES SavedReadsBack Served
CHECK_DEADLOCK FALSE
