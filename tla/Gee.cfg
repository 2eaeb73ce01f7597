CONSTANTS
  a = a
  b = b
  p = p
  pp = pp
  x = x
  y = y
  rest = rest
  empty = empty
  Empty = empty
  Params = {x, y}
  Stars = {rest}
  Methods = {"GET"}
  GroupPrefixes <- MCPrefixes
  Patterns <- MCPatterns
  Directories <- MCDirectories
  FilePath = rest
  LongerSegments <- MCLongerSegments
  Requests <- MCRequests
  Paths <- MCPaths
  MaxGroups = 3
  MaxRoutes = 3
  MaxServed = 4
  MaxActs = 4
SPECIFICATION Spec
INVARIANTS RoutesAgree GroupMiddlewareFirst
PROPERTIES FatalEndsChain 
CHECK_DEADLOCK FALSE
