SPECIFICATION Spec
CONSTANTS
  Tables = {User, Account}
  Ids = {1, 2, 3}
  Vals = {0, 1}
  Managed = {t1, t2}
  Plain = {p1}
  Hooks = {"insert"}
  Stores <- MCStores
  Scripts <- MCScriptsOf
  User = User
  Account = Account
  t1 = t1
  t2 = t2
  p1 = p1
  Missing = Missing
  Failed = Failed
  None = None
INVARIANT LocksFreed
PROPERTIES Transactional
CHECK_DEADLOCK FALSE
