CONSTANTS
  Servers = {s1, s2}
  Broadcasters = {b1}
  Singles = {c1}
  Deadlines = {b1}
  Zero = Zero
  NoOne = NoOne
  MaxLosses = 1
SPECIFICATION Spec
INVARIANTS ErrorIsCause OneConnection
PROPERTIES SettledReply ErrorEndsCall
CHECK_DEADLOCK FALSE
