SPECIFICATION FairSpec
CONSTANTS
  a = a
  b = b
  o = o
  x = x
  y = y
  e = e
  None = None
  Outside = Outside
  Unread = Unread
  Users = {a, b}
  Joiner = a
  Words = {o, x, y, e}
  Initial = {o}
  Pen <- MCPen
  MaxAttempts = 3
  MaxReruns = 2
  Settings <- All
INVARIANTS TypeOK NothingTakenBack StaysStruck NothingLost
PROPERTIES OwnWordsOnly Lands
CHECK_DEADLOCK FALSE
