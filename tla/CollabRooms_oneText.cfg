\* Everybody out and every bound used up, the document is simply closed.
SPECIFICATION FairSpec
CHECK_DEADLOCK FALSE
CONSTANTS
  u = u
  v = v
  o = o
  x = x
  e = e
  NoRoom = NoRoom
  NoRow = NoRow
  People = {u, v}
  Words = {o, x, e}
  Initial = {o}
  MaxLines = 2
  MaxHooks = 0
  Settings <- All
INVARIANTS TypeOK InTheRoom OneEpochEach Counted
PROPERTIES OneText Answered Closes
