\* Every command that only looks, with up to three changes by others meanwhile.
CONSTANTS
  a = a   b = b   c = c   x = x   y = y
  Package = {a, b, c}
  Repo = {x, y}
  MaxRev = 2
  MaxChanges = 3
  Matching = {a, c}
  None = None
  Unreadable <- MCUnreadable
  Malformed <- MCMalformed
SPECIFICATION MCSpec
INVARIANTS  NothingInvented 
CHECK_DEADLOCK FALSE
