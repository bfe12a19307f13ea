SPECIFICATION Spec
CONSTANTS
  l1 = l1
  l2 = l2
  c1 = c1
  c2 = c2
  NoConn = NoConn
  NoListener = NoListener
  Listeners = {l1, l2}
  Conns = {c1, c2}
  MaximumPlayers = 1
  LoginTimeout = {l1, l2}
  Closing = {l1}
  Failing = {l1}
SYMMETRY ConnSymmetry
INVARIANTS TypeOK SlotsExact CloseJoinsAll
CHECK_DEADLOCK FALSE
