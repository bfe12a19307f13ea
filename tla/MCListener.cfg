SPECIFICATION OneListener
CONSTANTS
  l1 = l1
  l2 = l2
  c1 = c1
  c2 = c2
  NoConn = NoConn
  NoListener = NoListener
  Listeners = {l1, l2}
  Conns = {c1, c2}
  MaximumPlayers = 1
  LoginTimeout = {l1}
  Closing = {l1, l2}
  Failing = {l1, l2}
PROPERTIES ClosedConnLeaves UnauthenticatedLeaves CloseReturns FailedListenerShutsDown
CHECK_DEADLOCK FALSE
