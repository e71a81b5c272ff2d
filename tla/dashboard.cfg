SPECIFICATION Spec
CONSTANTS
  Pages = {p1}
  QUEUE = 1
  RING = 2
  PageRequests <- MCPageRequests
  OtherRequests <- MCOtherRequests
  MaxRequests = 3
  None = None
PROPERTIES
  PhasesAreAskedFor
  HandlersReturn
  PagesComeBack
\* It waits for requests, which are bounded.
CHECK_DEADLOCK FALSE
