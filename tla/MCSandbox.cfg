SPECIFICATION Spec
CONSTANTS
  MaxRequests = 2
  MaxOutput = 2
CHECK_DEADLOCK FALSE
PROPERTY SessionsAccounted
