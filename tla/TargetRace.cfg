\* A new target is set after run() has looked for a port in the old one.
CONSTANTS
  MaxHashes = 3
  Ports = {}
  RetryLimit = 2
  None = None
SPECIFICATION RacingSpec
INVARIANT
  PortFromString
\* A program that starts without a server crashes.
CHECK_DEADLOCK FALSE
