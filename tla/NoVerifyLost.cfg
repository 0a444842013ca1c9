\* A reconnect to a server given with "##".
CONSTANTS
  MaxHashes = 3
  Ports = {6697, 65543}
  RetryLimit = 2
  None = None
SPECIFICATION Spec
INVARIANT
  PrefixFollowed
\* A program that starts without a server crashes.
CHECK_DEADLOCK FALSE
