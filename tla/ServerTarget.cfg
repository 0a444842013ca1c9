\* Prefixes up to "###", a port that fits and one that does not.
CONSTANTS
  MaxHashes = 3
  Ports = {6697, 65543}
  RetryLimit = 2
  None = None
SPECIFICATION Spec
INVARIANTS
  TypeOK
  SslAsConfigured
  VerifiedUnlessAsked
  PortFromString
PROPERTIES
  PrefixFollowedFirst
\* A program that starts without a server crashes.
CHECK_DEADLOCK FALSE
