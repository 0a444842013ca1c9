\* Handles that are not mutexes: waiting on them fails at once.
CONSTANTS
  main = main
  other = other
  w1 = w1
  w2 = w2
  w3 = w3
  s1 = s1
  s2 = s2
  None = None
  Users <- MCUsers
  Workers <- MCWorkers
  Sessions <- MCSessions
  Calls <- StartAndQuit
  Delays <- MCDelays
  RetryLimit = 1
  OutCap = 2
  MutexWorks = FALSE
SPECIFICATION Spec
INVARIANT
  OneUpdateAtATime
