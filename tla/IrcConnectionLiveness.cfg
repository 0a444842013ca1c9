\* The lock is given back and the threads end, under the fairness of FairSpec.
CONSTANTS
  main = main
  other = other
  w1 = w1
  w2 = w2
  w3 = w3
  s1 = s1
  s2 = s2
  None = None
  Users <- MCUsers
  Workers <- MCWorkers
  Sessions <- MCSessions
  Calls <- AllCalls
  Delays <- MCDelays
  RetryLimit = 1
  OutCap = 2
  MutexWorks = TRUE
SPECIFICATION FairSpec
PROPERTIES
  InnerReleased
  WorkersDrain
  SuperfluousEnd
