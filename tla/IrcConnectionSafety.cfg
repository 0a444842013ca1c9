\* Every public method, two threads that call them, three executions of run(), two sessions.
CONSTANTS
  main = main
  other = other
  w1 = w1
  w2 = w2
  w3 = w3
  s1 = s1
  s2 = s2
  None = None
  Users <- TwoUsers
  Workers <- ThreeWorkers
  Sessions <- MCSessions
  Calls <- AllCalls
  Delays <- MCDelays
  RetryLimit = 1
  OutCap = 2
  MutexWorks = TRUE
SPECIFICATION Spec
SYMMETRY Symmetry
INVARIANTS
  TypeOK
  OneRunner
  RunnerSessionAlive
  CommandSessionAlive
  NoLeak
  CallbackRunning
  DelayHonoured
  PreparationExclusive
PROPERTIES
  SessionStable
  ImplementsService
