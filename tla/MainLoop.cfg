\* main() with two executions of run(), a message every second cycle.
CONSTANTS
  Main = main
  w1 = w1
  w2 = w2
  s1 = s1
  s2 = s2
  None = None
  Users <- MCUsers
  Workers <- MCWorkers
  Sessions <- MCSessions
  Calls <- MCCalls
  Delays <- NoDelays
  RetryLimit = 1
  OutCap = 2
  MutexWorks = TRUE
  MaxCount = 2
SPECIFICATION FairMainSpec
INVARIANTS
  MainTypeOK
  MessageDue
PROPERTY
  BotComesBack
