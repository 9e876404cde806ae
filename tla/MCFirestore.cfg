SPECIFICATION FairSpec
CONSTANTS
  MaxPending = 2
  MaxWrites = 2
  MaxOthers = 1
  MaxFaults = 1
  MaxRefused = 1
  MaxGets = 1
  MaxNews = 1
CHECK_DEADLOCK FALSE
INVARIANTS TypeOK ResponsesMatch IdleUnneeded TimersUnneeded ViewAgrees ReadYourWrites
PROPERTIES ImplementsWriteQueue NoFlicker Settles
