SPECIFICATION FairSpec
CONSTANTS
  app1 = app1
  app2 = app2
  admin1 = admin1
  Requests <- MCRequests
  AppRequests <- MCAppRequests
  BatchSize = 2
  FlushSize = 1
  MaxFaults = 1
INVARIANTS
  NothingIsLost
  RepeatsNeedFaults
  AnswersFollowExecution
PROPERTIES
  AnswersLeaveToTheirRequest
  ImplementsLog
  EveryCommandIsExecuted
  EveryAnswerIsTaken
CHECK_DEADLOCK FALSE
