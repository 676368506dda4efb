\* Two overlapping turns, the beat task, a crash; fairness.
SPECIFICATION FairSpec
CONSTANTS
  Turn = {t1, t2}
  Leaving = {}
  Beat = beat
  Voice = voice
  Nobody = nobody
  NoQuestion = noQuestion
  NoDecision = noDecision
  NoTrigger = noTrigger
  Question <- MCQuestion
  Guide <- MCGuide
  FirstSectionEmpty = FALSE
  Policy <- MCPolicy
  MaxProbes <- MCMaxProbes
  Dynamic <- MCDynamic
  Trigger <- MCTrigger
  LLMDecisions <- FewDecisions
  Conditions = {"stale", "overtime"}
  MaxInFlight = 2
  MaxCrashes = 1
  ClientsLeave = TRUE
  VoiceConnected = FALSE
  BrokerMayFail = FALSE
CHECK_DEADLOCK FALSE
PROPERTIES
  EventuallyCompleted
  TurnsTerminate
