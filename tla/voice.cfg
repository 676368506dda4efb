\* A voice connection that closes while turns are under way; a broker that may be down.
SPECIFICATION Spec
CONSTANTS
  Turn = {t1, t2}
  Leaving = {}
  Beat = beat
  Voice = voice
  Nobody = nobody
  NoQuestion = noQuestion
  NoDecision = noDecision
  NoTrigger = noTrigger
  Question <- MCQuestion
  Guide <- MCGuide
  FirstSectionEmpty = FALSE
  Policy <- MCPolicy
  MaxProbes <- MCMaxProbes
  Dynamic <- MCDynamic
  Trigger <- MCTrigger
  LLMDecisions <- FewDecisions
  Conditions = {"stale", "overtime"}
  MaxInFlight = 2
  MaxCrashes = 0
  ClientsLeave = TRUE
  VoiceConnected = TRUE
  BrokerMayFail = TRUE
CHECK_DEADLOCK FALSE
INVARIANTS
  EndedOnce
