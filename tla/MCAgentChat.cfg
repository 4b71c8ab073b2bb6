SPECIFICATION FairSpec
CONSTANTS
  Requests = {r1, r2, r3}
  Sessions = {s1}
  c1 = c1
  c2 = c2
  CallIds <- TwoIds
  ToolRequests <- TwoCalls
  MaxRounds = 2
  HasSystemPrompt = TRUE
  ReportsUsage = TRUE
  Nobody = Nobody
INVARIANTS
  HistoryIsWholeTurns
  RecordedOnce
  OkIsRecorded
  PromptInSync
  RoundsBounded
  EveryCompletionBilled
PROPERTIES
  ImplementsLog
  TurnsEnd
