\* Credentials and the logs of two clients, each on its own.
CONSTANTS
  r1 = r1
  Providers = {claude, grok}
  Fallback = {claude}
  Elsewhere = {grok}
  Startup = Startup
  Plans = {Startup, r1}
  NoPlan = NoPlan
  MaxEnablement = 2
  MaxCredential = 1
  NumSessions = 2
  Reports = {"both", "totals", "last"}
  MaxWrites = 5
  MaxSecond = 1
  MaxScans = 2
  Requests = {"r1", "r2"}
  MaxTokens = 2
  MaxLines = 4
SPECIFICATION LaunchSpec
INVARIANTS DetectionInv TokensCountedOnce
PROPERTIES LaterCommandsWin ChoicesWinOverReseeding DroppedOnlyWhenOvertaken
CHECK_DEADLOCK FALSE
