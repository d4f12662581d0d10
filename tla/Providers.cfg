\* A connection, its session, the logins, the claims and the prices, each on its own.
CONSTANTS
  MaxSaves = 2
  MaxRefreshes = 2
  MaxLaunches = 2
  Accounts = {"a", "b"}
  MaxIssued = 4
  Scopes = {"x", "y"}
  AccountIds = {1, 2}
  PageSize = 1
  MaxTokens = 3
  Orgs = {"o", "p"}
  NumPlaces = 2
  Names = {"p"}
  MaxCalls = 2
  MaxLookups = 1
  MaxCommands = 1
  Credits = {"c1", "c2"}
  Expiries = {"e1", "e2"}
  MaxRequests = 3
  Sources = {"litellm", "supplement"}
  Dated = {"supplement"}
  Bundles = {0, 2}
  MaxVersions = 2
  MaxStarts = 2
SPECIFICATION ProvidersSpec
INVARIANTS
  ConnectionInv ClearedStaysEmpty OldDataOnlyUnderError
  ShowsOwn LossExplained OneCreditPerClaim PricesAreCurrent
PROPERTIES KeepsLogins
CHECK_DEADLOCK FALSE
