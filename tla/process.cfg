SPECIFICATION ProcessSpec
CONSTANTS
  Clients = {"k", "other"}
  MaxRuns = 2
  Fails = TRUE
  Adders = {"a", "b"}
  Requesters = {"r", "s"}
  Restarters = {"s"}
  MaxSignals = 2
  Chans = {"t", "s"}
  Capacity <- MCCapacity
  Users = {"u", "v"}
  MaxCalls = 8
  Root = "app"
  ConfigFile = "ConfigFile"
  HomePaths = {"~cfg", "~log", "~x", "~y", "~z"}
  DataPaths = {"~cfg", "~log"}
  MaxStarts = 2
INVARIANTS
    QuitSafe 
PROPERTIES
  StartSettles AddersOrShutdown
CHECK_DEADLOCK FALSE
