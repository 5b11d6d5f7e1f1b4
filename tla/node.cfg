SPECIFICATION NodeSpec
CONSTANTS
  Keys = {"r", "a0", "a0b", "b1"}
  Nodes = {"me", "a", "b"}
  Local = "me"
  CircuitLen = 2
  NoKey = "-"
  ServiceKeys = {"k1", "k2"}
  MaxListed = 2
  Callers = {"x", "y"}
  Ports = {80, 443}
  Addresses = {"a"}
  ServiceBufs = 1
  MaxNodeCalls = 5
  Streams = {"s", "t"}
  Addrs = {"a"}
  Messages = 2
  ConnBufs = 2
  MaxConns = 2
  Engines = {"a", "b"}
  MaxRuns = 1
  MaxTime = 2
INVARIANTS
  SelectionsFit MessagesPassedOn
PROPERTIES
  TablesKeepUp   
CHECK_DEADLOCK FALSE
