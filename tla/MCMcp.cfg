SPECIFICATION McpSpec
CONSTANTS
  Calls = {init, c1, c2}
  Handshake = init
  ServerIds = {9}
  MaxUnasked = 2
  Nobody = Nobody
  Declared <- TestDeclared
  HttpCalls = {h1, h2}
  MaxSessions = 2
INVARIANTS
  OwnAnswer
  SessionFollows
  ConnectedInOrder
PROPERTIES
  CallsEnd
  DeathFreesCallers
CHECK_DEADLOCK FALSE
