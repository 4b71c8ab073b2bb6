SPECIFICATION Spec
CONSTANTS
  Calls = {init, c1}
  Handshake = init
  ServerIds = {2}
  MaxUnasked = 1
  Nobody = Nobody
INVARIANTS
  OwnAnswer
