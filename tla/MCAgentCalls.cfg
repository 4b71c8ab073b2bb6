SPECIFICATION FairCallsSpec
CONSTANTS
  Invocations = {i1, i2}
  fetch = fetch
  sum = sum
  spin = spin
  hidden = hidden
  unknown = unknown
  net = net
  disk = disk
  SkillNames = {fetch, sum, spin, hidden, unknown}
  Registered <- Known
  AnyAllowed = FALSE
  Allowed <- Listed
  Granted = {net}
  Required <- Needs
  HasTimeout = TRUE
  Cooperative <- Awaiting
  Workers = 2
  NoName = NoName
  Calls = {c1, c2, c3}
  Names = {peer}
  pinned = pinned
  again = again
  open = open
  ours = ours
  other = other
  Handles = {pinned, again, open}
  Keys = {ours, other}
  Pinned <- PinnedKeys
  NoKey = NoKey
  NoHandle = NoHandle
  Nobody = Nobody
INVARIANTS
  AnswersAreTrue
  NoPayloadBeforeProof
  OneVerification
PROPERTIES
  FinishedIsReturned
  CallersAnswered
  TimedOutStops
  CallsEnd
\* Every call may be over and every peer registered.
CHECK_DEADLOCK FALSE
