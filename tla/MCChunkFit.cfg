SPECIFICATION FairStorageSpec
CONSTANTS
  Requests = {r1, r2, r3}
  Processes = {p1, p2}
  Size <- TwoMessages
  NoTtl = NoTtl
  Ttls = {0, 60, 200}
  r1 = r1
  r2 = r2
  r3 = r3
  Nobody = Nobody
  Histories <- TestHistories
  Kinds = {"memory", "qdrant", "pinecone", "pg", "custom"}
  EmbedBatch = 2
  StoreBatch = 2
  Overfetch = 2
  MaxRetries = 3
  BaseDelay = 10
  MaxDelay = 35
  MaxU32 = 3
  MaxI64 = 127
  Jitters = {0, 20}
  RetryAfters = {{}, {5}, {60}}
INVARIANTS
  CallsFit
CHECK_DEADLOCK FALSE
