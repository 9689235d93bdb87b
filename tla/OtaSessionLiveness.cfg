\* luat_http_client_destroy returns after the callback it interrupts.
CONSTANTS
  MaxSessions = 2
  Chunks = 2
  QueueLimit = 3
  MaxRetries = 1
  GenModulus = 8
  EarlyErrors = {}
  DestroyJoins = TRUE
SPECIFICATION FairSpec
PROPERTIES
  SessionEnds
