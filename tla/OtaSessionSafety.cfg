\* The SDK may return from luat_http_client_destroy while a callback runs.
CONSTANTS
  MaxSessions = 2
  Chunks = 2
  QueueLimit = 3
  MaxRetries = 1
  GenModulus = 8
  EarlyErrors = {"INVALID_ARGUMENT", "NETWORK_NOT_READY", "INTERNAL"}
  DestroyJoins = FALSE
SPECIFICATION Spec
INVARIANTS
  StringsInUse
  ResourcesOwned
  ImageSound
  SessionInv
PROPERTIES
  StaleWorkIsInert
  FollowsLifecycle
