CONSTANTS
  NServers = 2
  Wrap = 18
  Budgets = {0, 2, 8}
  NitzBudget = 3
  ServerBudget = 4
  MinAttempt = 2
  TimePoll = 1
  NetPoll = 2
  UdpPoll = 1
  MaxDns = 5
  Offsets = {5}
  Quarter = 4
  East = 3
  West = 2
  NoInfo = NoInfo
  MaxStates = 2
  Cids = {0, 1, 2}
  MaxCid = 1
  MaxApn = 2
  MaxText = 2
  BufferSizes = {0, 1, 2}
  Infos <- SomeInfos
  RsrpRaws <- SomeRsrp
  RsrqRaws <- SomeRsrq
  Csqs <- SomeCsqs
  Codes <- SomeCodes
SPECIFICATION ModemSpec
INVARIANTS
  TimeInv
  StatusWasTrue
  ReadingSound
PROPERTIES
  AnswersHonestly
  CallReturns
