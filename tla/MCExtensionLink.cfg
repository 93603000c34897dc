CONSTANTS
  Urls = {u1, u2}
  Tokens = {t1, t2}
  GoodTokens = {t1}
  StrangeUrls = {u2}
  DefaultUrl = u1
  Sockets = {c1, c2, c3}
  MaxSaves = 2
  MaxFaults = 3
  None = None
  Null = Null
SPECIFICATION FairSpec
INVARIANTS OneAttempt NoRetryOfRefused WorkerMatchesStorage
PROPERTY EventuallyConnected
CHECK_DEADLOCK FALSE
