SPECIFICATION ServiceSpec
CONSTANTS
  MyConns = 4
  MyQueries = 2
  McKeys = {k1, k2}
  McValues <- MCValues
  CharBits = 3
  Chunks <- MCChunks
  PostData = {"d1"}
  BUF_SIZE = 3
  CurlCalls = 2
  CurlBytes = 5
  IoChar = {"a", "CR", "LF", "NUL"}
  IoLen = 3
  IoCalls = 2
  ReadBuf = 2
  LineBuf = 3
  IoTimeout = 1
  IoClock = 3
  EchoClients = {c1, c2}
  EchoFds = {5, 6}
  EchoSends = 2
INVARIANTS
  RetryIsSound
  McHonest
  CurlHonest
  TimedIoCorrect
  EchoCorrect
CHECK_DEADLOCK FALSE
