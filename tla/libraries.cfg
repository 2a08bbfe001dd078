SPECIFICATION LibSpec
CONSTANTS
  Char = {"a", "CR", "LF"}
  BlockSize = 2
  MaxIov = 3
  CopyBuf = 2
  MaxLine = 4
  MfileBytes = 3
  MfileBlocks = 2
  Plain = {0, 77, 255}
  Text = {56, 61, 10}
  MaxPlain = 4
  MaxText = 7
  MaxPiece = 4
  SizeBits = 6
  Octet = {9, 32, 65, 128, 195, 227, 240}
  MaxOctets = 5
  Strs = {x, y}
  Pieces <- MCPieces
  ALIGNMENT = 4
  SPACE = 16
  Slack = 2
  UintBits = 6
  StrCalls = 5
  IniLines <- MCLines
  Edits <- MCEdits
  Lower <- MCLower
  LINESZ = 16
  ItemLen = 4
  KeyPad = 3
  DICTMINSZ = 1
  Lacks <- MCLacks
  MaxLines = 3
  MaxEdits = 2
  HashByte = {0, 9, 175}
  Md5Len = 2
  Sha1Len = 3
  HmacLens = {0, 2, 3, 4}
  HmacBuf = 3
  OutSizes = {0, 1, 2, 3, 4, 5, 6, 7, 9}
  CryptBits = 6
  k1 = k1
  k2 = k2
  k3 = k3
  k4 = k4
  Key <- MCKey
  Hash <- MCHash
  Val = {v1, v2}
  Primes <- MCSizes
  UsedMod = 65536
  MaxEntries = 4
  LateDeletes = FALSE
  AllocFails = TRUE
INVARIANTS
  MfileFaithful
  Base64Correct
  Utf8Correct
  StringsSafe
  IniCorrect
  TableSound
  DigestText
CHECK_DEADLOCK FALSE
