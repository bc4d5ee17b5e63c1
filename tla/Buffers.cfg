SPECIFICATION BuffersSpec
CONSTANTS
  hexA = hexA
  hexB = hexB
  name = name
  unknown = unknown
  passA = passA
  passB = passB
  badPass = badPass
  HostText = {}
  Null = Null
  Undef = Undef
  FF = 255
  MAGIC_HEADER = 6
  MAC_LEN = 6
  MAGIC_TIMES = 16
  MAGIC_SECUREON = 6
  Byte <- MCByte
  MacText <- MCMacText
  PassText <- MCPassText
  MacFields <- MCMacFields
  Ethers <- MCEthers
  PassFields <- MCPassFields
  MIN_CHUNK = 2
  MaxLine = 7
  Letter = {"a"}
  Newline = "newline"
  NUL = "nul"
  Free = "free"
  NoBlock = NoBlock
  Block = 4
  Field = 2
  Word = 16
  BlockSize = 8
  MaxPiece = 9
  MaxFed = 19
INVARIANTS
  BuffersTypeOK
  CompletePacket
  SizeIsAllocation
  BookkeepingHolds
  LineIsWhole
  EchoComesBack
  EveryOctetOnce
CHECK_DEADLOCK FALSE
