SPECIFICATION WolFairSpec
CONSTANTS
  macA = macA
  macB = macB
  macBad = macBad
  hostA = hostA
  hostB = hostB
  broadcast = broadcast
  passA = passA
  passB = passB
  passBad = passBad
  dash = dash
  fileA = fileA
  Null = Null
  NotNum = NotNum
  Garbage = Garbage
  Undef = Undef
  Dash = dash
  FF = 255
  Word = 65536
  DEFAULT_PORT = 40000
  DEFAULT_IPADDR = broadcast
  MAGIC_HEADER = 2
  MAC_LEN = 2
  MAGIC_TIMES = 2
  MAGIC_SECUREON = 2
  MacText <- MCMacText
  HostText <- MCHostText
  PassText <- MCPassText
  PathText <- MCPathText
  DashPaths <- MCDashPaths
  Numeral <- MCNumeral
  PortNum <- MCPortNum
  Byte <- MCByte
  MacFields <- MCMacFields
  Ethers <- MCEthers
  PassFields <- MCPassFields
  Prefix <- MCPrefix
  Files <- EmptyFile
  CommandLines <- ProxyLines
INVARIANT
  SentMeansSuccess
CHECK_DEADLOCK FALSE
