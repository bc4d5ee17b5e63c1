SPECIFICATION InputsSpec
CONSTANTS
  Inputs = {"macfile"}
  ArgVectors <- MCArgVectors
  macA = macA
  macB = macB
  hostA = hostA
  hostB = hostB
  broadcast = broadcast
  passA = passA
  passB = passB
  dash = dash
  dashFile = dashFile
  fileA = fileA
  Null = Null
  NotNum = NotNum
  Garbage = Garbage
  Dash = dash
  Word = 65536
  DEFAULT_PORT = 40000
  DEFAULT_IPADDR = broadcast
  MacText <- MCMacText
  HostText <- MCHostText
  PassText <- MCPassText
  PathText <- MCPathText
  DashPaths <- MCDashPaths
  Numeral <- MCNumeral
  PortNum <- MCPortNum
  CommandLines <- AllLines
  Files <- UnterminatedFiles
PROPERTY
  EndOfFileIsReported
CHECK_DEADLOCK FALSE
