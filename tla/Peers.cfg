SPECIFICATION PeersFairSpec
CONSTANTS
  macA = macA
  macB = macB
  macC = macC
  passA = passA
  passB = passB
  beginAB = beginAB
  beginC = beginC
  CHALLENGE_LENGTH = 2
  MacText <- MCMacText
  PassText <- MCPassText
  Prefix <- MCPrefix
  Requests <- MCRequests
  Damage = {size, header, copy, first}
  Intact = Intact
  FirstCopy = first
INVARIANTS
  PeersTypeOK
  AnswersInStep
  AnswersAreFresh
  ListenerIsReady
PROPERTY
  PeersGoOn
CHECK_DEADLOCK FALSE
