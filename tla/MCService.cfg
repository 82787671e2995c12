SPECIFICATION FairSpec
CONSTANTS
  c1 = c1
  c2 = c2
  Calls = {c1, c2}
  NoCall = NoCall
  Requests <- MCRequests
  OtherRequests <- Others
  MaxOther = 1
  InitGraph <- MCGraph
  Capacity = 1
  TapCap = 1
INVARIANTS AccountsAgree EndIsVisible
PROPERTIES OnlyItsAgentMoves EveryRequestReturns
CHECK_DEADLOCK FALSE
