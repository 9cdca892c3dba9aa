SPECIFICATION Spec
CONSTANTS
  p1 = p1
  p2 = p2
  k = k
  s = s
  r1 = r1
  a1 = a1
  WPid <- Pids
  WKeeper = k
  WSweeper = s
  WTraffic <- Requests
  WPanel <- Panels
  WPatience = 2
  WMaxCall = 1
  WMaxFault = 1
  WNil = WNil
  TPid <- Pids
  TKeeper = k
  TPanel <- Panels
  TMaxOp = 2
  TMaxFault = 1
  TFile <- Files
  TNil = TNil
CONSTRAINT Apart
CHECK_DEADLOCK FALSE
INVARIANT OutboundTypeOK
INVARIANT WarpNoOrphan
INVARIANT TorOneProcess
INVARIANT OffIsDown
PROPERTY ClientsRecover
