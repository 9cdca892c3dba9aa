SPECIFICATION FairSpec
CONSTANTS
  p1 = p1
  p2 = p2
  p3 = p3
  p4 = p4
  a1 = a1
  a2 = a2
  r1 = r1
  k = k
  Nil = Nil
  Pid <- TwoPids
  Keeper = k
  Traffic <- OneReq
  Panel <- OnePanel
  HealthEvery = 2
  Patience = 2
  MaxFault = 1
  MaxCall = 1
  Relay = FALSE
INVARIANT TypeOK
INVARIANT NoOrphanWithoutOverlap
CHECK_DEADLOCK FALSE
PROPERTY EnabledListens
PROPERTY RecoversWithoutOverlap
 
