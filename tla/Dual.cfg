SPECIFICATION Spec
CONSTANTS
  b2 = b2
  DHid = {ita, eng}
  DFrag = {f1, f2}
  DReq = {r1, r2}
  DMaxTracks = 1
  DMaxFrags = 1
  DNil = DNil
  DBuild = {b1, b2}
  DBridge = eng
  VReq = {q1, q2}
  VKey = {k1}
  VTask = {t1, t2, t3}
  VNil = VNil
  FEng = {e1, e2}
  FUrl = {u1}
  FSlot = {1, 2}
  FInitial = 2
  FMax = 2
  FRun = 2
  FTries = 2
  BMain = 6
  BLinear = 3
  BOffset <- Found
  BDeviation = 2
  BNil = BNil
CHECK_DEADLOCK FALSE
INVARIANT BuildsHold
INVARIANT ResolutionsShared
INVARIANT StoreKept
INVARIANT GateIsExact
INVARIANT DecisionSound
PROPERTY StepsSound
