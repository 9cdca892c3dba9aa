SPECIFICATION Spec
CONSTANTS
  RProxy = {"p1", "p2", "tor"}
  RTunnel = {"tor"}
  RWarp = "warp"
  RHost = {"plain", "nowarp", "noproxy"}
  RNoWarp = {"nowarp"}
  RNoProxy = {"noproxy"}
  RLists <- Lists
  RPolicies <- Policies
  RRoutes <- Paths
  RNames <- Names
  ROff = off
  RNil = RNil
  CProxy = {"p1", "p2"}
  CHost = {"plain", "nowarp", "dynamic"}
  CDynamic = {"dynamic"}
  CNil = CNil
  MRend = {"audio", "video"}
  MSkew <- Skews
  MThread = {1, 2}
  MDurs = {10, 20}
  MFirst = 10
  MShapes = {"each"}
  MKept = 4
  MLast = 4
  MNil = MNil
  KReq = {1, 2}
  KKid = "kid"
  KKeys <- KeyLists
  KSegments <- Segments
  KMoof = 10
  KNil = KNil
CONSTRAINT Undisturbed
CHECK_DEADLOCK FALSE
INVARIANT PlaybackTypeOK
INVARIANT RoutesKept
INVARIANT ConfigConsistent
INVARIANT AnsweredInClear
PROPERTY OneNumbering
PROPERTY TimelineExpanded
