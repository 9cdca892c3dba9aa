SPECIFICATION Spec
CONSTANTS
  s1 = s1
  s2 = s2
  s3 = s3
  x = x
  t = t
  e1 = e1
  e2 = e2
  r1 = r1
  r2 = r2
  PSess <- Sessions
  PProxy <- Proxies
  PTunnel <- Tunnels
  PWarp = warp
  PFamily = {direct}
  PStream = {k1, k2}
  PReq <- Requests
  PLimit = 2
  PMaxFetch = 1
  PShared = shared
  PNil = PNil
  XExt <- Extractors
  XKey = {key1}
  XReq <- Requests
  XRoute = {x}
  XMaxFetch = 1
  XMaxAdmin = 2
  XNil = XNil
SYMMETRY Symmetric
CHECK_DEADLOCK FALSE
INVARIANT SessionsKept
INVARIANT ExtractorsServe
PROPERTY OthersUndisturbed
