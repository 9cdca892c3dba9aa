SPECIFICATION Spec
CONSTANTS
  s1 = s1
  s2 = s2
  k1 = k1
  k2 = k2
  tun = tun
  px = px
  Nil = Nil
  Slot <- TwoSlots
  Play <- OnePlay
  Of <- ForAll
  Proxy <- Proxies
  Chain <- ViaBoth
  Forced <- SomeForced
  Tunnel <- OneTunnel
  Managed <- OneTunnel
  Warp = Nil
  Sole <- NoProxy
  MaxBase = 1
INVARIANT TypeOK
INVARIANT FuturesAreOwned
CHECK_DEADLOCK FALSE
