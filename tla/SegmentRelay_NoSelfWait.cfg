SPECIFICATION Spec
CONSTANTS
  s1 = s1
  s2 = s2
  k1 = k1
  k2 = k2
  tun = tun
  px = px
  Nil = Nil
  Slot <- OneSlot
  Play <- OnePlay
  Of <- ForAll
  Proxy <- Proxies
  Chain <- ViaTunnel
  Forced <- NoForced
  Tunnel <- OneTunnel
  Managed <- OneTunnel
  Warp = Nil
  Sole <- NoProxy
  MaxBase = 2
INVARIANT NoSelfWait
CHECK_DEADLOCK FALSE
