CONSTANTS
  a1 = a1
  a2 = a2
  lockB = lockB
  lockW = lockW
  other = other
  addrA = addrA
  addrB = addrB
  portX = portX
  portY = portY
  AnyAddr = AnyAddr
  Locks <- LocksWild
  Object <- ObjectWild
  Local <- LocalWild
SPECIFICATION MCSpec
INVARIANT ExclusiveUse
