SPECIFICATION Spec
CONSTANTS
  c1 = c1
  e1 = e1
  e2 = e2
  g1 = g1
  g2 = g2
  Events = {e1, e2}
  Group <- MCGroup
  Owner <- MCOwner
  Customers = {c1}
  Resources = {"disk_high"}
  Lookback = 3
  Offline = 1
  Cooldown = 1
  None = None
  MaxFaults = 1
INVARIANTS TypeOK MarkedWasTold RepeatsTakeFaults LossTakesFaults TroubleTold
