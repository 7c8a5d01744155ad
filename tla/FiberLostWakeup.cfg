SPECIFICATION Spec
CONSTANTS
  Fibers = {f1, f2}
  Main = Main
  Channels = {c1}
  Rendezvous = {}
  Capacity <- OneSlot
  ReadyMax = 1
  WaiterMax = 3
  TimerMax = 3
  SpinMax = 1
  MaxOps = 1
  Ops <- CloseOps
INVARIANT NoLostWakeup
