SPECIFICATION Spec
CONSTANTS
  Fibers = {f1, f2}
  Main = Main
  Channels = {c1}
  Rendezvous = {}
  Capacity <- OneSlot
  ReadyMax = 3
  WaiterMax = 3
  TimerMax = 3
  SpinMax = 1
  MaxOps = 1
  Ops <- JoinOps
PROPERTY NotRunnableVerdictSound
