SPECIFICATION Spec
CONSTANTS
  t1 = t1
  t2 = t2
  t3 = t3
  Threads = {t1, t2, t3}
  Channels = {c1}
  Rendezvous = {c1}
  Capacity <- NoCapacity
  Captures <- ByAll
  WaiterMax = 3
  IdleMax = 1
  Modes <- AllBlock
  Uncopyable = {}
  MaxCalls <- Once
INVARIANT CommittedReceiversAdmit
CHECK_DEADLOCK FALSE
