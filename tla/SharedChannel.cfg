SPECIFICATION Spec
CONSTANTS
  t1 = t1
  t2 = t2
  t3 = t3
  Threads = {t1, t2, t3}
  Channels = {c1, c2}
  Rendezvous = {c2}
  Capacity <- OneSlotOrNone
  Captures <- OneChannel
  WaiterMax = 3
  IdleMax = 1
  Modes <- OneWayEach
  Uncopyable <- LastOfT2
  MaxCalls <- TwiceT2
INVARIANTS RefsExact RungBeforePoll
PROPERTIES ImplementsChannel CloseEndsCalls
CHECK_DEADLOCK FALSE
