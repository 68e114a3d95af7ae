CONSTANTS
  Producers = {p1, p2}
  Consumers = {c1, c2}
  Values = {v1, v2}
  NoValue = NoValue
  maxSize = 2
SPECIFICATION Spec
INVARIANTS TypeOK CapacityRespected NoLostPushWakeup NoLostPopWakeup
PROPERTIES ImplementsBoundedQueue
