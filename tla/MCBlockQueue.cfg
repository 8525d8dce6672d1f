CONSTANTS
  Producers = {main}
  Consumers = {reader}
  Item = {Null, b1, b2}
  Null = Null
  NoCall = NoCall
  Free = Free
  Size = 2
  MaxRetry = 2
SPECIFICATION FairSpec
INVARIANTS TypeOK MutexHeld RingConsistent NoLostWakeUp
PROPERTIES ImplementsFifo CallsReturn
