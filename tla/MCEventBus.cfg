SPECIFICATION FairSpec
CONSTANTS
  Topics = {t1}
  Publishers = {p1, p2}
  Subscribers = {s1, s2}
  Closers = {c1, c2}
  BufferSize = 1
  MaxPublish = 1
CHECK_DEADLOCK FALSE
INVARIANTS NoSendOnClosedChannel NoLeakedWorker DeliveryIsExact
PROPERTIES BusProgress
