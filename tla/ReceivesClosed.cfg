SPECIFICATION FairSpec
CONSTANTS
  o1 = o1
  o2 = o2
  h1 = h1
  h2 = h2
  t1 = t1
  t2 = t2
  Operation = {o1, o2}
  Helper = {h1, h2}
  Transport = {t1, t2}
  Cleaner = Cleaner
  MaxDepth = 2
  Nobody = Nobody
  NoTransport = NoTransport
PROPERTIES
  NeverReceivesClosed
