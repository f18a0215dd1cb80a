SPECIFICATION Spec
CONSTANTS
  Ports = {p1}
  BadPort = bad
  Slots = {s1, s2}
  Bufs = {b1, b2}
  BadAddr = badaddr
  Threads = {t1, t2}
  HwLen = 2
  MaxMsgs = 3
  None = None
SYMMETRY Symmetry
VIEW View
INVARIANT
  BuffersReturned
