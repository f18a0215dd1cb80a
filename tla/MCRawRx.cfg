SPECIFICATION FairSpec
CONSTANTS
  Ports = {p1}
  BadPort = bad
  Slots = {s1, s2}
  Threads = {t1, t2}
  HwLen = 2
  MaxMsgs = 2
  None = None
INVARIANTS MessagesKept ImpossibleNeverHappens NoLostWakeup
PROPERTIES FollowsSlotProtocol NothingStuck
