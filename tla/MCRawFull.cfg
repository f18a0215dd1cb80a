SPECIFICATION FairSpec
CONSTANTS
  Ports = {p1}
  BadPort = bad
  Slots = {s1}
  Threads = {t1, t2}
  HwLen = 2
  MaxMsgs = 3
  None = None
INVARIANTS MessagesKept ImpossibleNeverHappens NoLostWakeup
PROPERTIES FollowsSlotProtocol NothingStuck
