SPECIFICATION Spec
CONSTANTS
  Threads = {t1, t2}
  Devs = {d1, d2}
  Setters = {t1}
  Flushers = {t2}
  SendOps = {"send", "send_raw", "send_long"}
  Sizes = {248, 249, 65529, 65785}
  Caps = {248, 65541}
  QLen = 1
SYMMETRY Symmetric
VIEW Live
INVARIANTS SleepJustified
PROPERTIES SizeVerdict ErrorHasReason
