SPECIFICATION FairSpec
CONSTANTS
  Files = {f1}
  MayFail <- AllSteps
INVARIANTS HandlerSafe KthreadSafe ClientsSafe Balanced
PROPERTIES LoaderEnds
CHECK_DEADLOCK FALSE
