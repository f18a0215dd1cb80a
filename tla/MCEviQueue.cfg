SPECIFICATION EviqSpec
CONSTANTS
  Queues = {q1, q2}
  FreeElems = 4
INVARIANTS Coupled
PROPERTIES ImplementsSlotQueues
