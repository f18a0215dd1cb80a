SPECIFICATION RouteSpec
CONSTANTS
  Configurers = {t1}
  Readers = {t2}
  AXIOM_NODES_NUM = 3
  Masks <- TwoMasks
  Found = {0, 9}
VIEW Live
INVARIANTS CopiesCurrent NumNodesBounded
