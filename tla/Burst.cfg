SPECIFICATION Spec
CONSTANTS
  Sizes = {0, 1, 2, 20, 100}
  Latency = {2, 4}
  Delay = {0, 1}
  Width = 2
  MaxFaults = 2
CHECK_DEADLOCK FALSE
INVARIANT BurstInv
INVARIANT StatsRight
