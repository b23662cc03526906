SPECIFICATION Spec
CONSTANTS
  Iterations = 2
  Hosts <- MCHosts
  P50s = {20, 140, 200}
  Jitters = {1, 60, 1500}
  Conns = {c1, c2}
  Stages = 2
  YieldAfter = 1
  SleepAfter = 2
  CounterMax = 3
  MaxWaiting = 2
INVARIANT PlanFits
PROPERTIES StopShutsDown NoStageStarved ProbesAnswered CalibrationEnds
CHECK_DEADLOCK FALSE
