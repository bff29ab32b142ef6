CONSTANTS
  Parts = {"taskq", "grid", "ferret", "overflow"}
  numThreads = 3
  threadsPerTaskQ = 2
  MaxSteal = 8
  Tasks <- SevenTasks
  Spawns <- TwoSpawned
  Script <- TwoRegions
  MaxSide = 4
  Sizes <- SmallGrids
  MaxQueues = 5
  Stages = 4
  PoolSize = 2
  DEPTH = 1
  Queries = 3
  nx = 3
  nz = 1
  XDIVS = 2
  ZDIVS = 1
  PARTICLES_PER_CELL = 2
  numParticles = 4
  PoolCells = 1
  Frames = 1
SPECIFICATION TasksSpec
CHECK_DEADLOCK FALSE
INVARIANTS SerialAlone TasksDone GridTiled NothingCancelled DensitiesExact ReadBeforeReuse
PROPERTIES EndIsNoticed TasksEnd
