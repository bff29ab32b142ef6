CONSTANTS
  Parts = {"frame"}
  Threads = {a, b, c}
  max = 2
  MaxCalls = 2
  nproc = 2
  num = 3
  Chunks <- NoPoints
  kmin = 2
  maxk = 2
  kmax = 2
  Iter = 3
  MaxFeasible = 4
  chunksize = 3
  centersize = 4
  MaxPoints = 9
  nx = 3
  nz = 1
  XDIVS = 2
  ZDIVS = 1
  PARTICLES_PER_CELL = 2
  numParticles = 4
  PoolCells = 1
  Frames = 1
SPECIFICATION PhasesSpec
CHECK_DEADLOCK FALSE
INVARIANT EachPairOnce
