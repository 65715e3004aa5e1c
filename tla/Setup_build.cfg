SPECIFICATION Spec
CONSTANTS
  System = {"python", "cmake", "bison"}
  Package <- PackageDef
  Target = {"hello-world", "spec2006"}
  Instance = {"clang", "hmboundscheck", "shrunk", "counting"}
  graph <- Yields
  Commands <- CommandsDef
  TakesPool = {"spec2006"}
  RunsHooks = {"hello-world"}
  MaxCommands = 2
  MaxInterrupts = 1
INVARIANTS
  DependenciesInEnv
  UsedIsComplete
  NoStacking
  FailsOnlyAfterInterrupt
  BinariesReady
  DependencyListsRight
PROPERTIES
  EverythingBuilt
  CommandEnds
  RefinesBuildOrder
CHECK_DEADLOCK FALSE
