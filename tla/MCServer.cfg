SPECIFICATION Spec
CONSTANTS
  Procs = {p1, p2}
  NoEnv = NoEnv
  Requests = {r}
  Tracked = {r}
  Envs <- GoodOrUnfit
  Found <- SomeFound
INVARIANTS TypeOK SchemaMatchesRecord ServesMigrated FailureReported
PROPERTIES MigratesInOrder StopsWhenSignalled ServesOrStops
