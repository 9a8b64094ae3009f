SPECIFICATION Spec
CONSTANTS
  Procs = {p1}
  NoEnv = NoEnv
  Requests = {r}
  Tracked = {r}
  Envs <- GoodOrRelative
  Found <- SomeFound
INVARIANTS DrainsBeforeReturn
