SPECIFICATION Spec
CONSTANTS
  u1 = u1
  u2 = u2
  NoOne = NoOne
  Updaters <- Two
  Version <- Running
  Tags <- SomeTags
  UpdateArgs <- SomeUpdateArgs
  Insecure = TRUE
  Crashes = TRUE
  RestoreFails = TRUE
  Numbers <- SomeNumbers
  MinCols = 2
  MaxCols = 9
  Readable = {"x"}
  Directories = {"x"}
  DefaultCols = 5
  DefaultExec = 6
  DefaultIdle = 1
  Invisible = {"zw"}
  Chunk = 2
  BurstMax = 7
  CommandLines <- SomeLines
  Envs <- SomeEnvs
  Texts <- SomeTexts
INVARIANT NeverUnrecoverable
INVARIANT OnlyVerifiedInstalled
INVARIANT ReportsAreTrue
INVARIANT ParsedAsGiven
INVARIANT CommandArrives
INVARIANT FoldFits
CHECK_DEADLOCK FALSE
