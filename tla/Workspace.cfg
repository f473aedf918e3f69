SPECIFICATION Spec
CONSTANTS
  Root <- RootPath
  Dir <- DirOf
  Candidates <- Matches
  SourcePath <- PathOf
  SourcesGlob <- Glob
  Workspaces <- MCWorkspaces
  Targets <- MCTargets
  Web <- MCWeb
  Imports <- MCImports
  Envs <- MCEnvs
  Values = {"v"}
  VarNames = {"TOK", "REGION"}
  MaxPasted = 1
CONSTRAINT Few
INVARIANTS LoadedValues WorkspaceAssembles ConnectHonest
PROPERTY OthersUntouched
CHECK_DEADLOCK FALSE
