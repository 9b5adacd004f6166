SPECIFICATION LifeSpec
INVARIANTS NothingLeftBehind FilesGuardTheRun
PROPERTIES FailedExecEndsAll
