\* Seven configurations, three failures of EVM services.
CONSTANTS
    Configs <- MCConfigs
    MaxFailures = 3
SPECIFICATION Spec
INVARIANTS
    StartUpInOrder
    CleanReturn
    AttemptsIsolated
PROPERTIES
    RecoversUnlessLocked
    ShutdownCompletes
\* The process ends.
CHECK_DEADLOCK FALSE
