\* The comment of the supervisor: services that crash are restarted, until a signal.
CONSTANTS
    Configs <- MCConfigs
    MaxFailures = 1
SPECIFICATION Spec
PROPERTY ServicesRecover
\* The process ends.
CHECK_DEADLOCK FALSE
