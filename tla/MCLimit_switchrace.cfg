\* Two threads call PowerLimitBoost at a time.
SPECIFICATION Spec
CONSTANTS
cpu = cpu
Caller = {c1, c2}
Res = {cpu}
Config <- MCConfig
INVALID_VALUE <- MCInvalid
LevelValue <- MCLevelValue
Requests <- MCRequests
MaxCalls = 3
INVARIANT BoostsLimitedWhenAsked
CHECK_DEADLOCK FALSE
