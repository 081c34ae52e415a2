\* Two threads set and withdraw limits, and switch.
SPECIFICATION Spec
CONSTANTS
cpu = cpu
Caller = {c1, c2}
Res = {cpu}
Config <- MCConfig
INVALID_VALUE <- MCInvalid
LevelValue <- MCLevelValue
Requests <- MCRequests
MaxCalls = 4
INVARIANTS TypeOK LimitsMatchRecord OneLimitPerClient PowerSwitchMatches
CHECK_DEADLOCK FALSE
