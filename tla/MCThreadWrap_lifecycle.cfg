\* Timed and switched boosts, clears and the weak interaction, on one resource.
SPECIFICATION Spec
CONSTANTS
cpuMin = cpuMin
cpuMax = cpuMax
NoRes = NoRes
INVALID_VALUE <- MCInvalid
MAX_INT_VALUE = 9
Res <- MCOneRes
Pair <- MCNoPair
IsMax <- MCOneMax
Available <- MCOneAvailable
Value = {1, 2}
Level = {0}
CmdId = {"tap", "drag", "weak", "weakPerf"}
Packs <- MCLifePacks
Limits = {}
Now = {0}
NInter = 1
WeakTemplates <- MCWeak
Ops = {"weakmode", "perfmode", "clear"}
MaxCalls = 3
INVARIANTS NoTwoTotalSame ExpiryArmed BoostCountMatchesAlive WeakStatusMatchesTimer WeakLimitLifted
PROPERTY StaleTimerHarmless ImplementsArbiter
CHECK_DEADLOCK FALSE
