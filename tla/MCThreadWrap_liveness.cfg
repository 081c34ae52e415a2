\* Under fairness: timed boosts end and the weak interaction comes, whatever is
\* switched or cleared meanwhile.
SPECIFICATION FairSpec
CONSTANTS
cpuMin = cpuMin
cpuMax = cpuMax
NoRes = NoRes
INVALID_VALUE <- MCInvalid
MAX_INT_VALUE = 9
Res <- MCOneRes
Pair <- MCNoPair
IsMax <- MCOneMax
Available <- MCOneAvailable
Value = {1, 2}
Level = {0}
CmdId = {"tap", "weak", "weakPerf"}
Packs <- MCTapOnly
Limits = {}
Now = {0}
NInter = 1
WeakTemplates <- MCWeak
Ops = {"weakmode", "perfmode", "clear"}
MaxCalls = 2
PROPERTIES TimedBoostExpires 
CHECK_DEADLOCK FALSE
