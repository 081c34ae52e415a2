\* Every operation that arbitrates, on one minimum/maximum pair.
SPECIFICATION Spec
CONSTANTS
cpuMin = cpuMin
cpuMax = cpuMax
NoRes = NoRes
INVALID_VALUE <- MCInvalid
MAX_INT_VALUE = 9
Res <- MCPairRes
Pair <- MCPair
IsMax <- MCIsMax
Available <- MCAvailable
Value = {1, 2}
Level <- MCArbLevels
CmdId = {"boost", "limit"}
Packs <- MCArbPacks
Limits <- MCArbLimits
Now = {0}
NInter = 0
WeakTemplates <- MCNoWeak
Ops = {"power", "thermal", "level"}
MaxCalls = 4
INVARIANTS TypeOK CandidatesMatchLists ArbitrationInv ReportMatchesRequests ReportedPairOrdered LimitsCapBoosts
PROPERTY ImplementsArbiter
CHECK_DEADLOCK FALSE
