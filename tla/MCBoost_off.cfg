\* The thermal level falls between ON and OFF.
SPECIFICATION Spec
CONSTANTS
c1 = c1
c2 = c2
cpu = cpu
ddr = ddr
NoCmd = NoCmd
Null = Null
Caller = {c1, c2}
CmdId = {1, 2, 3, 4, 5, 6, 7}
Mode = {1, 2}
Res = {cpu, ddr}
Value = {1, 2}
Duration = {0, 5}
Lvl = {0, 1, 2}
Configs <- MCConfigs
Calls <- MCHotCalls
WeakCmds = {}
MaxCalls = 4
INVARIANTS OffEndsEverything
CHECK_DEADLOCK FALSE
