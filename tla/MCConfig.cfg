\* Up to three elements of resource files, three of boost files, two of camera files.
SPECIFICATION Spec
CONSTANTS
cpu = cpu
cpumax = cpumax
gov = gov
game = game
NoRes = NoRes
ResId = {1, 2}
ResName = {cpu, cpumax, gov}
Value = {1, 2, 3}
CmdId = {"down", "up", "fling", "drag"}
Mode = {"default", "car", "tv"}
DEFAULT_CONFIG_MODE = "default"
Copies <- MCCopies
ResElements <- MCRes
GovElements <- MCGov
SceneElements <- MCScene
CmdElements <- MCCmds
InterElements <- MCInter
MaxElements <- MCMaxElements
INVARIANTS TypeOK NamesResolve ReadyConfigValid DerivedMatchesLoaded
PROPERTIES FirstDefinitionStays
CHECK_DEADLOCK FALSE
