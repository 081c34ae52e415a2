\* Calls of two processes while the service dies, is restarted and destroyed.
SPECIFICATION FairSpec
CONSTANTS
p1 = p1
p2 = p2
app = app
NoTimer = NoTimer
Proc = {p1, p2}
Calls <- MCCalls
Starts = 2
Faults = {}
MaxCalls = 2
Key = {app}
Decision = {TRUE, FALSE}
Capacity = 1
OpName = {"PerfRequest", "PerfRequestEx", "RequestCmdIdCount", "RequestDeviceMode"}
PlainHap = {}
Hiview = {app}
Debuggable = FALSE
Arrivals <- MCCalls
Slot = {1, 2}
CmdId = {"tap"}
INVARIANTS TypeOK DeadProxyNoticed NoCountLost OneStatisticsTimer
PROPERTIES Reconnects CallReturns CountsReported
CHECK_DEADLOCK FALSE
