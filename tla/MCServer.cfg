\* Three tokens in a cache of two, while their permission comes and goes.
SPECIFICATION ServerSpec
CONSTANTS
app = app
shell = shell
daemon = daemon
hap = hap
Key = {app, shell, daemon, hap}
Decision = {TRUE, FALSE}
Capacity = 2
OpName = {"PerfRequest", "RequestCmdIdCount"}
PlainHap = {hap}
Hiview = {daemon}
Debuggable = FALSE
Arrivals <- MCArrivals
Slot = {1, 2}
INVARIANTS ServerTypeOK CacheCorrect
PROPERTIES OnlyVerifiedServed RevokedServedWhileRecent
CHECK_DEADLOCK FALSE
