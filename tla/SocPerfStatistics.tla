------------------------- MODULE SocPerfStatistics -------------------------
(***************************************************************************)
(* The counters of SocPerf. Each boost is counted twice, since the service  *)
(* started (boostCmdCount_) and since the last report (dailyCmdIdCount_),   *)
(* under two mutexes. A delayed task of the worker's queue reports the      *)
(* second count once a day and submits itself again; the destructor stops   *)
(* it.                                                                      *)
(***************************************************************************)
EXTENDS Naturals, FiniteSets

CONSTANTS CmdId, NoTimer

\* Handles of submitted tasks: the one the member keeps, the one in the queue or
\* running, and the one being cancelled.
Timer == 1 .. 3

ASSUME StatisticsAssumption == NoTimer \notin Timer

VARIABLES
    boostCmdCount, dailyCmdIdCount, \* [CmdId -> Nat], 0 for a command not in the map
    statisticsTimerRunning, statisticsTimer,
    timerQueue, \* statistics tasks submitted and not begun
    report,     \* the task the worker runs: [at, timer, local], at "off" if none
    stop,       \* StopStatisticsTimer: [at, timerToCancel]
    written     \* history: what HiSysEventWrite has sent since the start

counters == <<boostCmdCount, dailyCmdIdCount>>
timer == <<statisticsTimerRunning, statisticsTimer, timerQueue>>
statisticsVars == <<counters, timer, report, stop, written>>

Zero == [c \in CmdId |-> 0]
Off == [at |-> "off", timer |-> NoTimer, local |-> Zero]

\* Before Init: no task, nothing counted.
NoStatistics ==
    /\ boostCmdCount = Zero /\ dailyCmdIdCount = Zero
    /\ statisticsTimerRunning = FALSE /\ statisticsTimer = NoTimer
    /\ timerQueue = {}
    /\ report = Off
    /\ stop = [at |-> "no", timerToCancel |-> NoTimer]
    /\ written = Zero

\* The members go with the process that has them.
ForgetStatistics ==
    /\ boostCmdCount' = Zero /\ dailyCmdIdCount' = Zero
    /\ statisticsTimerRunning' = FALSE /\ statisticsTimer' = NoTimer
    /\ timerQueue' = {}
    /\ report' = Off
    /\ stop' = [at |-> "no", timerToCancel |-> NoTimer]
    /\ written' = Zero

-----------------------------------------------------------------------------
(* Counting, on the thread of the caller. RequestCmdIdCount only reads.       *)

UpdateCmdIdCount(c) ==
    /\ boostCmdCount' = [boostCmdCount EXCEPT ![c] = @ + 1]
    /\ UNCHANGED <<dailyCmdIdCount, timer, report, stop, written>>

UpdateDailyCmdIdCount(c) ==
    /\ dailyCmdIdCount' = [dailyCmdIdCount EXCEPT ![c] = @ + 1]
    /\ UNCHANGED <<boostCmdCount, timer, report, stop, written>>

-----------------------------------------------------------------------------
(* The timer. StartStatisticsTimer runs under mutexStatisticsTimer_.          *)

Handles == timerQueue \cup {statisticsTimer, report.timer, stop.timerToCancel}

StartStatisticsTimer ==
    LET new == CHOOSE t \in Timer : t \notin Handles
    IN  /\ statisticsTimerRunning' = TRUE
        /\ timerQueue' = timerQueue \cup {new}
        /\ statisticsTimer' = new

\* Mutant: the task is started again at once, and again at its end.
ReportBegins_Periodic ==
    /\ report.at = "off" /\ timerQueue # {} /\ statisticsTimerRunning
    /\ report' = [report EXCEPT !.at = "copy", !.timer = CHOOSE t \in timerQueue : TRUE]
    /\ UNCHANGED <<counters, timer, stop, written>>

\* The delay is over and the worker takes the task, which looks at the flag.
ReportBegins ==
    /\ report.at = "off"
    /\ \E t \in timerQueue :
          /\ timerQueue' = timerQueue \ {t}
          /\ report' = IF statisticsTimerRunning
                       THEN [report EXCEPT !.at = "copy", !.timer = t] ELSE report
    /\ UNCHANGED <<counters, statisticsTimerRunning, statisticsTimer, stop, written>>

\* Mutant: the counts are cleared only after the report was written.
CopyAndClear_NoClear ==
    /\ report.at = "copy"
    /\ report' = [report EXCEPT !.at = IF dailyCmdIdCount = Zero THEN "check" ELSE "write",
                                !.local = dailyCmdIdCount]
    /\ UNCHANGED <<counters, timer, stop, written>>

\* ReportCmdIdStatistics, under mutexDailyCmdIdCount_.
CopyAndClear ==
    /\ report.at = "copy"
    /\ report' = [report EXCEPT !.at = IF dailyCmdIdCount = Zero THEN "check" ELSE "write",
                                !.local = dailyCmdIdCount]
    /\ dailyCmdIdCount' = Zero
    /\ UNCHANGED <<boostCmdCount, timer, stop, written>>

\* ... and without it.
HiSysEventWrite ==
    /\ report.at = "write"
    /\ report' = [report EXCEPT !.at = "check", !.local = Zero]
    /\ written' = [c \in CmdId |-> written[c] + report.local[c]]
    /\ UNCHANGED <<counters, timer, stop>>

\* Mutant: the report is not followed by another one.
ReportChecks_Once ==
    /\ report.at = "check"
    /\ report' = Off
    /\ UNCHANGED <<counters, timer, stop, written>>

\* The flag is read again, without the mutex ...
ReportChecks ==
    /\ report.at = "check"
    /\ report' = IF statisticsTimerRunning THEN [report EXCEPT !.at = "again"] ELSE Off
    /\ UNCHANGED <<counters, timer, stop, written>>

\* ... and the timer is started with it.
ReportEnds ==
    /\ report.at = "again"
    /\ StartStatisticsTimer
    /\ report' = Off
    /\ UNCHANGED <<counters, stop, written>>

\* The destructor: the flag and the handle under the mutex ...
StopStatisticsTimer ==
    /\ stop.at = "no"
    /\ statisticsTimerRunning' = FALSE
    /\ stop' = [at |-> IF statisticsTimer = NoTimer THEN "done" ELSE "cancel",
                timerToCancel |-> statisticsTimer]
    /\ statisticsTimer' = NoTimer
    /\ UNCHANGED <<counters, timerQueue, report, written>>

\* ... the cancellation without it. A task that has begun is not stopped.
CancelStatisticsTask ==
    /\ stop.at = "cancel"
    /\ timerQueue' = timerQueue \ {stop.timerToCancel}
    /\ stop' = [at |-> "done", timerToCancel |-> NoTimer]
    /\ UNCHANGED <<counters, statisticsTimerRunning, statisticsTimer, report, written>>

StatisticsWorker ==
    CopyAndClear \/ HiSysEventWrite \/ ReportChecks \/ ReportEnds

-----------------------------------------------------------------------------
(* Properties *)

\* Every variable stays in the set its member ranges over.
StatisticsTypeOK ==
    /\ boostCmdCount \in [CmdId -> Nat] /\ dailyCmdIdCount \in [CmdId -> Nat]
    /\ written \in [CmdId -> Nat]
    /\ statisticsTimerRunning \in BOOLEAN
    /\ statisticsTimer \in Timer \cup {NoTimer}
    /\ timerQueue \subseteq Timer
    /\ report \in [at : {"off", "copy", "write", "check", "again"},
                   timer : Timer \cup {NoTimer}, local : [CmdId -> Nat]]
    /\ stop \in [at : {"no", "cancel", "done"}, timerToCancel : Timer \cup {NoTimer}]

\* At most one statistics task exists at a time, waiting or running, and from
\* Init to the destructor there is one: a report neither doubles nor loses the timer.
OneStatisticsTimer ==
    LET tasks == timerQueue \cup ({report.timer} \ {NoTimer})
    IN  /\ Cardinality(tasks) <= 1
        /\ statisticsTimerRunning /\ stop.at = "no" => tasks # {}
=============================================================================
