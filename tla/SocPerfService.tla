--------------------------- MODULE SocPerfService ---------------------------
(***************************************************************************)
(* The client processes, the service process with its permission check and  *)
(* its counters, and the deaths and restarts of the service. What SocPerf   *)
(* does with a call besides counting it is the subject of SocPerfBoost and  *)
(* SocPerfLimit; permissions that change are the subject of SocPerfServer.  *)
(***************************************************************************)
EXTENDS SocPerfClient, SocPerfServer, SocPerfStatistics

CONSTANT MaxCalls \* bound: number of calls that are begun

VARIABLES
    incarnation, \* number of times the service was started
    onStart,     \* where OnStart of the running service is
    begun        \* number of calls begun

vars == <<service, clientVars, serverVars, statisticsVars, incarnation, onStart, begun>>

ASSUME ServiceAssumption == Calls = Arrivals /\ MaxCalls \in Nat

Init ==
    /\ running = None /\ registered = None
    /\ incarnation = 0 /\ onStart = "init" /\ begun = 0
    /\ ClientInit /\ ServerInit /\ NoStatistics

-----------------------------------------------------------------------------
(* The life of the service process *)

Launch ==
    /\ running = None /\ registered = None /\ incarnation < Starts
    /\ incarnation' = incarnation + 1
    /\ running' = incarnation + 1
    /\ onStart' = "init"
    /\ UNCHANGED <<registered, clientVars, serverVars, statisticsVars, begun>>

\* SocPerf::Init: when it fails, OnStart returns and nothing is published.
SocPerfInit ==
    /\ running # None /\ onStart = "init"
    /\ \/ /\ onStart' = "publish"
          /\ StartStatisticsTimer
          /\ UNCHANGED <<counters, report, stop, written>>
       \/ onStart' = "end" /\ UNCHANGED statisticsVars
    /\ UNCHANGED <<service, clientVars, serverVars, incarnation, begun>>

Publish ==
    /\ running # None /\ onStart = "publish"
    /\ onStart' = "end"
    /\ registered' \in {None, running}
    /\ UNCHANGED <<running, clientVars, serverVars, statisticsVars, incarnation, begun>>

\* Everything the process keeps is lost with it.
Die ==
    /\ running # None
    /\ running' = None
    /\ ClientsLoseService
    /\ requests' = {} /\ permissionCache' = EmptyCache
    /\ verdict' = [t \in Token |-> FALSE] /\ used' = <<>>
    /\ ForgetStatistics
    /\ UNCHANGED <<registered, permitted, incarnation, onStart, begun>>

\* The system ability manager learns of the death by itself.
Unregister ==
    /\ registered \notin {None, running}
    /\ registered' = None
    /\ UNCHANGED <<running, clientVars, serverVars, statisticsVars, incarnation,
                   onStart, begun>>

-----------------------------------------------------------------------------
(* A call, from the client to the counters *)

BeginCall(p) ==
    /\ begun < MaxCalls
    /\ begun' = begun + 1
    /\ \E c \in Calls : Begin(p, c)
    /\ UNCHANGED <<service, serverVars, statisticsVars, incarnation, onStart>>

SendCall(p) ==
    /\ Send(p)
    /\ Receive(inHand[p])
    /\ UNCHANGED <<service, statisticsVars, incarnation, onStart, begun>>

ReceiveAnswer(p) ==
    /\ Answered(p)
    /\ \A q \in requests : ~(q.call.from = p /\ Synchronous(q.call))
    /\ UNCHANGED <<service, serverVars, statisticsVars, incarnation, onStart, begun>>

ClientStep(p) ==
    \/ SendCall(p) \/ ReceiveAnswer(p)
    \/ /\ NotFound(p) \/ Found(p) \/ AddDeathRecipient(p) \/ Drop(p)
       /\ UNCHANGED <<service, serverVars, statisticsVars, incarnation, onStart, begun>>

ToldOfDeath(p) ==
    /\ OnRemoteDied(p)
    /\ UNCHANGED <<service, serverVars, statisticsVars, incarnation, onStart, begun>>

ResetByCaller(p) ==
    /\ client[p] # None /\ ResetClient(p)
    /\ UNCHANGED <<service, serverVars, statisticsVars, incarnation, onStart, begun>>

Check(q) ==
    /\ CheckPermission(q)
    /\ UNCHANGED <<service, clientVars, statisticsVars, incarnation, onStart, begun>>

\* PerfRequest, and PerfRequestEx when it switches on, end with the two counts,
\* unless they returned before.
Counts(c) == c.op = "PerfRequest" \/ (c.op = "PerfRequestEx" /\ c.on)

Serve(q) ==
    /\ \/ Forward(q) /\ UNCHANGED statisticsVars
       \/ /\ q.at = "allowed" /\ Counts(q.call)
          /\ Advance(q, "counting")
          /\ UpdateCmdIdCount(q.call.cmd)
          /\ UNCHANGED <<cacheVars, permitted>>
       \/ /\ q.at = "counting"
          /\ requests' = requests \ {q}
          /\ UpdateDailyCmdIdCount(q.call.cmd)
          /\ UNCHANGED <<cacheVars, permitted>>
    /\ UNCHANGED <<service, clientVars, incarnation, onStart, begun>>

\* The statistics task, and the destructor of SocPerf.
Statistics(A) ==
    A /\ UNCHANGED <<service, clientVars, serverVars, incarnation, onStart, begun>>

Report == Statistics(ReportBegins) \/ Statistics(StatisticsWorker)
Destroy == running # None /\ onStart = "end" /\ Statistics(StopStatisticsTimer)
Cancel == Statistics(CancelStatisticsTask)

-----------------------------------------------------------------------------
ServiceSide == \E q \in requests : Check(q) \/ Serve(q)

Next ==
    \/ Launch \/ SocPerfInit \/ Publish \/ Die \/ Unregister
    \/ \E p \in Proc : BeginCall(p) \/ ClientStep(p) \/ ToldOfDeath(p) \/ ResetByCaller(p)
    \/ ServiceSide \/ Report \/ Destroy \/ Cancel

\* Every thread that can go on does, deaths are told, and the delay of the
\* statistics task ends. The service need not be restarted, nor anyone call.
Fairness ==
    /\ \A p \in Proc : WF_vars(ClientStep(p)) /\ WF_vars(ToldOfDeath(p))
    /\ WF_vars(ServiceSide) /\ WF_vars(Report)

Spec == Init /\ [][Next]_vars
FairSpec == Spec /\ Fairness

-----------------------------------------------------------------------------
(* Properties *)

\* Every variable of the components and of the service process has its type.
TypeOK ==
    /\ ClientTypeOK /\ ServerTypeOK /\ StatisticsTypeOK
    /\ incarnation \in 0 .. Starts
    /\ onStart \in {"init", "publish", "end"}
    /\ begun \in 0 .. MaxCalls

Counting(c) == {q \in requests : q.at = "counting" /\ q.call.cmd = c}

\* Every boost counted since the start is counted once for the daily report: it
\* is in the running count, in the report being written, or was written, or its
\* thread is between the two mutexes. No report loses or doubles a count that
\* comes while it is being made.
NoCountLost ==
    \A c \in CmdId :
        boostCmdCount[c] = dailyCmdIdCount[c] + report.local[c] + written[c]
                              + Cardinality(Counting(c))

\* Every count is reported, unless the service dies or is destroyed first.
CountsReported ==
    \A c \in CmdId : dailyCmdIdCount[c] > 0 ~> dailyCmdIdCount[c] = 0 \/ stop.at # "no"
=============================================================================
