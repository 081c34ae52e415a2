------------------------ MODULE SocPerfService_proofs ------------------------
(* For any number of client processes, calls, restarts and requests at a time: *)
(* a client with the proxy of a dead service will be told of the death, no     *)
(* count is lost between the two counters and the report, and there is one     *)
(* statistics task.                                                            *)
EXTENDS SocPerfService, SocPerfServer_proofs

-----------------------------------------------------------------------------
(* The clients and the service process *)

\* A call is in hand from its beginning to its return; while the service is looked
\* up there is no proxy, while a recipient is added there is one; and a proxy leads
\* to a service that was started.
CallsInHand ==
    /\ incarnation \in Nat
    /\ running \in {None, incarnation} /\ registered <= incarnation
    /\ \A p \in Proc : /\ client[p] <= incarnation
                       /\ at[p] # "idle" => inHand[p] \in Calls
                       /\ at[p] = "find" => client[p] = None
                       /\ at[p] = "add" => client[p] # None

ClientInv == ClientTypeOK /\ CallsInHand

\* While there is a recipient, or once it was tried to add one, a live proxy has
\* its recipient and a dead one its notice, if nothing can go wrong with that.
ProxyInv ==
    Faults = {} => \A p \in Proc : client[p] # None /\ at[p] # "add" =>
        IF Alive(client[p]) THEN recipient[p] = client[p]
                            ELSE <<p, client[p]>> \in notices

\* A call of p goes on, which changes neither proxy nor recipient.
MoveOn(p, place, call) ==
    /\ at' = [at EXCEPT ![p] = place] /\ inHand' = [inHand EXCEPT ![p] = call]
    /\ UNCHANGED <<client, recipient, notices, running, registered, incarnation>>

\* A call that goes on keeps the invariants.
LEMMA MoveOnKeeps ==
    ASSUME ClientInv, ProxyInv, NEW p \in Proc, NEW call \in Calls \cup {Idle},
           NEW place \in {"idle", "find", "valid", "wait"}, MoveOn(p, place, call),
           at[p] # "add", place # "idle" => call \in Calls,
           place = "find" => client[p] = None
    PROVE  ClientInv' /\ ProxyInv'
<1>1. /\ at' \in [Proc -> {"idle", "find", "add", "valid", "wait"}]
      /\ inHand' \in [Proc -> Calls \cup {Idle}]
  BY DEF MoveOn, ClientInv, ClientTypeOK
<1>2. ClientTypeOK'
  BY <1>1 DEF MoveOn, ClientInv, ClientTypeOK
<1>3. \A x \in Proc : /\ at'[x] = IF x = p THEN place ELSE at[x]
                      /\ inHand'[x] = IF x = p THEN call ELSE inHand[x]
  BY DEF MoveOn, ClientInv, ClientTypeOK
<1>4. CallsInHand'
  BY <1>3 DEF MoveOn, ClientInv, CallsInHand
<1>5. ProxyInv'
  BY <1>3 DEF MoveOn, ProxyInv, Alive
<1> QED BY <1>2, <1>4, <1>5 DEF ClientInv

\* So does a step that the clients do not see.
LEMMA UnseenKeeps ==
    ASSUME ClientInv, ProxyInv,
           UNCHANGED <<client, recipient, notices, at, inHand>>,
           UNCHANGED <<running, registered, incarnation>>
    PROVE  ClientInv' /\ ProxyInv'
BY DEF ClientInv, ClientTypeOK, CallsInHand, ProxyInv, Alive

\* The steps of a call.
LEMMA CallKeeps ==
    ASSUME ClientInv, ProxyInv, NEW p \in Proc,
           \/ BeginCall(p) \/ SendCall(p) \/ ReceiveAnswer(p)
           \/ /\ NotFound(p) \/ Found(p) \/ AddDeathRecipient(p) \/ Drop(p)
              /\ UNCHANGED <<service, incarnation>>
    PROVE  ClientInv' /\ ProxyInv'
<1> USE DEF service
<1>1. /\ Idle \in Calls \cup {Idle} /\ inHand[p] \in Calls \cup {Idle}
      /\ inHand = [inHand EXCEPT ![p] = inHand[p]]
  BY DEF ClientInv, ClientTypeOK
<1>2. CASE BeginCall(p)
  <2>1. PICK c \in Calls : Begin(p, c)
    BY <1>2 DEF BeginCall
  <2>2. MoveOn(p, IF client[p] = None THEN "find" ELSE "valid", c) /\ at[p] = "idle"
    BY <1>2, <2>1 DEF BeginCall, Begin, MoveOn
  <2> QED BY <2>2, MoveOnKeeps
<1>3. CASE SendCall(p)
  <2>1. /\ at[p] = "valid"
        /\ MoveOn(p, "wait", inHand[p]) \/ MoveOn(p, "idle", Idle)
    BY <1>1, <1>3 DEF SendCall, Send, Goto, Return, MoveOn
  <2>2. inHand[p] \in Calls
    BY <2>1 DEF ClientInv, CallsInHand
  <2> QED BY <1>1, <2>1, <2>2, MoveOnKeeps
<1>4. CASE ReceiveAnswer(p)
  BY <1>1, <1>4, MoveOnKeeps DEF ReceiveAnswer, Answered, Return, MoveOn
<1>5. CASE (NotFound(p) \/ Drop(p)) /\ UNCHANGED <<service, incarnation>>
  BY <1>1, <1>5, MoveOnKeeps DEF NotFound, Drop, Return, MoveOn
<1>6. CASE Found(p) /\ UNCHANGED <<service, incarnation>>
  <2>1. /\ client' = [client EXCEPT ![p] = registered]
        /\ at[p] = "find" /\ registered # None
        /\ UNCHANGED <<recipient, notices, running, registered, incarnation>>
    BY <1>6 DEF Found
  <2>2. PICK place \in {"add", "idle"}, call \in Calls \cup {Idle} :
           /\ at' = [at EXCEPT ![p] = place] /\ inHand' = [inHand EXCEPT ![p] = call]
           /\ place = "add" => call = inHand[p]
           /\ Faults = {} => place = "add"
    BY <1>1, <1>6 DEF Found, Goto, Return
  <2>3. \A x \in Proc : /\ client'[x] = IF x = p THEN registered ELSE client[x]
                        /\ at'[x] = IF x = p THEN place ELSE at[x]
                        /\ inHand'[x] = IF x = p THEN call ELSE inHand[x]
    BY <2>1, <2>2 DEF ClientInv, ClientTypeOK
  <2>4. ClientTypeOK'
    <3>1. client' \in [Proc -> Object \cup {None}]
      BY <2>1 DEF ClientInv, ClientTypeOK
    <3>2. at' \in [Proc -> {"idle", "find", "add", "valid", "wait"}]
      BY <2>2 DEF ClientInv, ClientTypeOK
    <3>3. inHand' \in [Proc -> Calls \cup {Idle}]
      BY <2>2 DEF ClientInv, ClientTypeOK
    <3> QED BY <2>1, <3>1, <3>2, <3>3 DEF ClientInv, ClientTypeOK
  <2>5. CallsInHand'
    <3>1. inHand[p] \in Calls
      BY <2>1 DEF ClientInv, CallsInHand
    <3> QED BY <2>1, <2>2, <2>3, <3>1 DEF ClientInv, CallsInHand
  <2>6. ProxyInv'
    BY <2>1, <2>2, <2>3 DEF ProxyInv, Alive
  <2> QED BY <2>4, <2>5, <2>6 DEF ClientInv
<1>7. CASE AddDeathRecipient(p) /\ UNCHANGED <<service, incarnation>>
  <2>1. /\ at' = [at EXCEPT ![p] = "valid"] /\ at[p] = "add"
        /\ UNCHANGED <<client, inHand, running, registered, incarnation>>
    BY <1>7 DEF AddDeathRecipient, Goto
  <2>2. \A x \in Proc : at'[x] = IF x = p THEN "valid" ELSE at[x]
    BY <2>1 DEF ClientInv, ClientTypeOK
  <2>3. CallsInHand'
    BY <2>1, <2>2 DEF ClientInv, CallsInHand
  <2>4. at' \in [Proc -> {"idle", "find", "add", "valid", "wait"}]
    BY <2>1 DEF ClientInv, ClientTypeOK
  <2>5. CASE Alive(client[p]) /\ recipient' = [recipient EXCEPT ![p] = client[p]]
             /\ UNCHANGED notices
    <3>1. recipient' \in [Proc -> Object \cup {None}]
      BY <2>5 DEF ClientInv, ClientTypeOK
    <3>2. ClientTypeOK'
      BY <2>1, <2>4, <2>5, <3>1 DEF ClientInv, ClientTypeOK
    <3>3. \A x \in Proc : recipient'[x] = IF x = p THEN client[p] ELSE recipient[x]
      BY <2>5 DEF ClientInv, ClientTypeOK
    <3>4. ProxyInv'
      BY <2>1, <2>2, <2>5, <3>3 DEF ProxyInv, Alive
    <3> QED BY <2>3, <3>2, <3>4 DEF ClientInv
  <2>6. CASE ~ Alive(client[p]) /\ notices' = notices \cup {<<p, client[p]>>}
             /\ UNCHANGED recipient
    <3>1. ProxyInv'
      BY <2>1, <2>2, <2>6 DEF ProxyInv, Alive
    <3>2. <<p, client[p]>> \in Proc \X Object
      BY <2>1 DEF ClientInv, ClientTypeOK, CallsInHand
    <3>3. ClientTypeOK'
      BY <2>1, <2>4, <2>6, <3>2 DEF ClientInv, ClientTypeOK
    <3> QED BY <2>3, <3>1, <3>3 DEF ClientInv
  <2>7. CASE "addfails" \in Faults /\ UNCHANGED <<recipient, notices>>
    BY <2>1, <2>3, <2>4, <2>7 DEF ClientInv, ClientTypeOK, ProxyInv
  <2> QED BY <1>7, <2>5, <2>6, <2>7 DEF AddDeathRecipient
<1> QED BY <1>2, <1>3, <1>4, <1>5, <1>6, <1>7

\* The service is started, published or forgotten.
LEMMA LifeKeeps ==
    ASSUME ClientInv, ProxyInv, Launch \/ Publish \/ Unregister
    PROVE  ClientInv' /\ ProxyInv'
<1>1. UNCHANGED <<client, recipient, notices, at, inHand>>
  BY DEF Launch, Publish, Unregister, clientVars
<1>2. CASE Launch
  <2>1. /\ running = None /\ running' = incarnation + 1 /\ incarnation' = incarnation + 1
        /\ registered' = registered /\ incarnation < Starts
    BY <1>2 DEF Launch
  <2>2. running' \in Object /\ incarnation' \in Nat
    BY <2>1, ClientAssumption DEF ClientInv, CallsInHand, Object
  <2>3. ClientTypeOK'
    BY <1>1, <2>1, <2>2 DEF ClientInv, ClientTypeOK
  <2>4. \A i \in Object \cup {None} : i <= incarnation => i <= incarnation' /\ i # running'
    BY <2>1 DEF ClientInv, CallsInHand, Object, None
  <2>5. /\ registered \in Object \cup {None} /\ registered <= incarnation
        /\ \A p \in Proc : client[p] \in Object \cup {None} /\ client[p] <= incarnation
    BY DEF ClientInv, ClientTypeOK, CallsInHand
  <2>6. CallsInHand'
    BY <1>1, <2>1, <2>2, <2>4, <2>5 DEF ClientInv, CallsInHand
  <2>7. \A p \in Proc : ~ Alive(client[p]) /\ ~ Alive(client[p])'
    BY <1>1, <2>1, <2>4, <2>5 DEF Alive
  <2>8. ProxyInv'
    BY <1>1, <2>7 DEF ProxyInv
  <2> QED BY <2>3, <2>6, <2>8 DEF ClientInv
<1>3. CASE Publish \/ Unregister
  <2>1. /\ UNCHANGED <<running, incarnation>>
        /\ registered' \in {None, running}
    BY <1>3 DEF Publish, Unregister
  <2>2. None <= incarnation /\ running <= incarnation
    BY DEF ClientInv, CallsInHand, None
  <2>3. ClientTypeOK'
    BY <1>1, <2>1 DEF ClientInv, ClientTypeOK
  <2>4. registered' <= incarnation
    BY <2>1, <2>2
  <2>5. CallsInHand'
    BY <1>1, <2>1, <2>4 DEF ClientInv, CallsInHand
  <2>6. ProxyInv'
    BY <1>1, <2>1 DEF ProxyInv, Alive
  <2> QED BY <2>3, <2>5, <2>6 DEF ClientInv
<1> QED BY <1>2, <1>3

\* The service dies, and the clients that asked for it will be told.
LEMMA DieKeeps == ASSUME ClientInv, ProxyInv, Die PROVE ClientInv' /\ ProxyInv'
<1> DEFINE lost == {<<p, running>> : p \in {x \in Proc : recipient[x] = running}}
<1>1. /\ running # None /\ running' = None
      /\ notices' = notices \cup lost
      /\ recipient' = [p \in Proc |-> IF recipient[p] = running THEN None ELSE recipient[p]]
      /\ UNCHANGED <<client, at, inHand, registered, incarnation>>
  BY DEF Die, ClientsLoseService
<1>2. running \in Object
  BY <1>1 DEF ClientInv, ClientTypeOK
<1>3. ClientTypeOK'
  <2>1. lost \subseteq Proc \X Object
    BY <1>2
  <2>2. notices' \subseteq Proc \X Object
    BY <1>1, <2>1 DEF ClientInv, ClientTypeOK
  <2>3. recipient' \in [Proc -> Object \cup {None}]
    BY <1>1 DEF ClientInv, ClientTypeOK
  <2> QED BY <1>1, <2>2, <2>3 DEF ClientInv, ClientTypeOK
<1>4. CallsInHand'
  BY <1>1 DEF ClientInv, CallsInHand
<1>5. ASSUME Faults = {}, NEW p \in Proc, client[p] # None, at[p] # "add"
      PROVE  <<p, client[p]>> \in notices'
  <2>1. CASE Alive(client[p])
    <3>1. recipient[p] = running /\ client[p] = running
      BY <1>5, <2>1 DEF ProxyInv, Alive
    <3> QED BY <1>1, <3>1
  <2>2. CASE ~ Alive(client[p])
    BY <1>1, <1>5, <2>2 DEF ProxyInv
  <2> QED BY <2>1, <2>2
<1>6. ProxyInv'
  BY <1>1, <1>5 DEF ProxyInv, Alive
<1> QED BY <1>3, <1>4, <1>6 DEF ClientInv

\* A process resets its proxy, when it is told of a death or by itself.
LEMMA ResetKeeps ==
    ASSUME ClientInv, ProxyInv, NEW p \in Proc, ToldOfDeath(p) \/ ResetByCaller(p)
    PROVE  ClientInv' /\ ProxyInv'
<1>1. /\ at[p] = "idle"
      /\ recipient' = [recipient EXCEPT ![p] = None]
      /\ client' = [client EXCEPT ![p] = None]
      /\ UNCHANGED <<at, inHand, running, registered, incarnation>>
  BY DEF ToldOfDeath, ResetByCaller, OnRemoteDied, ResetClient, Reset, service
<1>2. PICK i : notices \ {<<p, i>>} \subseteq notices' /\ notices' \subseteq notices
  BY DEF ToldOfDeath, ResetByCaller, OnRemoteDied, ResetClient
<1>3. \A x \in Proc : client'[x] = IF x = p THEN None ELSE client[x]
  BY <1>1 DEF ClientInv, ClientTypeOK
<1>4. \A x \in Proc : recipient'[x] = IF x = p THEN None ELSE recipient[x]
  BY <1>1 DEF ClientInv, ClientTypeOK
<1>5. ClientTypeOK'
  <2>1. /\ client' \in [Proc -> Object \cup {None}]
        /\ recipient' \in [Proc -> Object \cup {None}]
        /\ notices' \subseteq Proc \X Object
    BY <1>1, <1>2 DEF ClientInv, ClientTypeOK
  <2> QED BY <1>1, <2>1 DEF ClientInv, ClientTypeOK
<1>6. CallsInHand'
  BY <1>1, <1>3 DEF ClientInv, CallsInHand, None
<1>7. ASSUME Faults = {}, NEW x \in Proc, client'[x] # None, at'[x] # "add"
      PROVE  IF Alive(client[x])' THEN recipient'[x] = client'[x]
                                  ELSE <<x, client'[x]>> \in notices'
  <2>1. x # p /\ client'[x] = client[x] /\ recipient'[x] = recipient[x] /\ at'[x] = at[x]
    BY <1>1, <1>3, <1>4, <1>7
  <2>2. <<x, client[x]>> \in notices => <<x, client[x]>> \in notices'
    BY <1>2, <2>1
  <2> QED BY <1>1, <1>7, <2>1, <2>2 DEF ProxyInv, Alive
<1>8. ProxyInv'
  BY <1>7 DEF ProxyInv
<1> QED BY <1>5, <1>6, <1>8 DEF ClientInv

\* Every step keeps them.
LEMMA ProxyNext ==
    ASSUME ClientInv, ProxyInv, [Next]_vars PROVE ClientInv' /\ ProxyInv'
<1>1. CASE \/ SocPerfInit \/ ServiceSide \/ Report \/ Destroy \/ Cancel
           \/ UNCHANGED vars
  <2>1. /\ UNCHANGED <<client, recipient, notices, at, inHand>>
        /\ UNCHANGED <<running, registered, incarnation>>
    BY <1>1 DEF SocPerfInit, ServiceSide, Check, Serve, Report, Destroy, Cancel, Statistics,
                vars, service, clientVars
  <2> QED BY <2>1, UnseenKeeps
<1>2. ASSUME NEW p \in Proc, BeginCall(p) \/ ClientStep(p) PROVE ClientInv' /\ ProxyInv'
  BY <1>2, CallKeeps DEF ClientStep
<1> QED BY <1>1, <1>2, LifeKeeps, DieKeeps, ResetKeeps DEF Next

\* If the death recipient can be made and is added (Faults = {}), a process that
\* keeps the proxy of a dead service will be told of that death, however the death
\* falls among the steps of CheckClientValid, and however often the service is
\* restarted.
THEOREM DeadProxiesAreNoticed == ASSUME Faults = {} PROVE Spec => []DeadProxyNoticed
<1>1. Init => ClientInv /\ ProxyInv
  BY ClientAssumption
     DEF Init, ClientInit, ClientInv, ClientTypeOK, CallsInHand, ProxyInv, None, Object
<1>2. ClientInv /\ ProxyInv /\ [Next]_vars => (ClientInv /\ ProxyInv)'
  BY ProxyNext
<1>3. ProxyInv => DeadProxyNoticed
  BY DEF ProxyInv, DeadProxyNoticed
<1> QED BY <1>1, <1>2, <1>3, PTL DEF Spec

-----------------------------------------------------------------------------
(* The statistics task *)

\* Nothing of the statistics is there yet, or no longer.
NotStarted ==
    /\ timerQueue = {} /\ report.at = "off" /\ stop.at = "no"
    /\ statisticsTimer = NoTimer /\ ~ statisticsTimerRunning

\* One task waits or runs; the member names it, or nothing; and the handle that
\* the destructor is about to cancel is not that of a task started since.
TaskInv ==
    /\ running = None \/ onStart = "init" => NotStarted
    /\ report.at = "off" <=> report.timer = NoTimer
    /\ timerQueue = {} \/ \E t : timerQueue = {t}
    /\ report.at # "off" => timerQueue = {}
    /\ statisticsTimerRunning /\ stop.at = "no" => timerQueue # {} \/ report.at # "off"
    /\ statisticsTimer \in timerQueue \cup {report.timer, NoTimer}
    /\ ~ statisticsTimerRunning => statisticsTimer = NoTimer
    /\ stop.at = "cancel" => stop.timerToCancel \notin {statisticsTimer, NoTimer}
    /\ stop.at # "cancel" => stop.timerToCancel = NoTimer

StatisticsInv == StatisticsTypeOK /\ TaskInv

\* A timer that is started while none waits has a handle of its own.
LEMMA NewHandle ==
    ASSUME StatisticsInv, timerQueue = {}, StartStatisticsTimer
    PROVE  \E new \in Timer : /\ new \notin Handles
                             /\ timerQueue' = {new} /\ statisticsTimer' = new
                             /\ statisticsTimerRunning' = TRUE
<1>1. Handles \subseteq {report.timer, stop.timerToCancel, NoTimer}
  BY DEF StatisticsInv, TaskInv, Handles
<1>2. 1 \in Timer /\ 2 \in Timer /\ 3 \in Timer
  BY DEF Timer
<1>3. \E t \in Timer : t \notin Handles
  BY <1>1, <1>2, StatisticsAssumption
<1> DEFINE new == CHOOSE t \in Timer : t \notin Handles
<1>4. new \in Timer /\ new \notin Handles
  BY <1>3
<1>5. timerQueue' = {new} /\ statisticsTimer' = new /\ statisticsTimerRunning' = TRUE
  BY DEF StartStatisticsTimer
<1> QED BY <1>4, <1>5

\* The steps of the task and of the destructor.
LEMMA TaskSteps ==
    ASSUME StatisticsInv, UNCHANGED <<running, onStart>>,
           \/ ReportBegins \/ CopyAndClear \/ HiSysEventWrite \/ ReportChecks \/ ReportEnds
           \/ running # None /\ onStart = "end" /\ StopStatisticsTimer
           \/ CancelStatisticsTask
    PROVE  StatisticsInv'
<1> USE DEF StatisticsInv, TaskInv, StatisticsTypeOK, NotStarted, timer, counters
<1>1. Zero \in [CmdId -> Nat] /\ Off.at = "off" /\ Off.timer = NoTimer
      /\ Off \in [at : {"off"}, timer : {NoTimer}, local : [CmdId -> Nat]]
  BY DEF Zero, Off
<1>2. CASE ReportBegins
  <2>1. PICK t \in timerQueue :
          /\ timerQueue' = timerQueue \ {t}
          /\ report' = IF statisticsTimerRunning
                       THEN [report EXCEPT !.at = "copy", !.timer = t] ELSE report
    BY <1>2 DEF ReportBegins
  <2>2. timerQueue = {t} /\ t \in Timer /\ t # NoTimer /\ report.at = "off"
    BY <2>1, StatisticsAssumption
  <2>3. timerQueue' = {}
    BY <2>1, <2>2
  <2>4. CASE statisticsTimerRunning
    BY <1>2, <2>1, <2>2, <2>3, <2>4 DEF ReportBegins
  <2>5. CASE ~ statisticsTimerRunning
    BY <1>2, <2>1, <2>2, <2>3, <2>5 DEF ReportBegins
  <2> QED BY <2>4, <2>5
<1>3. CASE CopyAndClear
  BY <1>1, <1>3 DEF CopyAndClear
<1>4. CASE HiSysEventWrite
  <2>1. written' \in [CmdId -> Nat]
    BY <1>4 DEF HiSysEventWrite
  <2> QED BY <1>1, <1>4, <2>1 DEF HiSysEventWrite
<1>5. CASE ReportChecks
  <2>1. CASE statisticsTimerRunning
    BY <1>5, <2>1 DEF ReportChecks
  <2>2. CASE ~ statisticsTimerRunning
    BY <1>1, <1>5, <2>2 DEF ReportChecks
  <2> QED BY <2>1, <2>2
<1>6. CASE ReportEnds
  <2>1. PICK new \in Timer : /\ new \notin Handles
                             /\ timerQueue' = {new} /\ statisticsTimer' = new
                             /\ statisticsTimerRunning' = TRUE
    BY <1>6, NewHandle DEF ReportEnds
  <2> QED BY <1>1, <1>6, <2>1, StatisticsAssumption DEF ReportEnds, Handles
<1>7. CASE running # None /\ onStart = "end" /\ StopStatisticsTimer
  BY <1>7 DEF StopStatisticsTimer
<1>8. CASE CancelStatisticsTask
  BY <1>8 DEF CancelStatisticsTask
<1> QED BY <1>2, <1>3, <1>4, <1>5, <1>6, <1>7, <1>8

\* Every step keeps one task.
LEMMA TaskNext == StatisticsInv /\ [Next]_vars => StatisticsInv'
<1> SUFFICES ASSUME StatisticsInv, [Next]_vars PROVE StatisticsInv'
  OBVIOUS
<1>1. ASSUME UNCHANGED statisticsVars,
             UNCHANGED <<running, onStart>> \/ (running = None /\ onStart' = "init")
                \/ (onStart' = "end" /\ UNCHANGED running)
      PROVE  StatisticsInv'
  BY <1>1 DEF StatisticsInv, TaskInv, StatisticsTypeOK, NotStarted, statisticsVars,
              timer, counters
<1>2. CASE Launch \/ Publish \/ Unregister
  BY <1>1, <1>2 DEF Launch, Publish, Unregister
<1>3. CASE SocPerfInit
  <2>1. CASE onStart' = "end" /\ UNCHANGED statisticsVars
    BY <1>1, <1>3, <2>1 DEF SocPerfInit, service
  <2>2. CASE /\ onStart' = "publish" /\ StartStatisticsTimer
             /\ UNCHANGED <<counters, report, stop, written>>
    <3>1. NotStarted /\ UNCHANGED running /\ running # None
      BY <1>3 DEF SocPerfInit, StatisticsInv, TaskInv, service
    <3>2. PICK new \in Timer : /\ new \notin Handles
                               /\ timerQueue' = {new} /\ statisticsTimer' = new
                               /\ statisticsTimerRunning' = TRUE
      BY <2>2, <3>1, NewHandle DEF NotStarted
    <3> QED BY <2>2, <3>1, <3>2, StatisticsAssumption
            DEF StatisticsInv, TaskInv, StatisticsTypeOK, NotStarted, counters
  <2> QED BY <1>3, <2>1, <2>2 DEF SocPerfInit
<1>4. CASE Die
  <2>1. ForgetStatistics /\ UNCHANGED onStart
    BY <1>4 DEF Die
  <2> QED BY <2>1
          DEF ForgetStatistics, StatisticsInv, TaskInv, StatisticsTypeOK, NotStarted,
              Zero, Off
<1>5. ASSUME NEW p \in Proc,
             BeginCall(p) \/ ClientStep(p) \/ ToldOfDeath(p) \/ ResetByCaller(p)
      PROVE  StatisticsInv'
  BY <1>1, <1>5 DEF BeginCall, ClientStep, SendCall, ReceiveAnswer, ToldOfDeath,
                    ResetByCaller, service
<1>6. CASE ServiceSide
  <2>1. UNCHANGED <<running, onStart>>
    BY <1>6 DEF ServiceSide, Check, Serve, service
  <2>2. CASE UNCHANGED statisticsVars
    BY <1>1, <2>1, <2>2
  <2>3. CASE \E c : UpdateCmdIdCount(c) \/ UpdateDailyCmdIdCount(c)
    <3>1. /\ UNCHANGED <<timer, report, stop, written>>
          /\ boostCmdCount' \in [CmdId -> Nat] /\ dailyCmdIdCount' \in [CmdId -> Nat]
      BY <2>3 DEF UpdateCmdIdCount, UpdateDailyCmdIdCount, StatisticsInv, StatisticsTypeOK
    <3> QED BY <2>1, <3>1
            DEF StatisticsInv, TaskInv, StatisticsTypeOK, NotStarted, timer
  <2> QED BY <1>6, <2>2, <2>3 DEF ServiceSide, Check, Serve
<1>7. CASE Report \/ Destroy \/ Cancel
  BY <1>7, TaskSteps DEF Report, Destroy, Cancel, Statistics, StatisticsWorker, service
<1>8. CASE UNCHANGED vars
  BY <1>1, <1>8 DEF vars, service
<1> QED BY <1>2, <1>3, <1>4, <1>5, <1>6, <1>7, <1>8 DEF Next

\* The service has no task before its Init.
LEMMA TaskInit == ASSUME Init PROVE StatisticsInv
<1>1. NoStatistics
  BY DEF Init
<1>2. Zero \in [CmdId -> Nat] /\ Off.at = "off" /\ Off.timer = NoTimer
      /\ Off \in [at : {"off"}, timer : {NoTimer}, local : [CmdId -> Nat]]
  BY DEF Zero, Off
<1>3. StatisticsTypeOK
  BY <1>1, <1>2 DEF NoStatistics, StatisticsTypeOK
<1>4. TaskInv
  BY <1>1, <1>2 DEF NoStatistics, TaskInv, NotStarted
<1> QED BY <1>3, <1>4 DEF StatisticsInv

\* There is never more than one statistics task, and one from Init to the
\* destructor, wherever the destructor falls among the steps of a report.
THEOREM OneTask == Spec => []OneStatisticsTimer
<1>1. Init => StatisticsInv
  BY TaskInit
<1>2. StatisticsInv /\ [Next]_vars => StatisticsInv'
  BY TaskNext
<1>3. StatisticsInv => OneStatisticsTimer
  <2> SUFFICES ASSUME StatisticsInv PROVE OneStatisticsTimer
    OBVIOUS
  <2> DEFINE tasks == timerQueue \cup ({report.timer} \ {NoTimer})
  <2>1. tasks = {} \/ \E t : tasks = {t}
    BY DEF StatisticsInv, TaskInv
  <2>2. statisticsTimerRunning /\ stop.at = "no" => tasks # {}
    BY DEF StatisticsInv, TaskInv
  <2> HIDE DEF tasks
  <2>3. Cardinality(tasks) <= 1
    <3>1. CASE tasks = {}
      BY <3>1, FS_EmptySet
    <3>2. CASE \E t : tasks = {t}
      <4>1. PICK t : tasks = {t}
        BY <3>2
      <4>2. Cardinality(tasks) = 1
        BY <4>1, FS_Singleton
      <4> QED BY <4>2
    <3> QED BY <2>1, <3>1, <3>2
  <2> QED BY <2>2, <2>3 DEF OneStatisticsTimer, tasks
<1> QED BY <1>1, <1>2, <1>3, PTL DEF Spec

-----------------------------------------------------------------------------
(* The counts *)

\* There are finitely many requests, and each has a slot of its own.
RequestInv ==
    /\ IsFiniteSet(requests)
    /\ \A q \in requests : q = [slot |-> q.slot, call |-> q.call, at |-> q.at]
    /\ \A q, r \in requests : q.slot = r.slot => q = r

\* The report holds counts only between its copy and its event.
LocalInv == report.at # "write" => report.local = Zero

CountInv == StatisticsInv /\ RequestInv /\ LocalInv /\ NoCountLost

\* The requests between the two counts are a number of them.
LEMMA CountingFinite ==
    ASSUME RequestInv, NEW c
    PROVE  IsFiniteSet(Counting(c)) /\ Cardinality(Counting(c)) \in Nat
<1>1. Counting(c) \subseteq requests
  BY DEF Counting
<1>2. IsFiniteSet(Counting(c))
  BY <1>1, FS_Subset DEF RequestInv
<1> QED BY <1>2, FS_CardinalityType

\* A call that arrives is not between the two counts.
LEMMA ReceiveKeeps ==
    ASSUME RequestInv, NEW call, Receive(call)
    PROVE  RequestInv' /\ \A c : Counting(c)' = Counting(c)
<1> DEFINE s == CHOOSE x \in Free : TRUE
           new == [slot |-> s, call |-> call, at |-> "arrived"]
<1>1. s \in Free /\ requests' = requests \cup {new}
  BY DEF Receive
<1>2. \A q \in requests : q.slot # s
  BY <1>1 DEF Free
<1> HIDE DEF s
<1>3. /\ new.slot = s /\ new.at = "arrived"
      /\ new = [slot |-> new.slot, call |-> new.call, at |-> new.at]
  OBVIOUS
<1> HIDE DEF new
<1>4. IsFiniteSet(requests')
  BY <1>1, FS_AddElement DEF RequestInv
<1>5. RequestInv'
  BY <1>1, <1>2, <1>3, <1>4 DEF RequestInv
<1>6. \A c : Counting(c)' = Counting(c)
  BY <1>1, <1>3 DEF Counting
<1> QED BY <1>5, <1>6

\* A request that ends leaves one less between the counts, if it was there.
LEMMA EndKeeps ==
    ASSUME RequestInv, NEW q \in requests, requests' = requests \ {q}
    PROVE  /\ RequestInv'
           /\ \A c : Cardinality(Counting(c))' =
                IF q \in Counting(c) THEN Cardinality(Counting(c)) - 1
                                     ELSE Cardinality(Counting(c))
<1>1. IsFiniteSet(requests')
  BY FS_RemoveElement DEF RequestInv
<1>2. RequestInv'
  BY <1>1 DEF RequestInv
<1>3. ASSUME NEW c
      PROVE  Cardinality(Counting(c)') = IF q \in Counting(c)
                                         THEN Cardinality(Counting(c)) - 1
                                         ELSE Cardinality(Counting(c))
  <2>1. Counting(c)' = Counting(c) \ {q}
    BY DEF Counting
  <2> QED BY <2>1, CountingFinite, FS_RemoveElement
<1> QED BY <1>2, <1>3

\* A request that goes on adds one, if it is between the counts now.
LEMMA AdvanceKeeps ==
    ASSUME RequestInv, NEW q \in requests, q.at # "counting", NEW to, Advance(q, to)
    PROVE  /\ RequestInv'
           /\ \A c : Cardinality(Counting(c))' =
                IF to = "counting" /\ q.call.cmd = c THEN Cardinality(Counting(c)) + 1
                                                     ELSE Cardinality(Counting(c))
<1> DEFINE new == [q EXCEPT !.at = to]
<1>1. requests' = (requests \ {q}) \cup {new}
  BY DEF Advance
<1>2. new = [slot |-> q.slot, call |-> q.call, at |-> to]
  BY DEF RequestInv
<1> HIDE DEF new
<1>3. new.slot = q.slot /\ new.call = q.call /\ new.at = to
  BY <1>2
<1>4. \A r \in requests \ {q} : r # new /\ r.slot # new.slot
  BY <1>3 DEF RequestInv
<1>5. IsFiniteSet(requests')
  BY <1>1, FS_AddElement, FS_RemoveElement DEF RequestInv
<1>6. RequestInv'
  BY <1>1, <1>2, <1>3, <1>4, <1>5 DEF RequestInv
<1>7. ASSUME NEW c
      PROVE  Cardinality(Counting(c)') = IF to = "counting" /\ q.call.cmd = c
                                         THEN Cardinality(Counting(c)) + 1
                                         ELSE Cardinality(Counting(c))
  <2>1. CASE to = "counting" /\ q.call.cmd = c
    <3>1. Counting(c)' = Counting(c) \cup {new}
      BY <1>1, <1>3, <2>1 DEF Counting
    <3>2. new \notin Counting(c)
      BY <1>3, <1>4, <2>1 DEF Counting
    <3> QED BY <2>1, <3>1, <3>2, CountingFinite, FS_AddElement
  <2>2. CASE ~ (to = "counting" /\ q.call.cmd = c)
    <3>1. Counting(c)' = Counting(c)
      BY <1>1, <1>3, <2>2 DEF Counting
    <3> QED BY <2>2, <3>1
  <2> QED BY <2>1, <2>2
<1> QED BY <1>6, <1>7

\* A step that leaves requests and statistics alone.
LEMMA UncountedKeeps ==
    ASSUME RequestInv, LocalInv, NoCountLost, RequestInv',
           UNCHANGED <<counters, report, written>>,
           \A c : Cardinality(Counting(c))' = Cardinality(Counting(c))
    PROVE  LocalInv' /\ NoCountLost'
BY DEF LocalInv, NoCountLost, counters

\* The steps of the report move counts, and lose none.
LEMMA ReportKeeps ==
    ASSUME CountInv, UNCHANGED requests,
           \/ ReportBegins \/ CopyAndClear \/ HiSysEventWrite \/ ReportChecks \/ ReportEnds
    PROVE  LocalInv' /\ NoCountLost'
<1>1. \A c : /\ Cardinality(Counting(c))' = Cardinality(Counting(c))
             /\ Cardinality(Counting(c)) \in Nat
  BY CountingFinite DEF Counting, CountInv
<1>2. /\ Off.local = Zero /\ \A c \in CmdId : Zero[c] = 0
      /\ Off.at = "off"
  BY DEF Off, Zero
<1>3. StatisticsTypeOK
  BY DEF CountInv, StatisticsInv
<1>4. CASE ReportBegins \/ ReportChecks \/ ReportEnds
  <2>1. report'.local = report.local /\ report'.at # "write"
    BY <1>2, <1>3, <1>4
       DEF ReportBegins, ReportChecks, ReportEnds, StatisticsTypeOK, CountInv, LocalInv,
           StatisticsInv, TaskInv
  <2>2. UNCHANGED <<counters, written>>
    BY <1>4 DEF ReportBegins, ReportChecks, ReportEnds
  <2>3. LocalInv'
    BY <1>2, <1>3, <1>4, <2>1
       DEF CountInv, LocalInv, ReportBegins, ReportChecks, ReportEnds, StatisticsTypeOK
  <2>4. NoCountLost'
    BY <1>1, <2>1, <2>2 DEF CountInv, NoCountLost, counters
  <2> QED BY <2>3, <2>4
<1>5. CASE CopyAndClear
  <2>1. /\ report.at = "copy" /\ report'.local = dailyCmdIdCount /\ dailyCmdIdCount' = Zero
        /\ report'.at = IF dailyCmdIdCount = Zero THEN "check" ELSE "write"
        /\ UNCHANGED <<boostCmdCount, written>>
    BY <1>3, <1>5 DEF CopyAndClear, StatisticsTypeOK
  <2>2. report.local = Zero
    BY <2>1 DEF CountInv, LocalInv
  <2>3. \A c \in CmdId : /\ dailyCmdIdCount[c] \in Nat /\ written[c] \in Nat
                         /\ boostCmdCount[c] \in Nat
    BY <1>3 DEF StatisticsTypeOK
  <2> QED BY <1>1, <1>2, <2>1, <2>2, <2>3 DEF CountInv, LocalInv, NoCountLost
<1>6. CASE HiSysEventWrite
  <2>1. /\ report'.local = Zero /\ report'.at = "check"
        /\ \A c \in CmdId : written'[c] = written[c] + report.local[c]
        /\ UNCHANGED <<boostCmdCount, dailyCmdIdCount>>
    BY <1>3, <1>6 DEF HiSysEventWrite, StatisticsTypeOK, counters
  <2>2. \A c \in CmdId : /\ dailyCmdIdCount[c] \in Nat /\ written[c] \in Nat
                         /\ boostCmdCount[c] \in Nat /\ report.local[c] \in Nat
    BY <1>3 DEF StatisticsTypeOK
  <2> QED BY <1>1, <1>2, <2>1, <2>2 DEF CountInv, LocalInv, NoCountLost
<1> QED BY <1>4, <1>5, <1>6

\* A boost is counted twice, at two steps of its thread.
LEMMA ServeKeeps ==
    ASSUME CountInv, NEW q \in requests, Serve(q)
    PROVE  RequestInv' /\ LocalInv' /\ NoCountLost'
<1>1. RequestInv /\ LocalInv /\ NoCountLost /\ StatisticsTypeOK
  BY DEF CountInv, StatisticsInv
<1>2. \A c : Cardinality(Counting(c)) \in Nat
  BY <1>1, CountingFinite
<1>3. \A c \in CmdId : /\ boostCmdCount[c] \in Nat /\ dailyCmdIdCount[c] \in Nat
                       /\ report.local[c] \in Nat /\ written[c] \in Nat
  BY <1>1 DEF StatisticsTypeOK
<1>4. CASE Forward(q) /\ UNCHANGED statisticsVars
  <2>1. requests' = requests \ {q} /\ \A c : q \notin Counting(c)
    BY <1>4 DEF Forward, Counting
  <2> QED BY <1>1, <1>4, <2>1, EndKeeps, UncountedKeeps DEF statisticsVars
<1>5. CASE q.at = "allowed" /\ Advance(q, "counting") /\ UpdateCmdIdCount(q.call.cmd)
  <2>1. RequestInv' /\ \A c : Cardinality(Counting(c))' =
          IF q.call.cmd = c THEN Cardinality(Counting(c)) + 1 ELSE Cardinality(Counting(c))
    BY <1>1, <1>5, AdvanceKeeps
  <2>2. \A c \in CmdId : boostCmdCount'[c] = IF q.call.cmd = c THEN boostCmdCount[c] + 1
                                                               ELSE boostCmdCount[c]
    BY <1>1, <1>5 DEF UpdateCmdIdCount, StatisticsTypeOK
  <2>3. UNCHANGED <<dailyCmdIdCount, report, written>>
    BY <1>5 DEF UpdateCmdIdCount
  <2>4. LocalInv'
    BY <1>1, <2>3 DEF LocalInv
  <2>5. ASSUME NEW c \in CmdId
        PROVE  boostCmdCount'[c] = dailyCmdIdCount'[c] + report'.local[c] + written'[c]
                                      + Cardinality(Counting(c))'
    <3>1. boostCmdCount[c] = dailyCmdIdCount[c] + report.local[c] + written[c]
                                + Cardinality(Counting(c))
      BY <1>1 DEF NoCountLost
    <3>2. Cardinality(Counting(c))' = IF q.call.cmd = c THEN Cardinality(Counting(c)) + 1
                                                        ELSE Cardinality(Counting(c))
      BY <2>1
    <3>3. Cardinality(Counting(c)) \in Nat
      BY <1>2
    <3> QED BY <1>3, <2>2, <2>3, <3>1, <3>2, <3>3
  <2>6. NoCountLost'
    BY <2>5 DEF NoCountLost
  <2> QED BY <2>1, <2>4, <2>6
<1>6. CASE /\ q.at = "counting" /\ requests' = requests \ {q}
           /\ UpdateDailyCmdIdCount(q.call.cmd)
  <2>1. RequestInv' /\ \A c : Cardinality(Counting(c))' =
          IF q.call.cmd = c THEN Cardinality(Counting(c)) - 1 ELSE Cardinality(Counting(c))
    <3>1. \A c : q \in Counting(c) <=> q.call.cmd = c
      BY <1>6 DEF Counting
    <3> QED BY <1>1, <1>6, <3>1, EndKeeps
  <2>2. \A c \in CmdId : dailyCmdIdCount'[c] = IF q.call.cmd = c THEN dailyCmdIdCount[c] + 1
                                                                 ELSE dailyCmdIdCount[c]
    BY <1>1, <1>6 DEF UpdateDailyCmdIdCount, StatisticsTypeOK
  <2>3. UNCHANGED <<boostCmdCount, report, written>>
    BY <1>6 DEF UpdateDailyCmdIdCount
  <2>4. LocalInv'
    BY <1>1, <2>3 DEF LocalInv
  <2>5. ASSUME NEW c \in CmdId
        PROVE  boostCmdCount'[c] = dailyCmdIdCount'[c] + report'.local[c] + written'[c]
                                      + Cardinality(Counting(c))'
    <3>1. boostCmdCount[c] = dailyCmdIdCount[c] + report.local[c] + written[c]
                                + Cardinality(Counting(c))
      BY <1>1 DEF NoCountLost
    <3>2. Cardinality(Counting(c))' = IF q.call.cmd = c THEN Cardinality(Counting(c)) - 1
                                                        ELSE Cardinality(Counting(c))
      BY <2>1
    <3>3. Cardinality(Counting(c)) \in Nat
      BY <1>2
    <3> QED BY <1>3, <2>2, <2>3, <3>1, <3>2, <3>3
  <2>6. NoCountLost'
    BY <2>5 DEF NoCountLost
  <2> QED BY <2>1, <2>4, <2>6
<1> QED BY <1>4, <1>5, <1>6 DEF Serve

\* Every step keeps the counts.
LEMMA CountNext == CountInv /\ [Next]_vars => CountInv'
<1> SUFFICES ASSUME CountInv, [Next]_vars PROVE CountInv'
  OBVIOUS
<1>1. StatisticsInv' /\ RequestInv /\ LocalInv /\ NoCountLost
  BY TaskNext DEF CountInv
<1>2. ASSUME UNCHANGED requests PROVE RequestInv' /\ \A c : Counting(c)' = Counting(c)
  BY <1>1, <1>2 DEF RequestInv, Counting
<1>3. ASSUME UNCHANGED <<requests, counters, report, written>> PROVE CountInv'
  BY <1>1, <1>2, <1>3, UncountedKeeps DEF CountInv
<1>4. CASE \/ Launch \/ SocPerfInit \/ Publish \/ Unregister \/ Destroy \/ Cancel
           \/ UNCHANGED vars
  <2>1. UNCHANGED <<requests, counters, report, written>>
    BY <1>4 DEF Launch, SocPerfInit, Publish, Unregister, Destroy, Cancel, Statistics,
                StopStatisticsTimer, CancelStatisticsTask, vars, serverVars, statisticsVars
  <2> QED BY <1>3, <2>1
<1>5. CASE Die
  <2>1. /\ requests' = {} /\ boostCmdCount' = Zero /\ dailyCmdIdCount' = Zero
        /\ report' = Off /\ written' = Zero
    BY <1>5 DEF Die, ForgetStatistics
  <2>2. Off.local = Zero /\ \A c \in CmdId : Zero[c] = 0
    BY DEF Off, Zero
  <2>3. \A c : Cardinality(Counting(c)') = 0
    BY <2>1, FS_EmptySet DEF Counting
  <2>4. RequestInv'
    BY <2>1, FS_EmptySet DEF RequestInv
  <2> QED BY <1>1, <2>1, <2>2, <2>3, <2>4 DEF CountInv, LocalInv, NoCountLost
<1>6. ASSUME NEW p \in Proc,
             BeginCall(p) \/ ClientStep(p) \/ ToldOfDeath(p) \/ ResetByCaller(p)
      PROVE  CountInv'
  <2>1. UNCHANGED statisticsVars
    BY <1>6 DEF BeginCall, ClientStep, SendCall, ReceiveAnswer, ToldOfDeath, ResetByCaller
  <2>2. CASE SendCall(p)
    <3>1. Receive(inHand[p])
      BY <2>2 DEF SendCall
    <3> QED BY <1>1, <2>1, <3>1, ReceiveKeeps, UncountedKeeps DEF CountInv, statisticsVars
  <2>3. CASE ~ SendCall(p)
    <3>1. UNCHANGED requests
      BY <1>6, <2>3 DEF BeginCall, ClientStep, ReceiveAnswer, ToldOfDeath, ResetByCaller,
                        serverVars
    <3> QED BY <1>3, <2>1, <3>1 DEF statisticsVars
  <2> QED BY <2>2, <2>3
<1>7. ASSUME NEW q \in requests, Check(q) PROVE CountInv'
  <2>1. /\ q.at = "arrived" /\ UNCHANGED statisticsVars
        /\ requests' = requests \ {q} \/ Advance(q, "allowed")
    BY <1>7 DEF Check, CheckPermission, Refuse
  <2>2. RequestInv' /\ \A c : Cardinality(Counting(c))' = Cardinality(Counting(c))
    <3>1. \A c : q \notin Counting(c)
      BY <2>1 DEF Counting
    <3> QED BY <1>1, <2>1, <3>1, EndKeeps, AdvanceKeeps
  <2> QED BY <1>1, <2>1, <2>2, UncountedKeeps DEF CountInv, statisticsVars
<1>8. ASSUME NEW q \in requests, Serve(q) PROVE CountInv'
  BY <1>1, <1>8, ServeKeeps DEF CountInv
<1>9. CASE Report
  <2>1. UNCHANGED requests
    BY <1>9 DEF Report, Statistics, serverVars
  <2> QED BY <1>1, <1>2, <1>9, <2>1, ReportKeeps
          DEF CountInv, Report, Statistics, StatisticsWorker
<1> QED BY <1>4, <1>5, <1>6, <1>7, <1>8, <1>9 DEF Next, ServiceSide

\* Every boost that is served is counted once for the reports, for any number of
\* requests that are counted while a report is copied, written or begun again.
THEOREM EveryBoostReportedOnce == Spec => []NoCountLost
<1>1. ASSUME Init PROVE CountInv
  <2>1. StatisticsInv
    BY <1>1, TaskInit
  <2>2. NoStatistics /\ requests = {}
    BY <1>1 DEF Init, ServerInit, EmptyServer
  <2>3. Off.local = Zero /\ \A c \in CmdId : Zero[c] = 0
    BY DEF Off, Zero
  <2>4. \A c : Cardinality(Counting(c)) = 0
    BY <2>2, FS_EmptySet DEF Counting
  <2>5. RequestInv
    BY <2>2, FS_EmptySet DEF RequestInv
  <2> QED BY <2>1, <2>2, <2>3, <2>4, <2>5 DEF CountInv, LocalInv, NoCountLost, NoStatistics
<1>2. CountInv /\ [Next]_vars => CountInv'
  BY CountNext
<1>3. CountInv => NoCountLost
  BY DEF CountInv
<1> QED BY <1>1, <1>2, <1>3, PTL DEF Spec

-----------------------------------------------------------------------------
(* Types *)

\* What is at the service is a call that some process had in hand.
LEMMA RequestsTyped ==
    ASSUME ClientInv, ServerInv, [Next]_vars
    PROVE  ServerInv'
<1>1. CASE UNCHANGED serverVars
  BY <1>1 DEF serverVars, ServerInv, DecisionsInv, cacheVars
<1>2. CASE Die
  <2>1. requests' = {} /\ permissionCache' = EmptyCache /\ used' = <<>>
        /\ verdict' = [t \in Token |-> FALSE] /\ permitted' = permitted
    BY <1>2 DEF Die
  <2> QED BY <2>1, EmptyHolds DEF ServerInv, DecisionsInv
<1>3. ASSUME NEW p \in Proc, SendCall(p) PROVE ServerInv'
  <2>1. inHand[p] \in Arrivals /\ Receive(inHand[p])
    BY <1>3, ServiceAssumption DEF SendCall, Send, ClientInv, CallsInHand
  <2>2. requests' \subseteq Request
    BY <2>1, ArrivalKeeps DEF ServerInv
  <2> QED BY <2>1, <2>2 DEF Receive, ServerInv, DecisionsInv, cacheVars
<1>4. ASSUME NEW q \in requests, Check(q) PROVE ServerInv'
  BY <1>4, CheckedCall DEF Check
<1>5. ASSUME NEW q \in requests, Serve(q) PROVE ServerInv'
  <2>1. requests' \subseteq Request
    <3>1. CASE requests' = requests \ {q}
      BY <3>1 DEF ServerInv
    <3>2. CASE Advance(q, "counting")
      <4> DEFINE new == [q EXCEPT !.at = "counting"]
      <4>1. new = [slot |-> q.slot, call |-> q.call, at |-> "counting"]
            /\ q.slot \in Slot /\ q.call \in Arrivals
        BY DEF ServerInv, Request
      <4>2. requests' = (requests \ {q}) \cup {new}
        BY <3>2 DEF Advance
      <4> HIDE DEF new
      <4>3. new \in Request
        BY <4>1 DEF Request, Stage
      <4> QED BY <4>2, <4>3 DEF ServerInv
    <3> QED BY <1>5, <3>1, <3>2 DEF Serve, Forward
  <2>2. UNCHANGED <<cacheVars, permitted>>
    BY <1>5 DEF Serve, Forward
  <2> QED BY <2>1, <2>2 DEF ServerInv, DecisionsInv, cacheVars
<1>6. CASE \/ Launch \/ SocPerfInit \/ Publish \/ Unregister \/ Report \/ Destroy \/ Cancel
           \/ UNCHANGED vars
  <2>1. UNCHANGED serverVars
    BY <1>6 DEF Launch, SocPerfInit, Publish, Unregister, Report, Destroy, Cancel,
                Statistics, vars
  <2> QED BY <1>1, <2>1
<1>7. ASSUME NEW p \in Proc, ~SendCall(p),
             BeginCall(p) \/ ClientStep(p) \/ ToldOfDeath(p) \/ ResetByCaller(p)
      PROVE  UNCHANGED serverVars
  BY <1>7 DEF BeginCall, ClientStep, ReceiveAnswer, ToldOfDeath, ResetByCaller
<1> QED BY <1>1, <1>2, <1>3, <1>4, <1>5, <1>6, <1>7 DEF Next, ServiceSide

\* The starts and the calls are bounded.
LifeTyped ==
    /\ incarnation \in 0 .. Starts
    /\ onStart \in {"init", "publish", "end"}
    /\ begun \in 0 .. MaxCalls

LEMMA LifeStep == LifeTyped /\ [Next]_vars => LifeTyped'
<1> SUFFICES ASSUME LifeTyped, [Next]_vars PROVE LifeTyped'
  OBVIOUS
<1> USE DEF LifeTyped
<1>1. CASE Launch \/ SocPerfInit \/ Publish \/ Die \/ Unregister \/ UNCHANGED vars
  BY <1>1, ClientAssumption DEF Launch, SocPerfInit, Publish, Die, Unregister, vars
<1>2. ASSUME NEW p \in Proc,
             BeginCall(p) \/ ClientStep(p) \/ ToldOfDeath(p) \/ ResetByCaller(p)
      PROVE  LifeTyped'
  BY <1>2, ServiceAssumption
     DEF BeginCall, ClientStep, SendCall, ReceiveAnswer, ToldOfDeath, ResetByCaller
<1>3. CASE ServiceSide \/ Report \/ Destroy \/ Cancel
  BY <1>3 DEF ServiceSide, Check, Serve, Report, Destroy, Cancel, Statistics
<1> QED BY <1>1, <1>2, <1>3 DEF Next

\* Whatever fails in the clients, and wherever the service dies, every variable of
\* clients, service and statistics keeps its type.
THEOREM ServiceTypeCorrect == Spec => []TypeOK
<1> DEFINE Inv == ClientInv /\ ProxyInv /\ ServerInv /\ StatisticsInv /\ LifeTyped
<1>1. Init => Inv
  <2> SUFFICES ASSUME Init PROVE Inv
    OBVIOUS
  <2>1. ClientInv /\ ProxyInv
    BY ClientAssumption
       DEF Init, ClientInit, ClientInv, ClientTypeOK, CallsInHand, ProxyInv, None, Object
  <2>2. LifeTyped
    BY ClientAssumption, ServiceAssumption DEF Init, LifeTyped
  <2> QED BY <2>1, <2>2, ServerStart, TaskInit DEF Init
<1>2. Inv /\ [Next]_vars => Inv'
  BY ProxyNext, RequestsTyped, TaskNext, LifeStep
<1>3. Inv => TypeOK
  BY InvTyped DEF ClientInv, StatisticsInv, LifeTyped, TypeOK
<1> QED BY <1>1, <1>2, <1>3, PTL DEF Spec
=============================================================================
