------------------------- MODULE SocPerfBoost_proofs -------------------------
(* For any number of threads, commands, modes and configurations: which calls  *)
(* end a long-time command, where null actions come from, and     *)
(* that modes of a scene exclude each other.                                   *)
EXTENDS SocPerfBoost, FiniteSetTheorems, WellFoundedInduction, TLAPS

-----------------------------------------------------------------------------
(* Device modes *)

SceneInv == \A s \in Scenes : \A m, n \in recordDeviceMode \cap s : m = n

\* If scenes are disjoint, at most one mode of each is recorded, whatever the threads
\* turn on and off.
THEOREM ModesExclude ==
    ASSUME ScenesDisjoint PROVE Spec => []OneModePerScene
<1>1. Init => SceneInv
  BY DEF Init, SceneInv
<1>2. SceneInv /\ [Next]_vars => SceneInv'
  <2> SUFFICES ASSUME SceneInv, [Next]_vars PROVE SceneInv'
    OBVIOUS
  <2>1. ASSUME NEW c \in Caller, RequestDeviceMode(c)
        PROVE  SceneInv'
    <3>1. PICK call \in Calls[c] :
                 /\ call.op = "mode"
                 /\ recordDeviceMode' = MatchDeviceMode(call.scene, call.mode, call.on)
      BY <2>1 DEF RequestDeviceMode
    <3>2. call.scene \in Scenes
      BY <3>1 DEF Scenes
    <3>3. \A s \in Scenes : s = call.scene \/ s \cap call.scene = {}
      BY <3>2 DEF ScenesDisjoint
    <3>4. CASE call.on
      <4>1. recordDeviceMode' = (recordDeviceMode \ call.scene) \cup (call.scene \cap {call.mode})
        BY <3>1, <3>4 DEF MatchDeviceMode
      <4> QED BY <3>3, <4>1 DEF SceneInv
    <3>5. CASE ~ call.on
      <4>1. recordDeviceMode' \subseteq recordDeviceMode
        BY <3>1, <3>5 DEF MatchDeviceMode
      <4> QED BY <4>1 DEF SceneInv
    <3> QED BY <3>4, <3>5
  <2>2. ASSUME \A c \in Caller : ~ RequestDeviceMode(c)
        PROVE  recordDeviceMode' = recordDeviceMode
    BY <2>2 DEF Next, PerfRequest, PerfRequestEx, Admit, SetRequestStatus, SetThermalLevel,
                GetMatchCmdId, DoFreqActions, ClearAllAliveRequest, IntervalOver,
                WeakInteraction, Execute, Expire, vars
  <2>3. ASSUME recordDeviceMode' = recordDeviceMode
        PROVE  SceneInv'
    BY <2>3 DEF SceneInv
  <2> QED BY <2>1, <2>2, <2>3
<1>3. SceneInv => OneModePerScene
  <2> SUFFICES ASSUME SceneInv, NEW c \in Caller, NEW call \in Calls[c], call.op = "mode"
               PROVE  Cardinality(recordDeviceMode \cap call.scene) <= 1
    BY DEF OneModePerScene
  <2> DEFINE S == recordDeviceMode \cap call.scene
  <2>1. \A m, n \in S : m = n
    BY DEF SceneInv, Scenes
  <2> HIDE DEF S
  <2>2. CASE S = {}
    BY <2>2, FS_EmptySet DEF S
  <2>3. CASE S # {}
    <3>1. PICK m : S = {m}
      BY <2>1, <2>3
    <3>2. Cardinality(S) = 1
      BY <3>1, FS_Singleton
    <3> QED BY <3>2 DEF S
  <2> QED BY <2>2, <2>3
<1> QED BY <1>1, <1>2, <1>3, PTL DEF Spec

-----------------------------------------------------------------------------
(* Extrema *)

\* A set of integers that is bounded below has a least element, and one that is
\* bounded above a greatest.
LEMMA LeastExists ==
    ASSUME NEW S \in SUBSET Int, S # {}, NEW b \in Int, \A x \in S : b <= x
    PROVE  \E m \in S : \A x \in S : m <= x
<1> DEFINE T == {x - b : x \in S}
<1>1. T \subseteq Nat /\ T # {}
  <2>1. \A x \in S : x - b \in Nat
    OBVIOUS
  <2>2. PICK x \in S : TRUE
    OBVIOUS
  <2>3. x - b \in T
    OBVIOUS
  <2> QED BY <2>1, <2>3
<1>2. PICK n \in T : \A y \in T : ~ (<<y, n>> \in OpToRel(<, Nat))
  <2> HIDE DEF T
  <2> QED BY <1>1, NatLessThanWellFounded, WFMin
<1>3. \A y \in T : ~ (y < n)
  <2> TAKE y \in T
  <2>1. y \in Nat /\ n \in Nat
    BY <1>1
  <2>2. y < n => <<y, n>> \in OpToRel(<, Nat)
    BY <2>1 DEF OpToRel
  <2> QED BY <1>2, <2>2
<1>4. PICK m \in S : n = m - b
  OBVIOUS
<1>5. \A x \in S : m <= x
  <2> TAKE x \in S
  <2>1. x - b \in T
    OBVIOUS
  <2>2. ~ (x - b < m - b)
    BY <2>1, <1>3, <1>4
  <2> QED BY <2>2
<1> QED BY <1>5

\* The same for the greatest of a set of integers bounded above.
LEMMA GreatestExists ==
    ASSUME NEW S \in SUBSET Int, S # {}, NEW b \in Int, \A x \in S : x <= b
    PROVE  \E m \in S : \A x \in S : x <= m
<1> DEFINE T == {-x : x \in S}
<1>1. T \in SUBSET Int /\ T # {} /\ -b \in Int /\ \A x \in T : -b <= x
  <2>1. \A x \in S : -x \in Int /\ -b <= -x
    OBVIOUS
  <2>2. PICK x \in S : TRUE
    OBVIOUS
  <2>3. -x \in T
    OBVIOUS
  <2> QED BY <2>1, <2>3
<1>2. PICK n \in T : \A x \in T : n <= x
  <2> HIDE DEF T
  <2> QED BY <1>1, LeastExists
<1>3. PICK m \in S : n = -m
  OBVIOUS
<1>4. \A x \in S : x <= m
  <2> TAKE x \in S
  <2>1. -x \in T
    OBVIOUS
  <2> QED BY <2>1, <1>2, <1>3
<1> QED BY <1>4

\* Max returns a greatest element of a set of indices.
LEMMA MaxOfIndices ==
    ASSUME NEW n \in Nat, NEW S \in SUBSET (1 .. n), S # {}
    PROVE  Max(S) \in S
<1>1. S \in SUBSET Int /\ n \in Int /\ \A x \in S : x <= n
  OBVIOUS
<1>2. PICK m \in S : \A x \in S : x <= m
  BY <1>1, GreatestExists
<1>3. \A x \in S : m >= x
  BY <1>1, <1>2
<1> QED BY <1>3 DEF Max

-----------------------------------------------------------------------------
(* Types *)

Variable == [res : Res, value : Value]

TypeInv ==
    /\ TypeOK
    /\ queue \in Seq(SUBSET Request)
    /\ ConfigOK(configPerfActionsInfo)

\* What an action list holds.
LEMMA ActionType ==
    ASSUME NEW a \in Actions, NEW k \in DOMAIN a.actionList
    PROVE  /\ a.actionList[k] \in Action
           /\ a.actionList[k].variable \in Seq(Variable)
           /\ a.actionList[k].duration \in Duration
           /\ a.actionList[k].thermalCmdId \in CmdId \cup {NoCmd}
           /\ a.actionList[k].thermalLvl \in Int
<1>1. a.actionList \in Seq(Action)
  BY DEF Actions
<1>2. a.actionList[k] \in Action
  BY <1>1
<1>3. Lvl \subseteq Int /\ INVALID_THERMAL_LVL \in Int
  BY BoostAssumption DEF INVALID_THERMAL_LVL
<1> QED BY <1>2, <1>3 DEF Action, Variable

\* The device mode is a mode, or the default one.
LEMMA DeviceModeType ==
    ASSUME recordDeviceMode \subseteq Mode
    PROVE  GetDeviceMode \in Mode \cup {DEFAULT_CONFIG_MODE}
<1> SUFFICES ASSUME recordDeviceMode # {} PROVE Min(recordDeviceMode) \in recordDeviceMode
  BY DEF GetDeviceMode
<1>1. recordDeviceMode \in SUBSET Int /\ 0 \in Int /\ \A x \in recordDeviceMode : 0 <= x
  BY BoostAssumption
<1>2. PICK m \in recordDeviceMode : \A x \in recordDeviceMode : m <= x
  BY <1>1, LeastExists
<1> QED BY <1>2 DEF Min

\* Looking up a command finds its actions or null.
LEMMA ConfiguredType ==
    ASSUME ConfigOK(configPerfActionsInfo)
    PROVE  /\ DOMAIN default \subseteq DOMAIN Configured /\ DOMAIN Configured \subseteq CmdId
           /\ \A k \in DOMAIN Configured : Configured[k] \in Actions \cup {Null}
           /\ \A k : GetActionsInfo(k) \in Actions \cup {Null}
<1> DEFINE own == IF GetDeviceMode \in DOMAIN configPerfActionsInfo
                  THEN configPerfActionsInfo[GetDeviceMode] ELSE default
<1>1. DOMAIN default \subseteq CmdId /\ \A k \in DOMAIN default : default[k] \in Actions \cup {Null}
  BY DEF ConfigOK, default
<1>2. DOMAIN own \subseteq CmdId /\ \A k \in DOMAIN own : own[k] \in Actions \cup {Null}
  BY <1>1 DEF ConfigOK
<1>3. Configured = [k \in DOMAIN own \cup DOMAIN default |->
                       IF k \in DOMAIN own THEN own[k] ELSE default[k]]
  BY DEF Configured
<1> HIDE DEF own
<1>4. /\ DOMAIN Configured = DOMAIN own \cup DOMAIN default
      /\ \A k \in DOMAIN Configured : Configured[k] \in Actions \cup {Null}
  BY <1>1, <1>2, <1>3
<1> QED BY <1>1, <1>2, <1>4 DEF GetActionsInfo

\* The variables of the nearest level are variables.
LEMMA NearestType ==
    ASSUME NEW a \in Actions \cup {Null}, thermalLvl \in Lvl
    PROVE  Nearest(a) \in Seq(Variable)
<1> DEFINE list == a.actionList
           lvl(k) == list[k].thermalLvl
           below == {k \in 1 .. Len(list) : lvl(k) <= thermalLvl}
           top == {k \in below : \A j \in below : lvl(j) <= lvl(k)}
<1>1. CASE a = Null \/ below = {}
  BY <1>1 DEF Nearest
<1>2. CASE a # Null /\ below # {}
  <2>1. a \in Actions /\ list \in Seq(Action)
    BY <1>2 DEF Actions
  <2>2. DOMAIN list = 1 .. Len(list) /\ Len(list) \in Nat
    <3> HIDE DEF list
    <3> QED BY <2>1
  <2>3. \A k \in 1 .. Len(list) : lvl(k) \in Int /\ list[k].variable \in Seq(Variable)
    BY <2>1, <2>2, ActionType
  <2> DEFINE L == {lvl(k) : k \in below}
  <2>4. thermalLvl \in Int
    BY BoostAssumption
  <2> HIDE DEF list
  <2>5. L \in SUBSET Int /\ L # {} /\ \A x \in L : x <= thermalLvl
    BY <1>2, <2>3
  <2>6. PICK m \in L : \A x \in L : x <= m
    <3> HIDE DEF L
    <3> QED BY <2>4, <2>5, GreatestExists
  <2>7. PICK k \in below : m = lvl(k)
    OBVIOUS
  <2>8. k \in top
    BY <2>6, <2>7
  <2>9. top \in SUBSET (1 .. Len(list))
    OBVIOUS
  <2>10. Max(top) \in 1 .. Len(list)
    <3> HIDE DEF top
    <3> QED BY <2>2, <2>8, <2>9, MaxOfIndices
  <2>11. Nearest(a) = list[Max(top)].variable
    BY <1>2 DEF Nearest, list
  <2> HIDE DEF top
  <2> QED BY <2>3, <2>10, <2>11
<1> QED BY <1>1, <1>2

\* What an action makes.
LEMMA MadeType ==
    ASSUME NEW x \in Action, NEW variable \in Seq(Variable), NEW type \in {"perf", "perflvl"},
           NEW cmd \in CmdId, NEW onOff \in EventType
    PROVE  Made(x, variable, type, cmd, onOff) \in SUBSET Request
<1>1. \A v \in Range(variable) : v \in Variable
  BY DEF Range
<1>2. x.duration \in Duration
  BY DEF Action
<1> QED BY <1>1, <1>2 DEF Made, Request, Variable

\* What a command makes.
LEMMA RequestsType ==
    ASSUME ConfigOK(configPerfActionsInfo), thermalLvl \in Lvl,
           NEW a \in Actions, NEW cmd \in CmdId, NEW onOff \in EventType
    PROVE  /\ PerfRequests(a, cmd, onOff) \in SUBSET Request
           /\ LvlRequests(a, cmd, onOff) \in SUBSET Request
<1>1. \A k \in Used(a, onOff) : k \in DOMAIN a.actionList
  BY DEF Used
<1>2. ASSUME NEW k \in Used(a, onOff)
      PROVE  Made(a.actionList[k], a.actionList[k].variable, "perf", cmd, onOff)
                \in SUBSET Request
  BY <1>1, ActionType, MadeType
<1>3. ASSUME NEW k \in Hot(a, onOff)
      PROVE  Made(a.actionList[k], Nearest(GetActionsInfo(a.actionList[k].thermalCmdId)),
                  "perflvl", cmd, onOff) \in SUBSET Request
  <2>1. k \in DOMAIN a.actionList
    BY <1>1 DEF Hot
  <2>2. Nearest(GetActionsInfo(a.actionList[k].thermalCmdId)) \in Seq(Variable)
    BY ConfiguredType, NearestType
  <2> QED BY <2>1, <2>2, ActionType, MadeType
<1> QED BY <1>2, <1>3 DEF PerfRequests, LvlRequests

\* What the worker keeps.
LEMMA ApplyType ==
    ASSUME NEW S \in SUBSET Request, alive \subseteq {x \in Request : x.onOff # EVENT_OFF}
    PROVE  Apply(S) \subseteq {x \in Request : x.onOff # EVENT_OFF}
BY DEF Apply

LEMMA InitTypes ==
    ASSUME Init PROVE TypeInv
<1> USE DEF Init
<1>1. ConfigOK(configPerfActionsInfo)
  <2>1. IsConfig(configPerfActionsInfo)
    BY BoostAssumption
  <2> QED BY <2>1 DEF IsConfig, ConfigOK, Range
<1>2. Idle \in [at : {"idle", "match", "submit", "status"},
                cmdId : CmdId \cup {NoCmd}, onOff : EventType]
  BY DEF Idle, EventType
<1>3. pc \in [Caller -> [at : {"idle", "match", "submit", "status"},
                         cmdId : CmdId \cup {NoCmd}, onOff : EventType]]
  BY <1>2
<1>4. last \in [CmdId -> EventType]
  BY DEF EventType
<1>5. queue \in Seq(SUBSET Request) /\ Range(queue) \subseteq SUBSET Request
  BY DEF Range
<1>6. calls \in 0 .. MaxCalls /\ thermalLvl \in Lvl
  BY BoostAssumption
<1> QED BY <1>1, <1>3, <1>4, <1>5, <1>6 DEF TypeInv, TypeOK

PCType == [at : {"idle", "match", "submit", "status"},
           cmdId : CmdId \cup {NoCmd}, onOff : EventType]

\* A call that enters keeps the types, if what it writes has them.
LEMMA AdmitKeepsTypes ==
    ASSUME TypeInv, NEW c \in Caller, NEW cmd \in CmdId, NEW onOff \in EventType,
           Admit(c, cmd, onOff)
    PROVE  /\ pc' \in [Caller -> PCType] /\ recent' \subseteq CmdId \X {"request", "cancel"}
           /\ UNCHANGED <<perfRequestEnable, recordDeviceMode, thermalLvl>>
<1>1. pc \in [Caller -> PCType] /\ recent \subseteq CmdId \X {"request", "cancel"}
  BY DEF TypeInv, TypeOK, PCType
<1>2. Remembered(cmd, onOff) \subseteq recent
  BY DEF Remembered
<1>3. [at |-> "match", cmdId |-> cmd, onOff |-> onOff] \in PCType
  BY DEF PCType
<1>4. pc' \in [Caller -> PCType]
  BY <1>1, <1>3 DEF Admit
<1>5. <<cmd, IF onOff = EVENT_OFF THEN "cancel" ELSE "request">>
          \in CmdId \X {"request", "cancel"}
  OBVIOUS
<1>6. recent' \subseteq CmdId \X {"request", "cancel"}
  BY <1>1, <1>2, <1>5 DEF Admit
<1> QED BY <1>4, <1>6 DEF Admit

\* What a thread may call has its type.
LEMMA CallType ==
    ASSUME NEW c \in Caller, NEW call \in Calls[c]
    PROVE  /\ call.op = "perf" => call.cmdId \in CmdId
           /\ call.op = "perfEx" => call.cmdId \in CmdId /\ call.on \in BOOLEAN
           /\ call.op = "status" => call.on \in BOOLEAN
           /\ call.op = "mode" => call.scene \subseteq Mode
           /\ call.op = "level" => call.level \in Lvl
<1>1. call \in Call
  BY BoostAssumption
<1> QED BY <1>1 DEF Call

\* The calls keep the types.
LEMMA CallsKeepTypes ==
    ASSUME TypeInv, NEW c \in Caller,
           PerfRequest(c) \/ PerfRequestEx(c) \/ SetRequestStatus(c)
           \/ SetThermalLevel(c) \/ RequestDeviceMode(c)
    PROVE  TypeInv'
<1>1. /\ pc \in [Caller -> PCType] /\ calls \in 0 .. MaxCalls /\ MaxCalls \in Nat
      /\ EventType = {EVENT_INVALID, EVENT_OFF, EVENT_ON}
  BY BoostAssumption DEF TypeInv, TypeOK, PCType, EventType
<1>2. ASSUME NEW call, Enter(c, call), recordDeviceMode' \subseteq Mode, thermalLvl' \in Lvl,
             pc' \in [Caller -> PCType], recent' \subseteq CmdId \X {"request", "cancel"},
             perfRequestEnable' \in BOOLEAN, last' \in [CmdId -> EventType]
      PROVE  TypeInv'
  <2>1. calls' \in 0 .. MaxCalls
    BY <1>1, <1>2 DEF Enter
  <2>2. UNCHANGED <<configPerfActionsInfo, queue, alive, found>>
    BY <1>2 DEF Enter
  <2>3. TypeOK'
    BY <1>2, <2>1, <2>2 DEF TypeInv, TypeOK, PCType
  <2> QED BY <2>2, <2>3 DEF TypeInv, ConfigOK
<1>3. CASE PerfRequest(c)
  <2>1. PICK call \in Calls[c] : /\ call.op = "perf" /\ Enter(c, call) /\ UNCHANGED last
                                 /\ Admit(c, call.cmdId, EVENT_INVALID)
    BY <1>3 DEF PerfRequest
  <2>2. call.cmdId \in CmdId
    BY <2>1, CallType
  <2> QED BY <1>1, <1>2, <2>1, <2>2, AdmitKeepsTypes DEF TypeInv, TypeOK
<1>4. CASE PerfRequestEx(c)
  <2>1. PICK call \in Calls[c] :
               /\ call.op = "perfEx" /\ Enter(c, call)
               /\ Admit(c, call.cmdId, IF call.on THEN EVENT_ON ELSE EVENT_OFF)
               /\ last' = [last EXCEPT ![call.cmdId] = IF call.on THEN EVENT_ON ELSE EVENT_OFF]
    BY <1>4 DEF PerfRequestEx
  <2>2. call.cmdId \in CmdId /\ (IF call.on THEN EVENT_ON ELSE EVENT_OFF) \in EventType
    BY <1>1, <2>1, CallType
  <2>3. last' \in [CmdId -> EventType]
    BY <2>1, <2>2 DEF TypeInv, TypeOK
  <2> QED BY <1>2, <2>1, <2>2, <2>3, AdmitKeepsTypes DEF TypeInv, TypeOK
<1>5. CASE SetRequestStatus(c)
  <2>1. PICK call \in Calls[c] :
               /\ call.op = "status" /\ Enter(c, call) /\ perfRequestEnable' = call.on
               /\ pc' = [pc EXCEPT ![c] = [Idle EXCEPT !.at = "status"]]
               /\ UNCHANGED <<recent, recordDeviceMode, thermalLvl, last>>
    BY <1>5 DEF SetRequestStatus
  <2>2. [Idle EXCEPT !.at = "status"] \in PCType
    BY <1>1 DEF Idle, PCType
  <2>3. call.on \in BOOLEAN
    BY <2>1, CallType
  <2> QED BY <1>1, <1>2, <2>1, <2>2, <2>3 DEF TypeInv, TypeOK
<1>6. CASE SetThermalLevel(c)
  <2>1. PICK call \in Calls[c] :
               /\ call.op = "level" /\ Enter(c, call) /\ thermalLvl' = call.level
               /\ UNCHANGED <<pc, perfRequestEnable, recent, recordDeviceMode, last>>
    BY <1>6 DEF SetThermalLevel
  <2>2. call.level \in Lvl
    BY <2>1, CallType
  <2> QED BY <1>1, <1>2, <2>1, <2>2 DEF TypeInv, TypeOK
<1>7. CASE RequestDeviceMode(c)
  <2>1. PICK call \in Calls[c] :
               /\ call.op = "mode" /\ Enter(c, call)
               /\ recordDeviceMode' = MatchDeviceMode(call.scene, call.mode, call.on)
               /\ UNCHANGED <<pc, perfRequestEnable, recent, thermalLvl, last>>
    BY <1>7 DEF RequestDeviceMode
  <2>2. call.scene \subseteq Mode /\ recordDeviceMode \subseteq Mode
    BY <2>1, CallType DEF TypeInv, TypeOK
  <2>3. recordDeviceMode' \subseteq Mode
    BY <2>1, <2>2 DEF MatchDeviceMode
  <2> QED BY <1>1, <1>2, <2>1, <2>3 DEF TypeInv, TypeOK
<1> QED BY <1>3, <1>4, <1>5, <1>6, <1>7

\* The command that takes the place of another is configured, or is that one.
LEMMA MatchedCmd ==
    ASSUME NEW cmd, NEW tag
    PROVE  MatchDeviceModeCmd(cmd, tag) \in {cmd} \cup DOMAIN default
BY DEF MatchDeviceModeCmd

\* The choice of a command.
LEMMA MatchKeepsTypes ==
    ASSUME TypeInv, NEW c \in Caller, GetMatchCmdId(c)
    PROVE  TypeInv'
<1>1. pc \in [Caller -> PCType] /\ DOMAIN Configured \subseteq CmdId
      /\ DOMAIN default \subseteq CmdId
  BY ConfiguredType DEF TypeInv, TypeOK, PCType
<1>2. pc' \in [Caller -> PCType]
  <2>1. CASE pc' = [pc EXCEPT ![c] = Idle]
    <3>1. Idle \in PCType
      BY DEF Idle, PCType, EventType
    <3> QED BY <1>1, <2>1, <3>1
  <2>2. CASE pc[c].cmdId \in DOMAIN Configured /\
             pc' = [pc EXCEPT ![c].at = "submit", ![c].cmdId =
                      IF OnlyDefault
                      THEN MatchDeviceModeCmd(pc[c].cmdId, pc[c].onOff # EVENT_INVALID)
                      ELSE pc[c].cmdId]
    <3> DEFINE cmd == IF OnlyDefault
                      THEN MatchDeviceModeCmd(pc[c].cmdId, pc[c].onOff # EVENT_INVALID)
                      ELSE pc[c].cmdId
    <3>1. cmd \in CmdId
      BY <1>1, <2>2, MatchedCmd
    <3>2. pc' = [pc EXCEPT ![c].at = "submit", ![c].cmdId = cmd]
      BY <2>2
    <3> HIDE DEF cmd
    <3> QED BY <1>1, <3>1, <3>2 DEF PCType
  <2> QED BY <2>1, <2>2 DEF GetMatchCmdId
<1>3. /\ UNCHANGED <<calls, perfRequestEnable, recent, configPerfActionsInfo,
                     recordDeviceMode, thermalLvl, queue, alive, last>>
      /\ found' \in [Caller -> Mode \cup {DEFAULT_CONFIG_MODE}]
  <2>1. GetDeviceMode \in Mode \cup {DEFAULT_CONFIG_MODE}
    BY DeviceModeType DEF TypeInv, TypeOK
  <2> QED BY <2>1 DEF GetMatchCmdId, TypeInv, TypeOK
<1> QED BY <1>2, <1>3 DEF TypeInv, TypeOK, ConfigOK, PCType

\* Of the configuration the actions stay, and what was looked up in vain is null.
Grows(I) ==
    /\ DOMAIN configPerfActionsInfo' = DOMAIN configPerfActionsInfo
    /\ \A m \in DOMAIN configPerfActionsInfo :
          m # DEFAULT_CONFIG_MODE => configPerfActionsInfo'[m] = configPerfActionsInfo[m]
    /\ default' = [k \in DOMAIN default \cup I |->
                      IF k \in DOMAIN default THEN default[k] ELSE Null]

LEMMA ConfigGrows ==
    ASSUME ConfigOK(configPerfActionsInfo), NEW c \in Caller, DoFreqActions(c)
    PROVE  Grows(Inserted(GetActionsInfo(pc[c].cmdId), pc[c].onOff) \ DOMAIN Configured)
BY DEF ConfigOK, DoFreqActions, default, Grows

LEMMA WeakGrows ==
    ASSUME ConfigOK(configPerfActionsInfo), WeakInteraction
    PROVE  \E cmd \in WeakCmds : Grows({cmd})
BY DEF ConfigOK, WeakInteraction, default, Grows

\* Then it remains a configuration.
LEMMA GrowsType ==
    ASSUME ConfigOK(configPerfActionsInfo), NEW I \in SUBSET CmdId, Grows(I)
    PROVE  ConfigOK(configPerfActionsInfo)'
<1>1. /\ DOMAIN default \subseteq CmdId
      /\ \A k \in DOMAIN default : default[k] \in Actions \cup {Null}
  BY DEF ConfigOK, default
<1>2. /\ DOMAIN default' \subseteq CmdId
      /\ \A k \in DOMAIN default' : default'[k] \in Actions \cup {Null}
  BY <1>1 DEF Grows
<1> QED BY <1>2 DEF Grows, ConfigOK, default

\* What is inserted are thermal commands of the actions.
LEMMA InsertedType ==
    ASSUME NEW a \in Actions, NEW onOff
    PROVE  Inserted(a, onOff) \subseteq CmdId
<1>1. ASSUME NEW k \in Hot(a, onOff)
      PROVE  a.actionList[k].thermalCmdId \in CmdId
  <2>1. k \in DOMAIN a.actionList /\ a.actionList[k].thermalCmdId # NoCmd
    BY DEF Hot, Used
  <2> QED BY <2>1, ActionType
<1> QED BY <1>1 DEF Inserted

\* A longer queue of sets of requests.
LEMMA AppendType ==
    ASSUME queue \in Seq(SUBSET Request), NEW S \in SUBSET Request
    PROVE  /\ Append(queue, S) \in Seq(SUBSET Request)
           /\ Range(Append(queue, S)) \subseteq SUBSET Request
<1> DEFINE R == SUBSET Request
           q == Append(queue, S)
<1> HIDE DEF R
<1>1. q \in Seq(R)
  BY DEF R
<1>2. \A i \in DOMAIN q : q[i] \in R
  <2> HIDE DEF q
  <2> QED BY <1>1
<1> QED BY <1>1, <1>2 DEF R, Range

\* The submission of a command.
LEMMA DoKeepsTypes ==
    ASSUME TypeInv, NEW c \in Caller, DoFreqActions(c)
    PROVE  TypeInv'
<1> DEFINE cmd == pc[c].cmdId
           a == GetActionsInfo(cmd)
           onOff == pc[c].onOff
           S == PerfRequests(a, cmd, onOff) \cup LvlRequests(a, cmd, onOff)
<1>1. /\ pc \in [Caller -> PCType] /\ thermalLvl \in Lvl /\ ConfigOK(configPerfActionsInfo)
      /\ queue \in Seq(SUBSET Request) /\ Range(queue) \subseteq SUBSET Request
  BY DEF TypeInv, TypeOK, PCType
<1>2. a \in Actions /\ onOff \in EventType
  BY <1>1, ConfiguredType DEF DoFreqActions, PCType
<1>3. cmd \in CmdId
  <2>1. cmd \in CmdId \cup {NoCmd} /\ DOMAIN Configured \subseteq CmdId
    BY <1>1, ConfiguredType DEF PCType
  <2>2. cmd \in DOMAIN Configured
    BY <1>2, BoostAssumption DEF GetActionsInfo
  <2> QED BY <2>1, <2>2
<1>4. S \in SUBSET Request
  BY <1>1, <1>2, <1>3, RequestsType
<1>5. /\ queue' = IF S = {} THEN queue ELSE Append(queue, S)
      /\ pc' = [pc EXCEPT ![c] = Idle]
      /\ UNCHANGED <<calls, perfRequestEnable, recent, recordDeviceMode, thermalLvl, alive,
                     last, found>>
  BY DEF DoFreqActions
<1>6. queue' \in Seq(SUBSET Request) /\ Range(queue)' \subseteq SUBSET Request
  <2> HIDE DEF S
  <2>1. CASE S = {}
    BY <1>1, <1>5, <2>1
  <2>2. CASE S # {}
    BY <1>1, <1>4, <1>5, <2>2, AppendType
  <2> QED BY <2>1, <2>2
<1>7. pc' \in [Caller -> PCType]
  <2>1. Idle \in PCType
    BY DEF Idle, PCType, EventType
  <2> QED BY <1>1, <1>5, <2>1
<1>8. ConfigOK(configPerfActionsInfo)'
  <2>1. Inserted(a, onOff) \ DOMAIN Configured \in SUBSET CmdId
    BY <1>2, InsertedType
  <2>2. Grows(Inserted(a, onOff) \ DOMAIN Configured)
    BY <1>1, ConfigGrows
  <2> HIDE DEF a, onOff
  <2> QED BY <1>1, <2>1, <2>2, GrowsType
<1> QED BY <1>1, <1>5, <1>6, <1>7, <1>8 DEF TypeInv, TypeOK, PCType

\* The other steps.
LEMMA OthersKeepTypes ==
    ASSUME TypeInv,
           \/ (\E c \in Caller : ClearAllAliveRequest(c)) \/ IntervalOver
           \/ WeakInteraction \/ Execute \/ Expire
    PROVE  TypeInv'
<1>1. ASSUME UNCHANGED configPerfActionsInfo
      PROVE  ConfigOK(configPerfActionsInfo)'
  BY <1>1 DEF TypeInv, ConfigOK
<1>2. ASSUME NEW c \in Caller, ClearAllAliveRequest(c)
      PROVE  TypeInv'
  <2>1. Idle \in PCType /\ pc \in [Caller -> PCType]
    BY DEF Idle, PCType, EventType, TypeInv, TypeOK
  <2>2. pc' \in [Caller -> PCType]
    BY <1>2, <2>1 DEF ClearAllAliveRequest
  <2>3. queue' \in Seq(SUBSET Request) /\ Range(queue)' \subseteq SUBSET Request
    <3>1. CASE queue' = queue
      BY <3>1 DEF TypeInv, TypeOK
    <3>2. CASE queue' = Append(queue, {})
      BY <3>2, AppendType DEF TypeInv
    <3> QED BY <1>2, <3>1, <3>2 DEF ClearAllAliveRequest
  <2> QED BY <1>1, <1>2, <2>2, <2>3 DEF ClearAllAliveRequest, TypeInv, TypeOK, PCType
<1>3. CASE IntervalOver
  BY <1>1, <1>3 DEF IntervalOver, TypeInv, TypeOK
<1>4. CASE Expire
  BY <1>1, <1>4 DEF Expire, TypeInv, TypeOK
<1>5. CASE Execute
  <2> DEFINE R == SUBSET Request
  <2>1. queue # <<>> /\ queue' = Tail(queue) /\ queue \in Seq(R)
    BY <1>5 DEF Execute, TypeInv
  <2>2. Head(queue) \in R /\ queue' \in Seq(R) /\ \A i \in DOMAIN queue' : queue'[i] \in R
    <3> HIDE DEF R
    <3>1. Head(queue) \in R /\ queue' \in Seq(R)
      BY <2>1
    <3> QED BY <3>1
  <2>3. Range(queue)' \subseteq SUBSET Request
    BY <2>2 DEF Range
  <2>4. alive' \subseteq {x \in Request : x.onOff # EVENT_OFF}
    BY <1>5, <2>2, ApplyType DEF Execute, TypeInv, TypeOK
  <2> QED BY <1>1, <1>5, <2>2, <2>3, <2>4 DEF Execute, TypeInv, TypeOK
<1>6. CASE WeakInteraction
  <2>1. PICK cmd \in WeakCmds : Grows({cmd})
    BY <1>6, WeakGrows DEF TypeInv
  <2>2. {cmd} \in SUBSET CmdId
    BY BoostAssumption
  <2>3. ConfigOK(configPerfActionsInfo)'
    BY <2>1, <2>2, GrowsType DEF TypeInv
  <2> QED BY <1>6, <2>3 DEF WeakInteraction, TypeInv, TypeOK
<1> QED BY <1>2, <1>3, <1>4, <1>5, <1>6

\* Every step keeps the types.
LEMMA NextTypes ==
    ASSUME TypeInv, [Next]_vars PROVE TypeInv'
<1>1. CASE UNCHANGED vars
  BY <1>1 DEF vars, TypeInv, TypeOK, ConfigOK
<1> QED BY <1>1, CallsKeepTypes, MatchKeepsTypes, DoKeepsTypes, OthersKeepTypes DEF Next

LEMMA TypesAlways == Spec => []TypeInv
BY InitTypes, NextTypes, PTL DEF Spec

\* The members keep to their types for every configuration, what is submitted is made
\* of configured resources and values, and no OFF is ever alive.
THEOREM BoostTypeCorrect == Spec => []TypeOK
<1>1. TypeInv => TypeOK
  BY DEF TypeInv
<1> QED BY <1>1, TypesAlways, PTL

-----------------------------------------------------------------------------
(* Null actions *)

NullInv ==
    /\ TypeInv /\ StoredNulls
    /\ \A c \in Caller : pc[c].at = "submit" =>
          \/ pc[c].cmdId \in DOMAIN default
          \/ /\ found[c] \in DOMAIN configPerfActionsInfo
             /\ pc[c].cmdId \in DOMAIN configPerfActionsInfo[found[c]]

\* The configuration where a command was found has its actions.
LEMMA WhereConfigured ==
    ASSUME ConfigOK(configPerfActionsInfo), NEW k \in DOMAIN Configured
    PROVE  \E m \in DOMAIN configPerfActionsInfo \cap {GetDeviceMode, DEFAULT_CONFIG_MODE} :
              /\ k \in DOMAIN configPerfActionsInfo[m]
              /\ Configured[k] = configPerfActionsInfo[m][k]
<1> DEFINE own == IF GetDeviceMode \in DOMAIN configPerfActionsInfo
                  THEN configPerfActionsInfo[GetDeviceMode] ELSE default
<1>1. Configured = [j \in DOMAIN own \cup DOMAIN default |->
                       IF j \in DOMAIN own THEN own[j] ELSE default[j]]
  BY DEF Configured
<1>2. CASE k \in DOMAIN own
  <2>1. Configured[k] = own[k]
    <3> HIDE DEF own
    <3> QED BY <1>1, <1>2
  <2> QED BY <1>2, <2>1 DEF ConfigOK, default
<1>3. CASE k \notin DOMAIN own
  <2>1. k \in DOMAIN default /\ Configured[k] = default[k]
    <3> HIDE DEF own
    <3> QED BY <1>1, <1>3
  <2> QED BY <2>1 DEF ConfigOK, default
<1> QED BY <1>2, <1>3

\* The thermal commands of the actions that are not null are unchecked.
LEMMA ThermalUnchecked ==
    ASSUME NEW m \in DOMAIN configPerfActionsInfo, NEW k \in DOMAIN configPerfActionsInfo[m],
           configPerfActionsInfo[m][k] # Null,
           NEW i \in DOMAIN configPerfActionsInfo[m][k].actionList
    PROVE  configPerfActionsInfo[m][k].actionList[i].thermalCmdId \in Unchecked
<1>1. configPerfActionsInfo[m][k] \in Range(configPerfActionsInfo[m])
  BY DEF Range
<1>2. configPerfActionsInfo[m][k].actionList[i]
        \in Range(configPerfActionsInfo[m][k].actionList)
  BY DEF Range
<1> QED BY <1>1, <1>2 DEF Unchecked

\* When nulls are added to the default configuration, nothing else changes.
LEMMA GrowsKeeps ==
    ASSUME ConfigOK(configPerfActionsInfo), NEW I, Grows(I)
    PROVE  /\ DOMAIN configPerfActionsInfo' = DOMAIN configPerfActionsInfo
           /\ DOMAIN default' = DOMAIN default \cup I
           /\ \A m \in DOMAIN configPerfActionsInfo :
                 \A k \in DOMAIN configPerfActionsInfo[m] :
                    /\ k \in DOMAIN configPerfActionsInfo'[m]
                    /\ configPerfActionsInfo'[m][k] = configPerfActionsInfo[m][k]
           /\ \A m \in DOMAIN configPerfActionsInfo :
                 \A k \in DOMAIN configPerfActionsInfo'[m] \ DOMAIN configPerfActionsInfo[m] :
                    m = DEFAULT_CONFIG_MODE /\ k \in I
BY DEF Grows, ConfigOK, default

\* What was unchecked still is.
LEMMA UncheckedStays ==
    ASSUME ConfigOK(configPerfActionsInfo), NEW I, Grows(I)
    PROVE  Unchecked \subseteq Unchecked'
<1> SUFFICES ASSUME NEW t \in Unchecked, t \notin WeakCmds
             PROVE  t \in Unchecked'
  BY DEF Unchecked
<1>1. PICK m \in DOMAIN configPerfActionsInfo : \E k \in DOMAIN configPerfActionsInfo[m] :
              /\ configPerfActionsInfo[m][k] # Null
              /\ \E i \in DOMAIN configPerfActionsInfo[m][k].actionList :
                    t = configPerfActionsInfo[m][k].actionList[i].thermalCmdId
  BY DEF Unchecked, Range
<1>2. PICK k \in DOMAIN configPerfActionsInfo[m] :
              /\ configPerfActionsInfo[m][k] # Null
              /\ \E i \in DOMAIN configPerfActionsInfo[m][k].actionList :
                    t = configPerfActionsInfo[m][k].actionList[i].thermalCmdId
  BY <1>1
<1>3. PICK i \in DOMAIN configPerfActionsInfo[m][k].actionList :
              t = configPerfActionsInfo[m][k].actionList[i].thermalCmdId
  BY <1>2
<1>4. /\ m \in DOMAIN configPerfActionsInfo' /\ k \in DOMAIN configPerfActionsInfo'[m]
      /\ configPerfActionsInfo'[m][k] = configPerfActionsInfo[m][k]
  BY GrowsKeeps
<1>5. configPerfActionsInfo'[m][k] \in Range(configPerfActionsInfo'[m])
  BY <1>4 DEF Range
<1>6. configPerfActionsInfo'[m][k].actionList[i]
        \in Range(configPerfActionsInfo'[m][k].actionList)
  BY <1>3, <1>4 DEF Range
<1> QED BY <1>2, <1>3, <1>4, <1>5, <1>6 DEF Unchecked

\* Nulls of unchecked commands leave the stored nulls as they should be.
LEMMA GrowsKeepsStored ==
    ASSUME ConfigOK(configPerfActionsInfo), StoredNulls, NEW I, Grows(I), I \subseteq Unchecked
    PROVE  StoredNulls'
<1> SUFFICES ASSUME NEW m \in DOMAIN configPerfActionsInfo',
                    NEW k \in DOMAIN configPerfActionsInfo'[m],
                    configPerfActionsInfo'[m][k] = Null
             PROVE  m = DEFAULT_CONFIG_MODE /\ k \in Unchecked'
  BY DEF StoredNulls
<1>1. m \in DOMAIN configPerfActionsInfo
  BY GrowsKeeps
<1>2. CASE k \in DOMAIN configPerfActionsInfo[m]
  <2>1. configPerfActionsInfo[m][k] = Null
    BY <1>1, <1>2, GrowsKeeps
  <2> QED BY <1>1, <1>2, <2>1, UncheckedStays DEF StoredNulls
<1>3. CASE k \notin DOMAIN configPerfActionsInfo[m]
  BY <1>1, <1>3, GrowsKeeps, UncheckedStays
<1> QED BY <1>2, <1>3

\* The steps that neither choose a command nor submit it, nor look one up.
LEMMA StepsAside ==
    ASSUME TypeInv, [Next]_vars, ~ WeakInteraction,
           \A c \in Caller : ~ GetMatchCmdId(c) /\ ~ DoFreqActions(c)
    PROVE  /\ configPerfActionsInfo' = configPerfActionsInfo /\ found' = found
           /\ \A d \in Caller : pc'[d].at = "submit" => pc'[d] = pc[d]
<1>1. pc \in [Caller -> PCType]
  BY DEF TypeInv, TypeOK, PCType
<1>2. Idle.at = "idle" /\ [Idle EXCEPT !.at = "status"].at = "status"
  BY DEF Idle
<1>3. ASSUME NEW c \in Caller, NEW cmd, NEW onOff, Admit(c, cmd, onOff), NEW d \in Caller,
             pc'[d].at = "submit"
      PROVE  pc'[d] = pc[d]
  <2>1. CASE pc' = pc
    BY <2>1
  <2>2. CASE pc' = [pc EXCEPT ![c] = [at |-> "match", cmdId |-> cmd, onOff |-> onOff]]
    BY <1>1, <1>3, <2>2
  <2> QED BY <1>3, <2>1, <2>2 DEF Admit
<1>4. ASSUME NEW c \in Caller, PerfRequest(c) \/ PerfRequestEx(c)
      PROVE  /\ configPerfActionsInfo' = configPerfActionsInfo /\ found' = found
             /\ \A d \in Caller : pc'[d].at = "submit" => pc'[d] = pc[d]
  BY <1>3, <1>4 DEF PerfRequest, PerfRequestEx, Enter
<1>5. ASSUME NEW c \in Caller, SetRequestStatus(c)
      PROVE  /\ configPerfActionsInfo' = configPerfActionsInfo /\ found' = found
             /\ \A d \in Caller : pc'[d].at = "submit" => pc'[d] = pc[d]
  <2>1. pc' = [pc EXCEPT ![c] = [Idle EXCEPT !.at = "status"]]
        /\ configPerfActionsInfo' = configPerfActionsInfo /\ found' = found
    BY <1>5 DEF SetRequestStatus, Enter
  <2> QED BY <1>1, <1>2, <2>1
<1>6. ASSUME NEW c \in Caller, SetThermalLevel(c) \/ RequestDeviceMode(c)
      PROVE  configPerfActionsInfo' = configPerfActionsInfo /\ pc' = pc /\ found' = found
  BY <1>6 DEF SetThermalLevel, RequestDeviceMode, Enter
<1>7. ASSUME NEW c \in Caller, ClearAllAliveRequest(c)
      PROVE  /\ configPerfActionsInfo' = configPerfActionsInfo /\ found' = found
             /\ \A d \in Caller : pc'[d].at = "submit" => pc'[d] = pc[d]
  <2>1. pc' = [pc EXCEPT ![c] = Idle] /\ configPerfActionsInfo' = configPerfActionsInfo
        /\ found' = found
    BY <1>7 DEF ClearAllAliveRequest
  <2> QED BY <1>1, <1>2, <2>1
<1>8. CASE IntervalOver \/ Execute \/ Expire \/ UNCHANGED vars
  BY <1>8 DEF IntervalOver, Execute, Expire, vars
<1> QED BY <1>4, <1>5, <1>6, <1>7, <1>8 DEF Next

\* The choice of a command.
LEMMA MatchKeepsNull ==
    ASSUME NullInv, NEW c \in Caller, GetMatchCmdId(c), TypeInv'
    PROVE  NullInv'
<1> DEFINE cmd == IF OnlyDefault
                  THEN MatchDeviceModeCmd(pc[c].cmdId, pc[c].onOff # EVENT_INVALID)
                  ELSE pc[c].cmdId
           Known(k, m) == \/ k \in DOMAIN default
                          \/ /\ m \in DOMAIN configPerfActionsInfo
                             /\ k \in DOMAIN configPerfActionsInfo[m]
<1>1. /\ pc \in [Caller -> PCType] /\ found \in [Caller -> Mode \cup {DEFAULT_CONFIG_MODE}]
      /\ configPerfActionsInfo' = configPerfActionsInfo
      /\ ConfigOK(configPerfActionsInfo)
      /\ \A d \in Caller : pc[d].at = "submit" => Known(pc[d].cmdId, found[d])
  BY DEF NullInv, TypeInv, TypeOK, PCType, GetMatchCmdId
<1>2. StoredNulls'
  BY <1>1 DEF NullInv, StoredNulls, Unchecked
<1> SUFFICES \A d \in Caller : pc'[d].at = "submit" => Known(pc'[d].cmdId, found'[d])
  BY <1>1, <1>2 DEF NullInv, default
<1>3. CASE pc' = [pc EXCEPT ![c] = Idle] /\ found' = found
  <2>1. Idle.at = "idle"
    BY DEF Idle
  <2> HIDE DEF Known
  <2> QED BY <1>1, <1>3, <2>1
<1>4. CASE /\ pc[c].cmdId \in DOMAIN Configured
           /\ pc' = [pc EXCEPT ![c].at = "submit", ![c].cmdId = cmd]
           /\ found' = [found EXCEPT ![c] = GetDeviceMode]
  <2>1. Known(pc[c].cmdId, GetDeviceMode)
    BY <1>1, <1>4, WhereConfigured DEF default
  <2>2. cmd = pc[c].cmdId \/ cmd \in DOMAIN default
    BY MatchedCmd
  <2>3. Known(cmd, GetDeviceMode)
    <3> HIDE DEF cmd
    <3> QED BY <2>1, <2>2
  <2>4. \A d \in Caller : /\ d = c => pc'[d].cmdId = cmd /\ found'[d] = GetDeviceMode
                          /\ d # c => pc'[d] = pc[d] /\ found'[d] = found[d]
    <3> HIDE DEF cmd
    <3> QED BY <1>1, <1>4 DEF PCType
  <2> HIDE DEF cmd, Known
  <2> QED BY <1>1, <2>3, <2>4
<1> QED BY <1>3, <1>4 DEF GetMatchCmdId

\* Nulls that are added, while no thread goes on to submit.
LEMMA GrowsKeepsNull ==
    ASSUME NullInv, NEW I, Grows(I), I \subseteq Unchecked, TypeInv', found' = found,
           \A d \in Caller : pc'[d].at = "submit" => pc'[d] = pc[d]
    PROVE  NullInv'
<1>1. ConfigOK(configPerfActionsInfo) /\ StoredNulls
  BY DEF NullInv, TypeInv
<1>2. StoredNulls'
  BY <1>1, GrowsKeepsStored
<1>3. /\ DOMAIN configPerfActionsInfo' = DOMAIN configPerfActionsInfo
      /\ DOMAIN default \subseteq DOMAIN default'
      /\ \A m \in DOMAIN configPerfActionsInfo :
            DOMAIN configPerfActionsInfo[m] \subseteq DOMAIN configPerfActionsInfo'[m]
  BY <1>1, GrowsKeeps
<1> QED BY <1>2, <1>3 DEF NullInv

\* The submission of a command stores nulls of its thermal commands only.
LEMMA DoKeepsNull ==
    ASSUME NullInv, NEW c \in Caller, DoFreqActions(c), TypeInv'
    PROVE  NullInv'
<1> DEFINE cmd == pc[c].cmdId
           a == GetActionsInfo(cmd)
           I == Inserted(a, pc[c].onOff) \ DOMAIN Configured
<1>1. ConfigOK(configPerfActionsInfo) /\ pc \in [Caller -> PCType]
  BY DEF NullInv, TypeInv, TypeOK, PCType
<1>2. Grows(I)
  BY <1>1, ConfigGrows
<1>3. I \subseteq Unchecked
  <2>1. a # Null /\ cmd \in DOMAIN Configured /\ a = Configured[cmd]
    BY DEF DoFreqActions, GetActionsInfo
  <2>2. PICK m \in DOMAIN configPerfActionsInfo :
                cmd \in DOMAIN configPerfActionsInfo[m] /\ a = configPerfActionsInfo[m][cmd]
    BY <1>1, <2>1, WhereConfigured
  <2>3. \A i \in DOMAIN a.actionList : a.actionList[i].thermalCmdId \in Unchecked
    BY <2>1, <2>2, ThermalUnchecked
  <2>4. \A i \in Hot(a, pc[c].onOff) : i \in DOMAIN a.actionList
    BY DEF Hot, Used
  <2> HIDE DEF a
  <2> QED BY <2>3, <2>4 DEF Inserted
<1>4. found' = found /\ \A d \in Caller : pc'[d].at = "submit" => pc'[d] = pc[d]
  <2>1. Idle.at = "idle" /\ pc' = [pc EXCEPT ![c] = Idle] /\ found' = found
    BY DEF Idle, DoFreqActions
  <2> QED BY <1>1, <2>1
<1> HIDE DEF I
<1> QED BY <1>2, <1>3, <1>4, GrowsKeepsNull

\* For every configuration and any threads: a null Actions that is stored is a default
\* one of a thermal or weak command; and a command that was found, and is not found
\* when it is submitted, is configured for the device mode it was found under, which
\* has been left since.
THEOREM NullsAreExplained == Spec => []NullsExplained
<1>1. Init => NullInv
  <2> SUFFICES ASSUME Init PROVE NullInv
    OBVIOUS
  <2>1. StoredNulls
    <3>1. IsConfig(configPerfActionsInfo)
      BY BoostAssumption DEF Init
    <3> QED BY <3>1, BoostAssumption DEF IsConfig, StoredNulls, Range
  <2>2. \A c \in Caller : pc[c].at = "idle"
    BY DEF Init, Idle
  <2> QED BY <2>1, <2>2, InitTypes DEF NullInv
<1>2. NullInv /\ [Next]_vars => NullInv'
  <2> SUFFICES ASSUME NullInv, [Next]_vars PROVE NullInv'
    OBVIOUS
  <2>1. TypeInv'
    BY NextTypes DEF NullInv
  <2>2. CASE \E c \in Caller : GetMatchCmdId(c)
    BY <2>1, <2>2, MatchKeepsNull
  <2>3. CASE \E c \in Caller : DoFreqActions(c)
    BY <2>1, <2>3, DoKeepsNull
  <2>4. CASE WeakInteraction
    <3>1. PICK cmd \in WeakCmds : Grows({cmd})
      BY <2>4, WeakGrows DEF NullInv, TypeInv
    <3>2. {cmd} \subseteq Unchecked
      BY DEF Unchecked
    <3>3. found' = found /\ pc' = pc
      BY <2>4 DEF WeakInteraction
    <3> QED BY <2>1, <3>1, <3>2, <3>3, GrowsKeepsNull
  <2>5. CASE ~ WeakInteraction /\ \A c \in Caller : ~ GetMatchCmdId(c) /\ ~ DoFreqActions(c)
    <3>1. /\ configPerfActionsInfo' = configPerfActionsInfo /\ found' = found
          /\ \A d \in Caller : pc'[d].at = "submit" => pc'[d] = pc[d]
      BY <2>5, StepsAside DEF NullInv
    <3> QED BY <2>1, <3>1 DEF NullInv, StoredNulls, Unchecked, default
  <2> QED BY <2>2, <2>3, <2>4, <2>5
<1>3. NullInv => NullsExplained
  <2> SUFFICES ASSUME NullInv, NEW c \in Caller, pc[c].at = "submit",
                      pc[c].cmdId \notin DOMAIN Configured
               PROVE  /\ found[c] # GetDeviceMode
                      /\ found[c] \in DOMAIN configPerfActionsInfo
                      /\ pc[c].cmdId \in DOMAIN configPerfActionsInfo[found[c]]
    BY DEF NullInv, NullsExplained, LostCommands
  <2>1. /\ DOMAIN default \subseteq DOMAIN Configured
        /\ GetDeviceMode \in DOMAIN configPerfActionsInfo =>
               DOMAIN configPerfActionsInfo[GetDeviceMode] \subseteq DOMAIN Configured
    BY DEF Configured
  <2> QED BY <2>1 DEF NullInv
<1> QED BY <1>1, <1>2, <1>3, PTL DEF Spec

-----------------------------------------------------------------------------
(* The end of a long-time command *)

IsLong(cmd) == LongIn(configPerfActionsInfo, cmd)
Asked(cmd, onOff) == PerfRequests(default[cmd], cmd, onOff)

\* The PERF requests of cmd in S that need an OFF, and that one task will end those
\* of S, being a task that clears or has all of X.
On(cmd, S) == {x \in S : x.cmdId = cmd /\ x.type = "perf" /\ x.onOff = EVENT_ON}
Ends(X, S) == S = {} \/ X \subseteq S

\* After what is alive, and after every task, there is one that ends it.
EndedIn(q, A, X, cmd) ==
    /\ On(cmd, A) # {} => \E j \in DOMAIN q : Ends(X, q[j])
    /\ \A i \in DOMAIN q : On(cmd, q[i]) # {} => \E j \in DOMAIN q : i < j /\ Ends(X, q[j])
Ended(cmd) == EndedIn(queue, alive, Asked(cmd, EVENT_OFF), cmd)

\* The thread is turning the command on or off.
Asks(c, cmd) ==
    pc[c].at \in {"match", "submit"} /\ pc[c].cmdId = cmd /\ pc[c].onOff # EVENT_INVALID

\* It has an end, or its OFF is on the way.
Ending(u, cmd) == Ended(cmd) \/ (Asks(u, cmd) /\ pc[u].onOff = EVENT_OFF)

\* What is alive or submitted was asked of the command.
OnlyAsked(cmd) ==
    /\ On(cmd, alive) \subseteq Asked(cmd, EVENT_ON)
    /\ \A i \in DOMAIN queue : On(cmd, queue[i]) \subseteq Asked(cmd, EVENT_ON)

\* The user alone is, while requests are enabled; a new ON has forgotten the OFF.
AskedByUser(u, cmd) ==
    \A c \in Caller : Asks(c, cmd) =>
        /\ c = u /\ perfRequestEnable /\ last[cmd] = pc[c].onOff
        /\ pc[c].onOff = EVENT_ON => <<cmd, "cancel">> \notin recent

\* The command has an end, or will, when it was last turned off, when an OFF was
\* recorded and no ON since, and when requests were disabled.
EndsInTime(u, cmd) ==
    /\ last[cmd] = EVENT_OFF => Ending(u, cmd)
    /\ <<cmd, "cancel">> \in recent => Ending(u, cmd)
    /\ ~ perfRequestEnable /\ pc[u].at # "status" => Ended(cmd)

CmdInv(u, cmd) == OnlyAsked(cmd) /\ AskedByUser(u, cmd) /\ EndsInTime(u, cmd)

LongInv(u) ==
    /\ \A c \in Caller : pc[c].at = "status" => c = u
    /\ \A cmd : IsLong(cmd) => \E f \in Configs : LongIn(f, cmd)
    /\ \A cmd \in CmdId : IsLong(cmd) => CmdInv(u, cmd)

\* A task more, which turns nothing on, leaves an end where it is.
LEMMA EndedAppend ==
    ASSUME NEW q \in Seq(SUBSET Request), NEW A, NEW X, NEW cmd, EndedIn(q, A, X, cmd),
           NEW S \in SUBSET Request, On(cmd, S) = {}
    PROVE  EndedIn(Append(q, S), A, X, cmd)
<1> DEFINE R == SUBSET Request
           p == Append(q, S)
<1>1. /\ DOMAIN p = 1 .. Len(q) + 1 /\ DOMAIN q = 1 .. Len(q) /\ Len(q) \in Nat
      /\ p[Len(q) + 1] = S /\ \A i \in DOMAIN q : p[i] = q[i]
  <2> HIDE DEF R
  <2> QED OBVIOUS
<1> HIDE DEF p
<1>2. \A i \in DOMAIN q : i \in DOMAIN p
  BY <1>1
<1>3. \A i \in DOMAIN p : i \in DOMAIN q \/ i = Len(q) + 1
  BY <1>1
<1>4. EndedIn(p, A, X, cmd)
  BY <1>1, <1>2, <1>3 DEF EndedIn
<1> QED BY <1>4 DEF p

\* A task more that ends what came before.
LEMMA EndedByLast ==
    ASSUME NEW q \in Seq(SUBSET Request), NEW A, NEW X, NEW cmd,
           NEW S \in SUBSET Request, On(cmd, S) = {}, Ends(X, S)
    PROVE  EndedIn(Append(q, S), A, X, cmd)
<1> DEFINE p == Append(q, S)
<1>1. /\ DOMAIN p = 1 .. Len(q) + 1 /\ Len(q) \in Nat /\ p[Len(q) + 1] = S
      /\ Len(q) + 1 \in DOMAIN p
  OBVIOUS
<1> HIDE DEF p
<1>2. \A i \in DOMAIN p : i # Len(q) + 1 => i < Len(q) + 1
  BY <1>1
<1>3. EndedIn(p, A, X, cmd)
  BY <1>1, <1>2 DEF EndedIn
<1> QED BY <1>3 DEF p

\* What was turned on is turned off by its own OFF.
LEMMA OffOfOn ==
    ASSUME NEW a, NEW cmd, NEW x \in PerfRequests(a, cmd, EVENT_ON)
    PROVE  \E y \in PerfRequests(a, cmd, EVENT_OFF) :
              y.onOff = EVENT_OFF /\ [y EXCEPT !.onOff = EVENT_ON] = x
<1>1. Used(a, EVENT_ON) = Used(a, EVENT_OFF)
  BY DEF Used, EVENT_ON, EVENT_OFF, EVENT_INVALID
<1>2. PICK k \in Used(a, EVENT_ON) :
             x \in Made(a.actionList[k], a.actionList[k].variable, "perf", cmd, EVENT_ON)
  BY DEF PerfRequests
<1>3. PICK v \in Range(a.actionList[k].variable) :
             x = [res |-> v.res, value |-> v.value, duration |-> a.actionList[k].duration,
                  cmdId |-> cmd, type |-> "perf", onOff |-> EVENT_ON]
  BY <1>2 DEF Made
<1> DEFINE y == [res |-> v.res, value |-> v.value, duration |-> a.actionList[k].duration,
                 cmdId |-> cmd, type |-> "perf", onOff |-> EVENT_OFF]
<1>4. y \in Made(a.actionList[k], a.actionList[k].variable, "perf", cmd, EVENT_OFF)
  BY DEF Made
<1>5. y \in PerfRequests(a, cmd, EVENT_OFF)
  BY <1>1, <1>4 DEF PerfRequests
<1>6. y.onOff = EVENT_OFF /\ [y EXCEPT !.onOff = EVENT_ON] = x
  BY <1>3
<1> QED BY <1>5, <1>6

\* The execution of a task leaves an end, if what is alive was asked of the command.
LEMMA EndedExecute ==
    ASSUME TypeInv, NEW cmd, Ended(cmd), On(cmd, alive) \subseteq Asked(cmd, EVENT_ON),
           queue # <<>>
    PROVE  EndedIn(Tail(queue), Apply(Head(queue)), Asked(cmd, EVENT_OFF), cmd)
<1> DEFINE X == Asked(cmd, EVENT_OFF)
           p == Tail(queue)
           n == Len(queue)
           S == Head(queue)
           R == SUBSET Request
<1>1. /\ n \in Nat \ {0} /\ DOMAIN queue = 1 .. n /\ DOMAIN p = 1 .. n - 1
      /\ S = queue[1] /\ \A i \in 1 .. n - 1 : p[i] = queue[i + 1]
  <2>1. queue \in Seq(R)
    BY DEF TypeInv
  <2> HIDE DEF R
  <2> QED BY <2>1
<1>2. EndedIn(queue, alive, X, cmd)
  BY DEF Ended
<1> HIDE DEF p, n
<1>3. ASSUME NEW j \in 1 .. n, j # 1
      PROVE  j - 1 \in DOMAIN p /\ p[j - 1] = queue[j]
  BY <1>1, <1>3
<1>4. ASSUME On(cmd, Apply(S)) # {}
      PROVE  \E j \in DOMAIN p : Ends(X, p[j])
  <2>1. CASE On(cmd, S) # {}
    <3>1. PICK j \in DOMAIN queue : 1 < j /\ Ends(X, queue[j])
      BY <1>1, <1>2, <2>1 DEF EndedIn
    <3>2. j \in 1 .. n /\ j # 1
      BY <1>1, <3>1
    <3> QED BY <1>3, <3>1, <3>2
  <2>2. CASE On(cmd, S) = {}
    <3>1. PICK x : x \in On(cmd, Apply(S))
      BY <1>4
    <3>2. x \in On(cmd, alive)
      BY <2>2, <3>1 DEF On, Apply
    <3>3. PICK j \in DOMAIN queue : Ends(X, queue[j])
      BY <1>2, <3>2 DEF EndedIn
    <3>4. PICK y \in X : y.onOff = EVENT_OFF /\ [y EXCEPT !.onOff = EVENT_ON] = x
      BY <3>2, OffOfOn DEF Asked
    <3>5. S # {} /\ x \notin S
      BY <2>2, <3>1, <3>2 DEF On, Apply
    <3>6. y \notin S
      <4> SUFFICES ASSUME y \in S PROVE FALSE
        OBVIOUS
      <4>1. x \in {[z EXCEPT !.onOff = EVENT_ON] : z \in {w \in S : w.onOff = EVENT_OFF}}
        BY <3>4
      <4>2. x \notin alive \ {[z EXCEPT !.onOff = EVENT_ON] : z \in {w \in S : w.onOff = EVENT_OFF}}
        BY <4>1
      <4>3. x \in Apply(S)
        BY <3>1 DEF On
      <4> QED BY <3>5, <4>2, <4>3 DEF Apply
    <3>7. j # 1
      BY <1>1, <3>3, <3>4, <3>5, <3>6 DEF Ends
    <3> QED BY <1>1, <1>3, <3>3, <3>7
  <2> QED BY <2>1, <2>2
<1>5. ASSUME NEW i \in DOMAIN p, On(cmd, p[i]) # {}
      PROVE  \E j \in DOMAIN p : i < j /\ Ends(X, p[j])
  <2>1. i + 1 \in DOMAIN queue /\ p[i] = queue[i + 1] /\ i \in Nat
    BY <1>1
  <2>2. PICK j \in DOMAIN queue : i + 1 < j /\ Ends(X, queue[j])
    BY <1>2, <1>5, <2>1 DEF EndedIn
  <2>3. j \in 1 .. n /\ j # 1 /\ i < j - 1
    BY <1>1, <2>1, <2>2
  <2> QED BY <1>3, <2>2, <2>3
<1>6. EndedIn(p, Apply(S), X, cmd)
  <2> HIDE DEF X, S
  <2> QED BY <1>4, <1>5 DEF EndedIn
<1> QED BY <1>6 DEF p

\* With the default configuration only, what a look-up finds stays.
LEMMA LongStays ==
    ASSUME TypeInv, [Next]_vars, NEW cmd
    PROVE  /\ IsLong(cmd)' => IsLong(cmd)
           /\ IsLong(cmd) => default'[cmd] = default[cmd]
<1>1. CASE configPerfActionsInfo' = configPerfActionsInfo
  BY <1>1 DEF IsLong, default
<1>2. CASE configPerfActionsInfo' # configPerfActionsInfo
  <2>1. WeakInteraction \/ \E c \in Caller : DoFreqActions(c)
    BY <1>2 DEF Next, PerfRequest, PerfRequestEx, SetRequestStatus, SetThermalLevel,
                RequestDeviceMode, Enter, GetMatchCmdId, ClearAllAliveRequest,
                IntervalOver, Execute, Expire, vars
  <2> PICK I : Grows(I)
    BY <2>1, ConfigGrows, WeakGrows DEF TypeInv
  <2>2. /\ DOMAIN configPerfActionsInfo' = DOMAIN configPerfActionsInfo
        /\ default' = [k \in DOMAIN default \cup I |->
                          IF k \in DOMAIN default THEN default[k] ELSE Null]
    BY DEF Grows
  <2>3. \A k \in DOMAIN default' : IF k \in DOMAIN default THEN default'[k] = default[k]
                                   ELSE default'[k] = Null
    BY <2>2
  <2>4. \A k \in DOMAIN default : default'[k] = default[k]
    BY <2>2
  <2>5. /\ IsLong(cmd) <=> /\ DOMAIN configPerfActionsInfo = {DEFAULT_CONFIG_MODE}
                           /\ cmd \in DOMAIN default /\ default[cmd] # Null
                           /\ isLongTimePerf(default[cmd])
        /\ IsLong(cmd)' <=> /\ DOMAIN configPerfActionsInfo' = {DEFAULT_CONFIG_MODE}
                            /\ cmd \in DOMAIN default' /\ default'[cmd] # Null
                            /\ isLongTimePerf(default'[cmd])
    BY DEF IsLong, LongIn, default
  <2> QED BY <2>2, <2>3, <2>4, <2>5
<1> QED BY <1>1, <1>2

\* So do the requests of a long-time command, and what ends it.
LEMMA AskedStays ==
    ASSUME TypeInv, [Next]_vars, NEW cmd, IsLong(cmd), NEW onOff
    PROVE  Asked(cmd, onOff)' = Asked(cmd, onOff)
<1>1. default'[cmd] = default[cmd]
  BY LongStays
<1>2. \A a : PerfRequests(a, cmd, onOff)' = PerfRequests(a, cmd, onOff)
  BY DEF PerfRequests, Used, Made
<1> QED BY <1>1, <1>2 DEF Asked

\* A step that does not touch queue and alive, or makes alive less, keeps the ends.
LEMMA EndedStays ==
    ASSUME TypeInv, [Next]_vars, NEW cmd, IsLong(cmd), queue' = queue, alive' \subseteq alive
    PROVE  /\ Ended(cmd) => Ended(cmd)'
           /\ OnlyAsked(cmd) => OnlyAsked(cmd)'
<1>1. \A onOff : Asked(cmd, onOff)' = Asked(cmd, onOff)
  BY AskedStays
<1>2. On(cmd, alive') \subseteq On(cmd, alive)
  BY DEF On
<1> QED BY <1>1, <1>2 DEF Ended, EndedIn, OnlyAsked

\* The moment of a step, for one long-time command.
Moment(u, cmd) ==
    /\ u \in Caller /\ OneUser(u) /\ TypeInv /\ [Next]_vars
    /\ IsLong(cmd) /\ cmd \in CmdId
    /\ \A c \in Caller : pc[c].at = "status" => c = u
    /\ \E f \in Configs : LongIn(f, cmd)
    /\ CmdInv(u, cmd)

\* A request without OFF may record a time, and forgets OFFs.
LEMMA PerfKeepsEnd ==
    ASSUME NEW u, NEW cmd, Moment(u, cmd), NEW c \in Caller, PerfRequest(c)
    PROVE  CmdInv(u, cmd)'
<1>1. PICK call \in Calls[c] : /\ call.op = "perf" /\ Enter(c, call) /\ UNCHANGED last
                               /\ Admit(c, call.cmdId, EVENT_INVALID)
  BY DEF PerfRequest
<1>2. /\ pc \in [Caller -> PCType] /\ u \in Caller
      /\ OnlyAsked(cmd) /\ AskedByUser(u, cmd) /\ EndsInTime(u, cmd)
      /\ pc[c].at = "idle" /\ pc[c] = Idle
  BY <1>1 DEF Moment, CmdInv, TypeInv, TypeOK, PCType, Enter, Idle
<1>3. (Ended(cmd) => Ended(cmd)') /\ OnlyAsked(cmd)'
  BY <1>1, <1>2, EndedStays DEF Moment, Enter
<1>4. /\ UNCHANGED <<perfRequestEnable, last>>
      /\ pc' = pc \/ pc' = [pc EXCEPT ![c] =
                       [at |-> "match", cmdId |-> call.cmdId, onOff |-> EVENT_INVALID]]
  BY <1>1 DEF Admit
<1>5. <<cmd, "cancel">> \in recent' => <<cmd, "cancel">> \in recent
  BY <1>1 DEF Admit, Remembered, EVENT_INVALID, EVENT_OFF
<1>6. \A d \in Caller : /\ Asks(d, cmd)' <=> Asks(d, cmd)
                        /\ Asks(d, cmd) => pc'[d] = pc[d]
  BY <1>2, <1>4 DEF Asks
<1>7. pc'[u].at # "status" => pc[u].at # "status"
  BY <1>2, <1>4
<1>8. AskedByUser(u, cmd)'
  BY <1>2, <1>4, <1>5, <1>6 DEF AskedByUser
<1>9. Ending(u, cmd) => Ending(u, cmd)'
  BY <1>2, <1>3, <1>6 DEF Ending
<1>10. EndsInTime(u, cmd)'
  BY <1>2, <1>3, <1>4, <1>5, <1>7, <1>9 DEF EndsInTime
<1> QED BY <1>3, <1>8, <1>10 DEF CmdInv

\* Turning another command on or off does not touch this one.
LEMMA OtherKeepsEnd ==
    ASSUME NEW u, NEW cmd, Moment(u, cmd), NEW c \in Caller, NEW call \in Calls[c],
           NEW onOff \in {EVENT_ON, EVENT_OFF}, Enter(c, call), call.cmdId # cmd,
           Admit(c, call.cmdId, onOff), last' = [last EXCEPT ![call.cmdId] = onOff]
    PROVE  CmdInv(u, cmd)'
<1>1. /\ pc \in [Caller -> PCType] /\ u \in Caller /\ last \in [CmdId -> EventType]
      /\ OnlyAsked(cmd) /\ AskedByUser(u, cmd) /\ EndsInTime(u, cmd) /\ cmd \in CmdId
      /\ pc[c].at = "idle" /\ pc[c] = Idle
  BY DEF Moment, CmdInv, TypeInv, TypeOK, PCType, Enter, Idle
<1>2. (Ended(cmd) => Ended(cmd)') /\ OnlyAsked(cmd)'
  BY <1>1, EndedStays DEF Moment, Enter
<1>3. /\ perfRequestEnable' = perfRequestEnable /\ last'[cmd] = last[cmd]
      /\ pc' = pc \/ pc' = [pc EXCEPT ![c] =
                       [at |-> "match", cmdId |-> call.cmdId, onOff |-> onOff]]
  BY <1>1 DEF Admit
<1>4. <<cmd, "cancel">> \in recent' => <<cmd, "cancel">> \in recent
  BY DEF Admit, Remembered
<1>5. \A d \in Caller : /\ Asks(d, cmd)' <=> Asks(d, cmd)
                        /\ Asks(d, cmd) => pc'[d] = pc[d]
  BY <1>1, <1>3 DEF Asks
<1>6. pc'[u].at # "status" => pc[u].at # "status"
  BY <1>1, <1>3
<1>7. AskedByUser(u, cmd)'
  BY <1>1, <1>3, <1>4, <1>5 DEF AskedByUser
<1>8. Ending(u, cmd) => Ending(u, cmd)'
  BY <1>1, <1>2, <1>5 DEF Ending
<1>9. EndsInTime(u, cmd)'
  BY <1>1, <1>2, <1>3, <1>4, <1>6, <1>8 DEF EndsInTime
<1> QED BY <1>2, <1>7, <1>9 DEF CmdInv

\* The user turns the command on or off; an OFF that is refused came when there was
\* an end already.
LEMMA UserKeepsEnd ==
    ASSUME NEW u, NEW cmd, Moment(u, cmd), NEW call \in Calls[u],
           NEW onOff \in {EVENT_ON, EVENT_OFF}, Enter(u, call),
           Admit(u, cmd, onOff), last' = [last EXCEPT ![cmd] = onOff]
    PROVE  CmdInv(u, cmd)'
<1> USE DEF EVENT_ON, EVENT_OFF, EVENT_INVALID
<1>1. /\ pc \in [Caller -> PCType] /\ u \in Caller /\ last \in [CmdId -> EventType]
      /\ OnlyAsked(cmd) /\ AskedByUser(u, cmd) /\ EndsInTime(u, cmd) /\ cmd \in CmdId
      /\ pc[u].at = "idle" /\ pc[u] = Idle
  BY DEF Moment, CmdInv, TypeInv, TypeOK, PCType, Enter, Idle
<1>2. (Ended(cmd) => Ended(cmd)') /\ OnlyAsked(cmd)'
  BY <1>1, EndedStays DEF Moment, Enter
<1>3. perfRequestEnable' = perfRequestEnable /\ last'[cmd] = onOff
  BY <1>1 DEF Admit
<1>4. \A d \in Caller : ~ Asks(d, cmd)
  BY <1>1 DEF AskedByUser, Asks
<1>5. Ending(u, cmd) => Ended(cmd)
  BY <1>1, <1>4 DEF Ending
<1>6. CASE pc' = pc
  <2>1. AskedByUser(u, cmd)'
    BY <1>4, <1>6 DEF AskedByUser, Asks
  <2>2. onOff = EVENT_OFF => Ended(cmd)
    <3>1. CASE ~ perfRequestEnable
      BY <1>1, <3>1 DEF EndsInTime
    <3>2. CASE perfRequestEnable /\ onOff = EVENT_OFF
      <4>1. pc' # [pc EXCEPT ![u] = [at |-> "match", cmdId |-> cmd, onOff |-> onOff]]
        BY <1>1, <1>6
      <4>2. <<cmd, "cancel">> \in recent
        BY <3>2, <4>1 DEF Admit, Remembered
      <4> QED BY <1>1, <1>5, <4>2 DEF EndsInTime
    <3> QED BY <3>1, <3>2
  <2>3. <<cmd, "cancel">> \in recent' => <<cmd, "cancel">> \in recent
    <3>1. pc' # [pc EXCEPT ![u] = [at |-> "match", cmdId |-> cmd, onOff |-> onOff]]
      BY <1>1, <1>6
    <3> QED BY <3>1 DEF Admit, Remembered
  <2>4. EndsInTime(u, cmd)'
    BY <1>1, <1>2, <1>3, <1>5, <1>6, <2>2, <2>3 DEF EndsInTime, Ending
  <2> QED BY <1>2, <2>1, <2>4 DEF CmdInv
<1>7. CASE /\ perfRequestEnable
           /\ recent' = Remembered(cmd, onOff) \cup
                  {<<cmd, IF onOff = EVENT_OFF THEN "cancel" ELSE "request">>}
           /\ pc' = [pc EXCEPT ![u] = [at |-> "match", cmdId |-> cmd, onOff |-> onOff]]
  <2>1. \A d \in Caller : IF d = u THEN Asks(d, cmd)' /\ pc'[d].onOff = onOff
                                   ELSE ~ Asks(d, cmd)'
    BY <1>1, <1>4, <1>7 DEF Asks
  <2>2. onOff = EVENT_ON => <<cmd, "cancel">> \notin recent'
    BY <1>7 DEF Remembered
  <2>3. AskedByUser(u, cmd)'
    BY <1>1, <1>3, <1>7, <2>1, <2>2 DEF AskedByUser
  <2>4. onOff = EVENT_OFF => Ending(u, cmd)'
    BY <1>1, <2>1 DEF Ending
  <2>5. EndsInTime(u, cmd)'
    BY <1>3, <1>7, <2>2, <2>4 DEF EndsInTime
  <2> QED BY <1>2, <2>3, <2>5 DEF CmdInv
<1> QED BY <1>6, <1>7 DEF Admit

LEMMA PerfExKeepsEnd ==
    ASSUME NEW u, NEW cmd, Moment(u, cmd), NEW c \in Caller, PerfRequestEx(c)
    PROVE  CmdInv(u, cmd)'
<1>1. PICK call \in Calls[c] :
             /\ call.op = "perfEx" /\ Enter(c, call)
             /\ Admit(c, call.cmdId, IF call.on THEN EVENT_ON ELSE EVENT_OFF)
             /\ last' = [last EXCEPT ![call.cmdId] = IF call.on THEN EVENT_ON ELSE EVENT_OFF]
  BY DEF PerfRequestEx
<1>2. CASE call.cmdId # cmd
  BY <1>1, <1>2, OtherKeepsEnd
<1>3. CASE call.cmdId = cmd
  <2>1. c = u
    BY <1>1, <1>3 DEF Moment, OneUser
  <2> QED BY <1>1, <1>3, <2>1, UserKeepsEnd
<1> QED BY <1>2, <1>3

\* The user writes the enable flag, being at nothing else.
LEMMA StatusKeepsEnd ==
    ASSUME NEW u, NEW cmd, Moment(u, cmd), NEW c \in Caller, SetRequestStatus(c)
    PROVE  CmdInv(u, cmd)' /\ c = u
<1>1. PICK call \in Calls[c] :
             /\ call.op = "status" /\ Enter(c, call)
             /\ pc' = [pc EXCEPT ![c] = [Idle EXCEPT !.at = "status"]]
             /\ UNCHANGED <<recent, last>>
  BY DEF SetRequestStatus
<1>2. c = u
  BY <1>1 DEF Moment, OneUser
<1>3. /\ pc \in [Caller -> PCType]
      /\ OnlyAsked(cmd) /\ AskedByUser(u, cmd) /\ EndsInTime(u, cmd)
      /\ pc[c].at = "idle"
  BY <1>1 DEF Moment, CmdInv, TypeInv, TypeOK, PCType, Enter, Idle
<1>4. (Ended(cmd) => Ended(cmd)') /\ OnlyAsked(cmd)'
  BY <1>1, <1>3, EndedStays DEF Moment, Enter
<1>5. [Idle EXCEPT !.at = "status"].at = "status"
  BY DEF Idle
<1>6. \A d \in Caller : ~ Asks(d, cmd)
  BY <1>2, <1>3 DEF AskedByUser, Asks
<1>7. pc'[u].at = "status" /\ \A d \in Caller : ~ Asks(d, cmd)'
  <2>1. \A d \in Caller : d # u => pc'[d] = pc[d]
    BY <1>1, <1>2, <1>3
  <2>2. pc'[u].at = "status"
    BY <1>1, <1>2, <1>3, <1>5
  <2> QED BY <1>6, <2>1, <2>2 DEF Asks
<1>8. AskedByUser(u, cmd)'
  BY <1>7 DEF AskedByUser
<1>9. EndsInTime(u, cmd)'
  BY <1>1, <1>2, <1>3, <1>4, <1>6, <1>7 DEF EndsInTime, Ending
<1> QED BY <1>2, <1>4, <1>8, <1>9 DEF CmdInv

\* The clock, an expiry, a thermal level, device modes, and nothing at all.
LEMMA AsideKeepsEnd ==
    ASSUME NEW u, NEW cmd, Moment(u, cmd), recent' \subseteq recent,
           UNCHANGED <<pc, perfRequestEnable, last, queue>>, alive' \subseteq alive
    PROVE  CmdInv(u, cmd)'
<1>1. OnlyAsked(cmd) /\ AskedByUser(u, cmd) /\ EndsInTime(u, cmd)
  BY DEF Moment, CmdInv
<1>2. (Ended(cmd) => Ended(cmd)') /\ OnlyAsked(cmd)'
  BY <1>1, EndedStays DEF Moment
<1>3. \A d : Asks(d, cmd)' <=> Asks(d, cmd)
  BY DEF Asks
<1>4. AskedByUser(u, cmd)'
  BY <1>1, <1>3 DEF AskedByUser
<1>5. EndsInTime(u, cmd)'
  BY <1>1, <1>2, <1>3 DEF EndsInTime, Ending
<1> QED BY <1>2, <1>4, <1>5 DEF CmdInv

\* The command stays the command that was asked for, and no other becomes it.
LEMMA MatchKeepsEnd ==
    ASSUME NEW u, NEW cmd, Moment(u, cmd), NEW c \in Caller, GetMatchCmdId(c)
    PROVE  CmdInv(u, cmd)'
<1>1. /\ pc \in [Caller -> PCType] /\ u \in Caller
      /\ OnlyAsked(cmd) /\ AskedByUser(u, cmd) /\ EndsInTime(u, cmd)
      /\ ConfigOK(configPerfActionsInfo)
      /\ OnlyDefault /\ cmd \in DOMAIN default /\ default[cmd] # Null
      /\ isLongTimePerf(default[cmd])
  BY DEF Moment, CmdInv, TypeInv, TypeOK, PCType, IsLong, LongIn, OnlyDefault, default
<1>2. /\ pc[c].at = "match"
      /\ UNCHANGED <<perfRequestEnable, recent, queue, alive, last>>
  BY DEF GetMatchCmdId
<1>3. (Ended(cmd) => Ended(cmd)') /\ OnlyAsked(cmd)'
  BY <1>1, <1>2, EndedStays DEF Moment
<1>4. pc[c].onOff # EVENT_INVALID =>
        /\ pc[c].cmdId = cmd => MatchDeviceModeCmd(pc[c].cmdId, TRUE) = cmd
        /\ pc[c].cmdId # cmd => MatchDeviceModeCmd(pc[c].cmdId, TRUE) # cmd
  BY <1>1 DEF MatchDeviceModeCmd
<1>5. /\ Asks(c, cmd)' <=> Asks(c, cmd)
      /\ Asks(c, cmd) => pc'[c].onOff = pc[c].onOff
      /\ pc'[c].at # "status"
  <2>1. CASE pc[c].cmdId \notin DOMAIN Configured /\ pc' = [pc EXCEPT ![c] = Idle]
    <3>1. pc[c].cmdId # cmd
      BY <1>1, <2>1, ConfiguredType
    <3>2. pc'[c].at = "idle"
      BY <1>1, <2>1 DEF Idle
    <3> QED BY <3>1, <3>2 DEF Asks
  <2>2. CASE pc' = [pc EXCEPT ![c].at = "submit", ![c].cmdId =
                      IF OnlyDefault
                      THEN MatchDeviceModeCmd(pc[c].cmdId, pc[c].onOff # EVENT_INVALID)
                      ELSE pc[c].cmdId]
    <3> DEFINE new == MatchDeviceModeCmd(pc[c].cmdId, pc[c].onOff # EVENT_INVALID)
    <3>1. pc' = [pc EXCEPT ![c].at = "submit", ![c].cmdId = new]
      BY <1>1, <2>2
    <3>2. pc[c].onOff # EVENT_INVALID => (new = cmd <=> pc[c].cmdId = cmd)
      BY <1>4
    <3> HIDE DEF new
    <3>3. pc'[c].at = "submit" /\ pc'[c].cmdId = new /\ pc'[c].onOff = pc[c].onOff
      BY <1>1, <3>1 DEF PCType
    <3> QED BY <1>2, <3>2, <3>3 DEF Asks
  <2> QED BY <2>1, <2>2 DEF GetMatchCmdId
<1>6. \A d \in Caller : d # c => pc'[d] = pc[d]
  BY <1>1 DEF GetMatchCmdId
<1>7. \A d \in Caller : /\ Asks(d, cmd)' <=> Asks(d, cmd)
                        /\ Asks(d, cmd) => pc'[d].onOff = pc[d].onOff
                        /\ pc'[d].at # "status" => pc[d].at # "status"
  BY <1>2, <1>5, <1>6 DEF Asks
<1>8. AskedByUser(u, cmd)'
  BY <1>1, <1>2, <1>7 DEF AskedByUser
<1>9. EndsInTime(u, cmd)'
  BY <1>1, <1>2, <1>3, <1>7 DEF EndsInTime, Ending
<1> QED BY <1>3, <1>8, <1>9 DEF CmdInv

\* The requests of a command and its requests alone.
LEMMA RequestsOf ==
    ASSUME NEW a, NEW cmd, NEW onOff,
           NEW x \in PerfRequests(a, cmd, onOff) \cup LvlRequests(a, cmd, onOff)
    PROVE  /\ x.cmdId = cmd /\ x.onOff = onOff
           /\ x.type = "perf" => x \in PerfRequests(a, cmd, onOff)
<1>1. CASE x \in PerfRequests(a, cmd, onOff)
  BY <1>1 DEF PerfRequests, Made
<1>2. CASE x \in LvlRequests(a, cmd, onOff)
  BY <1>2 DEF LvlRequests, Made
<1> QED BY <1>1, <1>2

\* A task more in the queue, which turns nothing of the command on that was not asked.
LEMMA MoreTasks ==
    ASSUME NEW u, NEW cmd, Moment(u, cmd), NEW S \in SUBSET Request,
           queue' = Append(queue, S), alive' = alive
    PROVE  /\ On(cmd, S) \subseteq Asked(cmd, EVENT_ON) => OnlyAsked(cmd)'
           /\ On(cmd, S) = {} /\ Ended(cmd) => Ended(cmd)'
           /\ On(cmd, S) = {} /\ Ends(Asked(cmd, EVENT_OFF), S) => Ended(cmd)'
<1>1. queue \in Seq(SUBSET Request) /\ OnlyAsked(cmd)
  BY DEF Moment, TypeInv, CmdInv
<1>2. \A onOff : Asked(cmd, onOff)' = Asked(cmd, onOff)
  BY AskedStays DEF Moment
<1>3. \A i \in DOMAIN queue' : queue'[i] = S \/ (i \in DOMAIN queue /\ queue'[i] = queue[i])
  <2> DEFINE R == SUBSET Request
  <2>1. queue \in Seq(R) /\ S \in R
    BY <1>1
  <2> HIDE DEF R
  <2> QED BY <2>1
<1>4. On(cmd, S) \subseteq Asked(cmd, EVENT_ON) => OnlyAsked(cmd)'
  BY <1>1, <1>2, <1>3 DEF OnlyAsked
<1> DEFINE X == Asked(cmd, EVENT_OFF)
<1>5. Ended(cmd)' <=> EndedIn(Append(queue, S), alive, X, cmd)
  BY <1>2 DEF Ended
<1>6. On(cmd, S) = {} /\ EndedIn(queue, alive, X, cmd)
        => EndedIn(Append(queue, S), alive, X, cmd)
  <2> HIDE DEF X
  <2> QED BY <1>1, EndedAppend
<1>7. On(cmd, S) = {} /\ Ends(X, S) => EndedIn(Append(queue, S), alive, X, cmd)
  <2> HIDE DEF X
  <2> QED BY <1>1, EndedByLast
<1> QED BY <1>4, <1>5, <1>6, <1>7 DEF Ended

\* A thread clears, or not, when it has written the flag.
LEMMA ClearKeepsEnd ==
    ASSUME NEW u, NEW cmd, Moment(u, cmd), NEW c \in Caller, ClearAllAliveRequest(c)
    PROVE  CmdInv(u, cmd)'
<1>1. /\ pc \in [Caller -> PCType] /\ u \in Caller
      /\ OnlyAsked(cmd) /\ AskedByUser(u, cmd) /\ EndsInTime(u, cmd)
  BY DEF Moment, CmdInv, TypeInv, TypeOK, PCType
<1>2. /\ pc[c].at = "status" /\ c = u /\ pc' = [pc EXCEPT ![c] = Idle]
      /\ UNCHANGED <<perfRequestEnable, recent, alive, last>>
      /\ queue' = IF perfRequestEnable THEN queue ELSE Append(queue, {})
  BY DEF ClearAllAliveRequest, Moment
<1>3. \A d \in Caller : ~ Asks(d, cmd)
  BY <1>1, <1>2 DEF AskedByUser, Asks
<1>4. \A d \in Caller : ~ Asks(d, cmd)'
  <2>1. \A d \in Caller : d # c => pc'[d] = pc[d]
    BY <1>1, <1>2
  <2>2. pc'[c].at = "idle"
    BY <1>1, <1>2 DEF Idle
  <2> QED BY <1>3, <2>1, <2>2 DEF Asks
<1>5. AskedByUser(u, cmd)'
  BY <1>4 DEF AskedByUser
<1>6. Ending(u, cmd) => Ended(cmd)
  BY <1>1, <1>3 DEF Ending
<1>7. CASE perfRequestEnable
  <2>1. (Ended(cmd) => Ended(cmd)') /\ OnlyAsked(cmd)'
    BY <1>1, <1>2, <1>7, EndedStays DEF Moment
  <2>2. EndsInTime(u, cmd)'
    BY <1>1, <1>2, <1>6, <1>7, <2>1 DEF EndsInTime, Ending
  <2> QED BY <1>5, <2>1, <2>2 DEF CmdInv
<1>8. CASE ~ perfRequestEnable
  <2>1. queue' = Append(queue, {}) /\ On(cmd, {}) = {} /\ Ends(Asked(cmd, EVENT_OFF), {})
    BY <1>2, <1>8 DEF On, Ends
  <2>2. Ended(cmd)' /\ OnlyAsked(cmd)'
    BY <1>2, <2>1, MoreTasks
  <2>3. EndsInTime(u, cmd)'
    BY <2>2 DEF EndsInTime, Ending
  <2> QED BY <1>5, <2>2, <2>3 DEF CmdInv
<1> QED BY <1>7, <1>8

\* The submission of a command: an ON is followed by nothing yet, an OFF ends it.
LEMMA DoKeepsEnd ==
    ASSUME NEW u, NEW cmd, Moment(u, cmd), NEW c \in Caller, DoFreqActions(c)
    PROVE  CmdInv(u, cmd)'
<1> DEFINE d == pc[c].cmdId
           a == GetActionsInfo(d)
           onOff == pc[c].onOff
           P == PerfRequests(a, d, onOff)
           S == P \cup LvlRequests(a, d, onOff)
<1>1. /\ pc \in [Caller -> PCType] /\ u \in Caller
      /\ OnlyAsked(cmd) /\ AskedByUser(u, cmd) /\ EndsInTime(u, cmd)
      /\ ConfigOK(configPerfActionsInfo) /\ thermalLvl \in Lvl
      /\ OnlyDefault /\ cmd \in DOMAIN default
  BY DEF Moment, CmdInv, TypeInv, TypeOK, PCType, IsLong, LongIn, OnlyDefault, default
<1>2. /\ pc[c].at = "submit" /\ a # Null /\ pc' = [pc EXCEPT ![c] = Idle]
      /\ queue' = IF S = {} THEN queue ELSE Append(queue, S)
      /\ UNCHANGED <<perfRequestEnable, recent, alive, last>>
  BY DEF DoFreqActions
<1>3. S \in SUBSET Request
  <2>1. a \in Actions /\ onOff \in EventType
    BY <1>1, <1>2, ConfiguredType DEF PCType
  <2>2. d \in CmdId
    <3>1. d \in CmdId \cup {NoCmd} /\ DOMAIN Configured \subseteq CmdId
      BY <1>1, ConfiguredType DEF PCType
    <3>2. d \in DOMAIN Configured
      BY <1>2 DEF GetActionsInfo
    <3> QED BY <3>1, <3>2
  <2> QED BY <1>1, <2>1, <2>2, RequestsType
<1>4. /\ \A x \in Caller : x # c => pc'[x] = pc[x]
      /\ pc'[c].at = "idle"
  BY <1>1, <1>2 DEF Idle
<1>5. /\ \A x \in Caller : Asks(x, cmd)' => Asks(x, cmd) /\ x # c /\ pc'[x] = pc[x]
      /\ pc'[u].at # "status" => pc[u].at # "status"
  BY <1>1, <1>2, <1>4 DEF Asks
<1>6. AskedByUser(u, cmd)'
  BY <1>1, <1>2, <1>5 DEF AskedByUser
<1>7. CASE ~ Asks(c, cmd)
  <2>1. On(cmd, S) = {}
    <3> SUFFICES ASSUME NEW x \in On(cmd, S) PROVE FALSE
      OBVIOUS
    <3>1. x \in S /\ x.cmdId = cmd /\ x.onOff = EVENT_ON
      BY DEF On
    <3>2. x.cmdId = d /\ x.onOff = onOff
      <4> HIDE DEF a, d, onOff
      <4> QED BY <3>1, RequestsOf
    <3> QED BY <1>2, <1>7, <3>1, <3>2 DEF Asks, EVENT_ON, EVENT_INVALID
  <2>2. (Ended(cmd) => Ended(cmd)') /\ OnlyAsked(cmd)'
    <3> HIDE DEF S
    <3>1. CASE S = {}
      BY <1>1, <1>2, <3>1, EndedStays DEF Moment
    <3>2. CASE S # {}
      BY <1>2, <1>3, <2>1, <3>2, MoreTasks
    <3> QED BY <3>1, <3>2
  <2>3. \A x \in Caller : Asks(x, cmd) => Asks(x, cmd)' /\ pc'[x] = pc[x]
    BY <1>4, <1>7 DEF Asks
  <2>4. Ending(u, cmd) => Ending(u, cmd)'
    BY <1>1, <2>2, <2>3 DEF Ending
  <2>5. EndsInTime(u, cmd)'
    BY <1>1, <1>2, <1>5, <2>2, <2>4 DEF EndsInTime
  <2> QED BY <1>6, <2>2, <2>5 DEF CmdInv
<1>8. CASE Asks(c, cmd)
  <2>1. /\ d = cmd /\ c = u /\ perfRequestEnable /\ last[cmd] = onOff
        /\ onOff = EVENT_ON => <<cmd, "cancel">> \notin recent
        /\ onOff # EVENT_INVALID
    BY <1>1, <1>8 DEF AskedByUser, Asks
  <2>2. a = default[cmd]
    <3>1. \A k \in DOMAIN default : Configured[k] = default[k] /\ k \in DOMAIN Configured
      BY <1>1 DEF Configured, OnlyDefault, default
    <3> QED BY <1>1, <2>1, <3>1 DEF GetActionsInfo
  <2>3. P = Asked(cmd, onOff)
    BY <2>1, <2>2 DEF Asked
  <2>4. CASE onOff = EVENT_ON
    <3>1. On(cmd, S) \subseteq Asked(cmd, EVENT_ON)
      <4> SUFFICES ASSUME NEW x \in On(cmd, S) PROVE x \in P
        BY <2>3, <2>4
      <4>1. x \in S /\ x.type = "perf"
        BY DEF On
      <4> HIDE DEF a, d, onOff
      <4> QED BY <4>1, RequestsOf
    <3>2. OnlyAsked(cmd)'
      <4> HIDE DEF S
      <4>1. CASE S = {}
        BY <1>1, <1>2, <4>1, EndedStays DEF Moment
      <4>2. CASE S # {}
        BY <1>2, <1>3, <3>1, <4>2, MoreTasks
      <4> QED BY <4>1, <4>2
    <3>3. EndsInTime(u, cmd)'
      BY <1>2, <2>1, <2>4 DEF EndsInTime, EVENT_ON, EVENT_OFF
    <3> QED BY <1>6, <3>2, <3>3 DEF CmdInv
  <2>5. CASE onOff = EVENT_OFF
    <3>1. On(cmd, S) = {}
      <4> SUFFICES ASSUME NEW x \in On(cmd, S) PROVE FALSE
        OBVIOUS
      <4>1. x \in S /\ x.onOff = EVENT_ON
        BY DEF On
      <4>2. x.onOff = onOff
        <5> HIDE DEF a, d, onOff
        <5> QED BY <4>1, RequestsOf
      <4> QED BY <2>5, <4>1, <4>2 DEF EVENT_ON, EVENT_OFF
    <3>2. Ends(Asked(cmd, EVENT_OFF), S)
      BY <2>3, <2>5 DEF Ends
    <3>3. Ended(cmd)' /\ OnlyAsked(cmd)'
      <4>1. CASE S = {}
        <5>1. Asked(cmd, EVENT_OFF) = {}
          BY <2>3, <2>5, <4>1
        <5>2. Asked(cmd, EVENT_ON) = {}
          BY <5>1, OffOfOn DEF Asked
        <5>3. queue' = queue
          BY <1>2, <4>1
        <5>4. OnlyAsked(cmd)'
          BY <1>1, <1>2, <5>3, EndedStays DEF Moment
        <5>5. Ended(cmd)
          BY <1>1, <5>2 DEF OnlyAsked, Ended, EndedIn
        <5> QED BY <1>2, <5>3, <5>4, <5>5, EndedStays DEF Moment
      <4>2. CASE S # {}
        <5> HIDE DEF S
        <5> QED BY <1>2, <1>3, <3>1, <3>2, <4>2, MoreTasks
      <4> QED BY <4>1, <4>2
    <3>4. EndsInTime(u, cmd)'
      BY <3>3 DEF EndsInTime, Ending
    <3> QED BY <1>6, <3>3, <3>4 DEF CmdInv
  <2>6. onOff \in {EVENT_ON, EVENT_OFF}
    BY <1>1, <2>1 DEF PCType, EventType
  <2> QED BY <2>4, <2>5, <2>6
<1> QED BY <1>7, <1>8

\* The worker executes a task.
LEMMA ExecuteKeepsEnd ==
    ASSUME NEW u, NEW cmd, Moment(u, cmd), Execute
    PROVE  CmdInv(u, cmd)'
<1>1. /\ OnlyAsked(cmd) /\ AskedByUser(u, cmd) /\ EndsInTime(u, cmd)
      /\ queue # <<>> /\ alive' = Apply(Head(queue)) /\ queue' = Tail(queue)
      /\ UNCHANGED <<pc, perfRequestEnable, recent, last>>
  BY DEF Moment, CmdInv, Execute
<1>2. \A onOff : Asked(cmd, onOff)' = Asked(cmd, onOff)
  BY AskedStays DEF Moment
<1>3. Ended(cmd) => Ended(cmd)'
  <2>1. Ended(cmd) => EndedIn(queue', alive', Asked(cmd, EVENT_OFF), cmd)
    BY <1>1, EndedExecute DEF OnlyAsked, Moment
  <2> QED BY <1>2, <2>1 DEF Ended
<1>4. OnlyAsked(cmd)'
  <2> DEFINE R == SUBSET Request
  <2>1. queue \in Seq(R)
    BY DEF Moment, TypeInv
  <2>2. /\ 1 \in DOMAIN queue /\ Head(queue) = queue[1]
        /\ \A i \in DOMAIN queue' : i + 1 \in DOMAIN queue /\ queue'[i] = queue[i + 1]
    <3> HIDE DEF R
    <3> QED BY <1>1, <2>1
  <2>3. On(cmd, alive') \subseteq On(cmd, alive) \cup On(cmd, Head(queue))
    BY <1>1 DEF On, Apply
  <2> QED BY <1>1, <1>2, <2>2, <2>3 DEF OnlyAsked
<1>5. \A d : Asks(d, cmd)' <=> Asks(d, cmd)
  BY <1>1 DEF Asks
<1>6. AskedByUser(u, cmd)'
  BY <1>1, <1>5 DEF AskedByUser
<1>7. EndsInTime(u, cmd)'
  BY <1>1, <1>3, <1>5 DEF EndsInTime, Ending
<1> QED BY <1>4, <1>6, <1>7 DEF CmdInv

\* Only the user is ever about to clear.
LEMMA StatusOfUser ==
    ASSUME NEW u \in Caller, OneUser(u), TypeInv, [Next]_vars,
           \A c \in Caller : pc[c].at = "status" => c = u
    PROVE  \A c \in Caller : pc'[c].at = "status" => c = u
<1>1. pc \in [Caller -> PCType] /\ Idle.at = "idle"
  BY DEF TypeInv, TypeOK, PCType, Idle
<1>2. ASSUME NEW c \in Caller, NEW cmd, NEW onOff, Admit(c, cmd, onOff), NEW d \in Caller,
             pc'[d].at = "status"
      PROVE  pc'[d] = pc[d]
  <2>1. CASE pc' = pc
    BY <2>1
  <2>2. CASE pc' = [pc EXCEPT ![c] = [at |-> "match", cmdId |-> cmd, onOff |-> onOff]]
    BY <1>1, <1>2, <2>2
  <2> QED BY <1>2, <2>1, <2>2 DEF Admit
<1>3. ASSUME NEW c \in Caller, PerfRequest(c) \/ PerfRequestEx(c), NEW d \in Caller,
             pc'[d].at = "status"
      PROVE  d = u
  BY <1>2, <1>3 DEF PerfRequest, PerfRequestEx
<1>4. ASSUME NEW c \in Caller, SetRequestStatus(c), NEW d \in Caller, pc'[d].at = "status"
      PROVE  d = u
  <2>1. c = u /\ pc' = [pc EXCEPT ![c] = [Idle EXCEPT !.at = "status"]]
    BY <1>4 DEF SetRequestStatus, OneUser
  <2> QED BY <1>1, <1>4, <2>1
<1>5. ASSUME NEW c \in Caller, GetMatchCmdId(c), NEW d \in Caller, pc'[d].at = "status"
      PROVE  d = u
  <2>1. CASE pc' = [pc EXCEPT ![c] = Idle]
    BY <1>1, <1>5, <2>1
  <2>2. CASE pc' = [pc EXCEPT ![c].at = "submit", ![c].cmdId =
                      IF OnlyDefault
                      THEN MatchDeviceModeCmd(pc[c].cmdId, pc[c].onOff # EVENT_INVALID)
                      ELSE pc[c].cmdId]
    <3> DEFINE new == IF OnlyDefault
                      THEN MatchDeviceModeCmd(pc[c].cmdId, pc[c].onOff # EVENT_INVALID)
                      ELSE pc[c].cmdId
    <3>1. pc' = [pc EXCEPT ![c].at = "submit", ![c].cmdId = new]
      BY <2>2
    <3> HIDE DEF new
    <3>2. pc'[c].at = "submit" /\ (d # c => pc'[d] = pc[d])
      BY <1>1, <3>1 DEF PCType
    <3> QED BY <1>5, <3>2
  <2> QED BY <1>5, <2>1, <2>2 DEF GetMatchCmdId
<1>6. ASSUME NEW c \in Caller, DoFreqActions(c) \/ ClearAllAliveRequest(c), NEW d \in Caller,
             pc'[d].at = "status"
      PROVE  d = u
  <2>1. pc' = [pc EXCEPT ![c] = Idle]
    BY <1>6 DEF DoFreqActions, ClearAllAliveRequest
  <2> QED BY <1>1, <1>6, <2>1
<1>7. ASSUME NEW c \in Caller, SetThermalLevel(c) \/ RequestDeviceMode(c)
      PROVE  pc' = pc
  BY <1>7 DEF SetThermalLevel, RequestDeviceMode
<1>8. CASE IntervalOver \/ WeakInteraction \/ Execute \/ Expire \/ UNCHANGED vars
  BY <1>8 DEF IntervalOver, WeakInteraction, Execute, Expire, vars
<1> QED BY <1>3, <1>4, <1>5, <1>6, <1>7, <1>8 DEF Next

LEMMA NextKeepsEnd ==
    ASSUME NEW u \in Caller, OneUser(u), TypeInv, LongInv(u), [Next]_vars
    PROVE  LongInv(u)'
<1>1. \A c \in Caller : pc'[c].at = "status" => c = u
  BY StatusOfUser DEF LongInv
<1>2. \A cmd : IsLong(cmd)' => IsLong(cmd)
  BY LongStays
<1>3. ASSUME NEW cmd \in CmdId, IsLong(cmd)
      PROVE  CmdInv(u, cmd)'
  <2>1. Moment(u, cmd)
    BY <1>3 DEF Moment, LongInv
  <2>2. CASE \E c \in Caller : SetThermalLevel(c) \/ RequestDeviceMode(c)
    BY <2>1, <2>2, AsideKeepsEnd DEF SetThermalLevel, RequestDeviceMode, Enter
  <2>3. CASE IntervalOver \/ WeakInteraction \/ Expire \/ UNCHANGED vars
    BY <2>1, <2>3, AsideKeepsEnd DEF IntervalOver, WeakInteraction, Expire, vars
  <2> QED BY <2>1, <2>2, <2>3, PerfKeepsEnd, PerfExKeepsEnd, StatusKeepsEnd, MatchKeepsEnd,
             DoKeepsEnd, ClearKeepsEnd, ExecuteKeepsEnd DEF Next
<1> QED BY <1>1, <1>2, <1>3 DEF LongInv

\* If one thread turns long-time commands on and off and uses the enable flag, then
\* whatever the others ask for, whichever modes and levels they set, and whether
\* the OFF was let through, came too soon or while requests were disabled: after it
\* nothing of the command stays alive.
THEOREM LongTimeCommandsEnd ==
    ASSUME NEW u \in Caller, OneUser(u) PROVE Spec => []LongTimeEnds
<1>1. Init => LongInv(u)
  <2> SUFFICES ASSUME Init PROVE LongInv(u)
    OBVIOUS
  <2>1. \A c \in Caller : pc[c].at = "idle"
    BY DEF Init, Idle
  <2>2. configPerfActionsInfo \in Configs
    BY DEF Init
  <2>3. ASSUME NEW cmd \in CmdId
        PROVE  CmdInv(u, cmd)
    <3>1. OnlyAsked(cmd) /\ Ended(cmd)
      BY DEF Init, OnlyAsked, Ended, EndedIn, On
    <3>2. AskedByUser(u, cmd)
      BY <2>1 DEF AskedByUser, Asks
    <3>3. EndsInTime(u, cmd)
      BY <3>1 DEF EndsInTime, Ending
    <3> QED BY <3>1, <3>2, <3>3 DEF CmdInv
  <2> QED BY <2>1, <2>2, <2>3 DEF LongInv, IsLong
<1>2. TypeInv /\ LongInv(u) /\ [Next]_vars => LongInv(u)'
  BY NextKeepsEnd
<1>3. TypeInv /\ LongInv(u) => LongTimeEnds
  <2> SUFFICES ASSUME TypeInv, LongInv(u), Quiet, OnlyDefault, NEW cmd \in DOMAIN default,
                      default[cmd] # Null, isLongTimePerf(default[cmd]),
                      last[cmd] = EVENT_OFF
               PROVE  Left(cmd, "perf") = {}
    BY DEF LongTimeEnds
  <2>1. IsLong(cmd) /\ cmd \in CmdId
    BY DEF IsLong, LongIn, OnlyDefault, default, TypeInv, ConfigOK
  <2>2. Ending(u, cmd) /\ queue = <<>> /\ pc[u] = Idle
    BY <2>1 DEF LongInv, CmdInv, EndsInTime, Quiet
  <2>3. Ended(cmd)
    BY <2>2 DEF Ending, Asks, Idle
  <2>4. On(cmd, alive) = {}
    BY <2>2, <2>3 DEF Ended, EndedIn
  <2> QED BY <2>4 DEF On, Left
<1> QED BY <1>1, <1>2, <1>3, TypesAlways, PTL DEF Spec
=============================================================================
