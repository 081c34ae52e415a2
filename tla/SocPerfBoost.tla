---------------------------- MODULE SocPerfBoost ----------------------------
(***************************************************************************)
(* The boosts of class SocPerf: PerfRequest and PerfRequestEx turn a        *)
(* command into requests, by the configuration, the device modes and the    *)
(* thermal level, which other IPC threads change meanwhile. Of the worker   *)
(* of SocPerfThreadWrap only the alive requests are kept: it executes what  *)
(* was submitted in order, and a timed request may end at any time.         *)
(***************************************************************************)
EXTENDS Integers, SequencesExt

CONSTANTS
    Caller,     \* IPC threads
    CmdId,      \* command ids
    Mode,       \* names of device modes, as numbers that order them
    Res, Value, \* configured resources, and the values actions ask for
    Duration,   \* durations of actions, 0 for none
    Lvl,        \* thermal levels
    Configs,    \* contents of configPerfActionsInfo_ once loaded, see Config
    Calls,      \* [Caller -> what the thread may call], see Call
    WeakCmds,   \* commands of the weak interactions
    MaxCalls,   \* bound: number of calls
    NoCmd,      \* INVALID_CMD_ID, INVALID_THERMAL_CMD_ID
    Null        \* a null shared_ptr<Actions>

EVENT_INVALID == -1
EVENT_OFF == 0
EVENT_ON == 1
EventType == {EVENT_INVALID, EVENT_OFF, EVENT_ON}
INVALID_THERMAL_LVL == -1

DEFAULT_CONFIG_MODE == 0

\* An element of Actions::actionList, and an Actions: a long-time one has an
\* action without duration.
Action == [variable : Seq([res : Res, value : Value]), duration : Duration,
           thermalCmdId : CmdId \cup {NoCmd}, thermalLvl : Lvl \cup {INVALID_THERMAL_LVL}]
Actions == [actionList : Seq(Action), modeMap : Seq([mode : Mode, cmdId : CmdId])]

isLongTimePerf(a) == \E x \in Range(a.actionList) : x.duration = 0

IsConfig(f) ==
    /\ DEFAULT_CONFIG_MODE \in DOMAIN f
    /\ DOMAIN f \subseteq Mode \cup {DEFAULT_CONFIG_MODE}
    /\ \A m \in DOMAIN f : DOMAIN f[m] \subseteq CmdId /\ Range(f[m]) \subseteq Actions

Call == [op : {"perf"}, cmdId : CmdId]
        \cup [op : {"perfEx"}, cmdId : CmdId, on : BOOLEAN]
        \cup [op : {"status"}, on : BOOLEAN]
        \cup [op : {"mode"}, scene : SUBSET Mode, mode : Mode, on : BOOLEAN]
        \cup [op : {"level"}, level : Lvl]

ASSUME BoostAssumption ==
    /\ Mode \subseteq Nat \ {DEFAULT_CONFIG_MODE}
    /\ Duration \subseteq Nat /\ Lvl \subseteq Nat /\ 0 \in Lvl
    /\ \A f \in Configs : IsConfig(f)
    /\ \A c \in Caller : Calls[c] \subseteq Call
    /\ WeakCmds \subseteq CmdId /\ MaxCalls \in Nat
    /\ NoCmd \notin CmdId /\ Null \notin Actions

VARIABLES
    calls,              \* number of calls so far
    pc,                 \* [Caller -> where its call is]
    perfRequestEnable,
    recent,             \* boostTime_: keys recorded TIME_INTERVAL ago or less
    configPerfActionsInfo,
    recordDeviceMode,
    thermalLvl,
    queue,              \* tasks submitted and not yet executed
    alive,              \* the worker: its alive requests
    last,               \* history: what was last asked of each command
    found               \* history: the device mode when each thread last found its
                        \* command configured

vars == <<calls, pc, perfRequestEnable, recent, configPerfActionsInfo,
          recordDeviceMode, thermalLvl, queue, alive, last, found>>

Request == [res : Res, value : Value, duration : Duration, cmdId : CmdId,
            type : {"perf", "perflvl"}, onOff : EventType]

Idle == [at |-> "idle", cmdId |-> NoCmd, onOff |-> EVENT_INVALID]

Init ==
    /\ calls = 0 /\ pc = [c \in Caller |-> Idle]
    /\ perfRequestEnable = TRUE /\ recent = {}
    /\ configPerfActionsInfo \in Configs
    /\ recordDeviceMode = {} /\ thermalLvl = 0
    /\ queue = <<>> /\ alive = {}
    /\ last = [cmd \in CmdId |-> EVENT_INVALID]
    /\ found = [c \in Caller |-> DEFAULT_CONFIG_MODE]

-----------------------------------------------------------------------------
(* Entering a call *)

Enter(c, call) ==
    /\ pc[c] = Idle /\ call \in Calls[c]
    /\ calls < MaxCalls /\ calls' = calls + 1
    /\ UNCHANGED <<configPerfActionsInfo, queue, alive, found>>

\* Mutant: an ON does not forget when the last OFF was.
Remembered_All(cmd, onOff) == recent

\* The keys left when CheckTimeInterval looks for its own: an ON, or a request
\* without OFF, resets the time of the OFF.
Remembered(cmd, onOff) ==
    IF onOff = EVENT_OFF THEN recent ELSE recent \ {<<cmd, "cancel">>}

\* The check of the enable flag, and CheckTimeInterval: a command that was let
\* through TIME_INTERVAL ago or less is refused.
Admit(c, cmd, onOff) ==
    LET key == <<cmd, IF onOff = EVENT_OFF THEN "cancel" ELSE "request">>
        keys == Remembered(cmd, onOff)
    IN  /\ \/ /\ ~perfRequestEnable
              /\ UNCHANGED <<recent, pc>>
           \/ /\ perfRequestEnable /\ key \in keys
              /\ recent' = keys /\ UNCHANGED pc
           \/ /\ perfRequestEnable /\ key \notin keys
              /\ recent' = keys \cup {key}
              /\ pc' = [pc EXCEPT ![c] =
                           [at |-> "match", cmdId |-> cmd, onOff |-> onOff]]
        /\ UNCHANGED <<perfRequestEnable, recordDeviceMode, thermalLvl>>

PerfRequest(c) ==
    \E call \in Calls[c] :
        /\ call.op = "perf" /\ Enter(c, call)
        /\ Admit(c, call.cmdId, EVENT_INVALID)
        /\ UNCHANGED last

PerfRequestEx(c) ==
    \E call \in Calls[c] :
        LET onOff == IF call.on THEN EVENT_ON ELSE EVENT_OFF
        IN  /\ call.op = "perfEx" /\ Enter(c, call)
            /\ Admit(c, call.cmdId, onOff)
            /\ last' = [last EXCEPT ![call.cmdId] = onOff]

\* The flag is written, and read again before what is alive is cleared.
SetRequestStatus(c) ==
    \E call \in Calls[c] :
        /\ call.op = "status" /\ Enter(c, call)
        /\ perfRequestEnable' = call.on
        /\ pc' = [pc EXCEPT ![c] = [Idle EXCEPT !.at = "status"]]
        /\ UNCHANGED <<recent, recordDeviceMode, thermalLvl, last>>

SetThermalLevel(c) ==
    \E call \in Calls[c] :
        /\ call.op = "level" /\ Enter(c, call)
        /\ thermalLvl' = call.level
        /\ UNCHANGED <<pc, perfRequestEnable, recent, recordDeviceMode, last>>

\* Mutant: the other modes of the scene stay recorded.
MatchDeviceMode_KeepOthers(scene, mode, on) ==
    IF on THEN recordDeviceMode \cup (scene \cap {mode}) ELSE recordDeviceMode \ {mode}

\* The modes of a scene exclude each other; one the scene does not know
\* leaves none of them.
MatchDeviceMode(scene, mode, on) ==
    IF on THEN (recordDeviceMode \ scene) \cup (scene \cap {mode})
          ELSE recordDeviceMode \ {mode}

\* The weak interaction and the performance mode go to SocPerfThreadWrap.
RequestDeviceMode(c) ==
    \E call \in Calls[c] :
        /\ call.op = "mode" /\ Enter(c, call)
        /\ recordDeviceMode' = MatchDeviceMode(call.scene, call.mode, call.on)
        /\ UNCHANGED <<pc, perfRequestEnable, recent, thermalLvl, last>>

\* The clock: more than TIME_INTERVAL has passed since a key was recorded.
IntervalOver ==
    /\ \E key \in recent : recent' = recent \ {key}
    /\ UNCHANGED <<calls, pc, perfRequestEnable, configPerfActionsInfo,
                   recordDeviceMode, thermalLvl, queue, alive, last, found>>

-----------------------------------------------------------------------------
(* Choosing the command and its actions *)

default == configPerfActionsInfo[DEFAULT_CONFIG_MODE]
OnlyDefault == DOMAIN configPerfActionsInfo = {DEFAULT_CONFIG_MODE}

GetDeviceMode ==
    IF recordDeviceMode = {} THEN DEFAULT_CONFIG_MODE ELSE Min(recordDeviceMode)

\* The commands configured for the device mode, on top of the default ones.
Configured ==
    LET own == IF GetDeviceMode \in DOMAIN configPerfActionsInfo
               THEN configPerfActionsInfo[GetDeviceMode] ELSE default
    IN  [k \in DOMAIN own \cup DOMAIN default |->
            IF k \in DOMAIN own THEN own[k] ELSE default[k]]

\* Where the command is not configured, a null pointer.
GetActionsInfo(cmd) == IF cmd \in DOMAIN Configured THEN Configured[cmd] ELSE Null

\* Mutant: the command of a mode is taken whether it is configured or not.
MatchDeviceModeCmd_Unconfigured(cmd, isTagOnOff) ==
    LET modeMap == default[cmd].modeMap
        hits == {k \in 1 .. Len(modeMap) : modeMap[k].mode \in recordDeviceMode}
    IN  IF hits = {} \/ (isTagOnOff /\ isLongTimePerf(default[cmd])) THEN cmd
        ELSE modeMap[Min(hits)].cmdId

\* The command the modes put in place of cmd: never one that is not configured,
\* and for an ON or OFF neither from nor to a long-time command.
MatchDeviceModeCmd(cmd, isTagOnOff) ==
    LET modeMap == default[cmd].modeMap
        hits == {k \in 1 .. Len(modeMap) : modeMap[k].mode \in recordDeviceMode}
        deviceCmdId == modeMap[Min(hits)].cmdId
    IN  IF \/ hits = {}
           \/ isTagOnOff /\ isLongTimePerf(default[cmd])
           \/ deviceCmdId \notin DOMAIN default
           \/ isTagOnOff /\ isLongTimePerf(default[deviceCmdId])
        THEN cmd ELSE deviceCmdId

\* Where a null entry is dereferenced: the one of cmd, or of the command of a mode.
MeetsNullEntry(cmd, isTagOnOff) ==
    /\ cmd \in DOMAIN default
    /\ \/ default[cmd] = Null
       \/ LET modeMap == default[cmd].modeMap
              hits == {k \in 1 .. Len(modeMap) : modeMap[k].mode \in recordDeviceMode}
              deviceCmdId == modeMap[Min(hits)].cmdId
          IN  /\ hits # {} /\ isTagOnOff /\ ~isLongTimePerf(default[cmd])
              /\ deviceCmdId \in DOMAIN default /\ default[deviceCmdId] = Null

GetMatchCmdId(c) ==
    LET cmd == pc[c].cmdId
        isTagOnOff == pc[c].onOff # EVENT_INVALID
    IN  /\ pc[c].at = "match"
        /\ \/ /\ cmd \notin DOMAIN Configured
              /\ pc' = [pc EXCEPT ![c] = Idle] /\ UNCHANGED found
           \/ /\ cmd \in DOMAIN Configured
              /\ OnlyDefault => ~MeetsNullEntry(cmd, isTagOnOff)
              /\ pc' = [pc EXCEPT ![c].at = "submit", ![c].cmdId =
                           IF OnlyDefault THEN MatchDeviceModeCmd(cmd, isTagOnOff) ELSE cmd]
              /\ found' = [found EXCEPT ![c] = GetDeviceMode]
        /\ UNCHANGED <<calls, perfRequestEnable, recent, configPerfActionsInfo,
                       recordDeviceMode, thermalLvl, queue, alive, last>>

-----------------------------------------------------------------------------
(* DoFreqActions *)

\* The least level any configured action is for, as the configuration is loaded.
minThermalLvl ==
    LET loaded == UNION {Range(configPerfActionsInfo[m]) :
                             m \in DOMAIN configPerfActionsInfo}
        lvls == {x.thermalLvl : x \in UNION {Range(a.actionList) : a \in loaded \ {Null}}}
                    \ {INVALID_THERMAL_LVL}
    IN  IF lvls = {} THEN INVALID_THERMAL_LVL ELSE Min(lvls)

Made(x, variable, type, cmd, onOff) ==
    {[res |-> v.res, value |-> v.value, duration |-> x.duration, cmdId |-> cmd,
      type |-> type, onOff |-> onOff] : v \in Range(variable)}

\* The actions that make requests: one without duration needs an OFF.
Used(a, onOff) ==
    {k \in DOMAIN a.actionList :
        ~(a.actionList[k].duration = 0 /\ onOff = EVENT_INVALID)}

\* Those that look at their thermal command: some request precedes its own.
Hot(a, onOff) ==
    {k \in Used(a, onOff) :
        /\ a.actionList[k].thermalCmdId # NoCmd /\ thermalLvl >= minThermalLvl
        /\ \E j \in Used(a, onOff) : j <= k /\ a.actionList[j].variable # <<>>}

\* The last of the actions for the highest level not above the present one.
Nearest(a) ==
    LET below == {k \in 1 .. Len(a.actionList) : a.actionList[k].thermalLvl <= thermalLvl}
        top == {k \in below : \A j \in below :
                    a.actionList[j].thermalLvl <= a.actionList[k].thermalLvl}
    IN  IF a = Null \/ below = {} THEN <<>> ELSE a.actionList[Max(top)].variable

PerfRequests(a, cmd, onOff) ==
    UNION {Made(a.actionList[k], a.actionList[k].variable, "perf", cmd, onOff) :
               k \in Used(a, onOff)}
LvlRequests(a, cmd, onOff) ==
    UNION {Made(a.actionList[k], Nearest(GetActionsInfo(a.actionList[k].thermalCmdId)),
                "perflvl", cmd, onOff) : k \in Hot(a, onOff)}

\* GetActionsInfo looks up with operator[]: what was not there is, as null.
Inserted(a, onOff) == {a.actionList[k].thermalCmdId : k \in Hot(a, onOff)}

DoFreqActions(c) ==
    LET cmd == pc[c].cmdId
        a == GetActionsInfo(cmd)
        S == PerfRequests(a, cmd, pc[c].onOff) \cup LvlRequests(a, cmd, pc[c].onOff)
    IN  /\ pc[c].at = "submit" /\ a # Null
        /\ pc' = [pc EXCEPT ![c] = Idle]
        /\ queue' = IF S = {} THEN queue ELSE Append(queue, S)
        /\ configPerfActionsInfo' = [configPerfActionsInfo EXCEPT ![DEFAULT_CONFIG_MODE] =
               [k \in DOMAIN @ \cup (Inserted(a, pc[c].onOff) \ DOMAIN Configured) |->
                   IF k \in DOMAIN @ THEN @[k] ELSE Null]]
        /\ UNCHANGED <<calls, perfRequestEnable, recent, recordDeviceMode,
                       thermalLvl, alive, last, found>>

\* A task that clears is the empty set of requests.
ClearAllAliveRequest(c) ==
    /\ pc[c].at = "status"
    /\ pc' = [pc EXCEPT ![c] = Idle]
    /\ queue' = IF perfRequestEnable THEN queue ELSE Append(queue, {})
    /\ UNCHANGED <<calls, perfRequestEnable, recent, configPerfActionsInfo,
                   recordDeviceMode, thermalLvl, alive, last, found>>

-----------------------------------------------------------------------------
(* The worker. Only PERF requests are cleared. *)

\* Mutant: an OFF is kept like any other request.
Apply_OffKept(S) == alive \cup S

Apply(S) ==
    IF S = {} THEN {x \in alive : x.type # "perf"}
    ELSE (alive \ {[x EXCEPT !.onOff = EVENT_ON] : x \in {y \in S : y.onOff = EVENT_OFF}})
            \cup {x \in S : x.onOff # EVENT_OFF}

Execute ==
    /\ queue # <<>>
    /\ alive' = Apply(Head(queue))
    /\ queue' = Tail(queue)
    /\ UNCHANGED <<calls, pc, perfRequestEnable, recent, configPerfActionsInfo,
                   recordDeviceMode, thermalLvl, last, found>>

\* The look-up of a weak command, when its timer runs or a boost begins, inserts it
\* like that of a thermal command. What it then submits are limits.
WeakInteraction ==
    /\ \E cmd \in WeakCmds \ DOMAIN default :
          configPerfActionsInfo' = [configPerfActionsInfo EXCEPT ![DEFAULT_CONFIG_MODE] =
              [k \in DOMAIN @ \cup {cmd} |-> IF k \in DOMAIN @ THEN @[k] ELSE Null]]
    /\ UNCHANGED <<calls, pc, perfRequestEnable, recent, recordDeviceMode, thermalLvl,
                   queue, alive, last, found>>

Expire ==
    /\ \E x \in alive : x.duration # 0 /\ alive' = alive \ {x}
    /\ UNCHANGED <<calls, pc, perfRequestEnable, recent, configPerfActionsInfo,
                   recordDeviceMode, thermalLvl, queue, last, found>>

-----------------------------------------------------------------------------
Next ==
    \/ \E c \in Caller : \/ PerfRequest(c) \/ PerfRequestEx(c) \/ SetRequestStatus(c)
                         \/ SetThermalLevel(c) \/ RequestDeviceMode(c)
                         \/ GetMatchCmdId(c) \/ DoFreqActions(c)
                         \/ ClearAllAliveRequest(c)
    \/ IntervalOver \/ WeakInteraction \/ Execute \/ Expire

Spec == Init /\ [][Next]_vars

-----------------------------------------------------------------------------
(* Properties *)

\* The members keep to their types, and no OFF is ever alive.
TypeOK ==
    /\ calls \in 0 .. MaxCalls
    /\ pc \in [Caller -> [at : {"idle", "match", "submit", "status"},
                          cmdId : CmdId \cup {NoCmd}, onOff : EventType]]
    /\ perfRequestEnable \in BOOLEAN
    /\ recent \subseteq CmdId \X {"request", "cancel"}
    /\ recordDeviceMode \subseteq Mode /\ thermalLvl \in Lvl
    /\ Range(queue) \subseteq SUBSET Request
    /\ alive \subseteq {x \in Request : x.onOff # EVENT_OFF}
    /\ last \in [CmdId -> EventType]
    /\ found \in [Caller -> Mode \cup {DEFAULT_CONFIG_MODE}]

\* Nothing is under way: every call has returned and every task is executed.
Quiet == queue = <<>> /\ \A c \in Caller : pc[c] = Idle

Left(cmd, type) == {x \in alive : x.cmdId = cmd /\ x.type = type /\ x.onOff = EVENT_ON}

\* With the default configuration only, a long-time command whose last call was
\* an OFF leaves no PERF request: whatever the device modes became in between,
\* and whether the OFF came too soon after another one or while requests were
\* disabled (MatchDeviceModeCmd, CheckTimeInterval and ClearAllAliveRequest).
LongTimeEnds ==
    Quiet /\ OnlyDefault =>
        \A cmd \in DOMAIN default :
            default[cmd] # Null /\ isLongTimePerf(default[cmd]) /\ last[cmd] = EVENT_OFF
                => Left(cmd, "perf") = {}

\* The OFF of a long-time command ends all that its ON began, PERFLVL requests
\* included.
OffEndsEverything ==
    Quiet /\ OnlyDefault =>
        \A cmd \in DOMAIN default :
            default[cmd] # Null /\ isLongTimePerf(default[cmd]) /\ last[cmd] = EVENT_OFF
                => Left(cmd, "perf") \cup Left(cmd, "perflvl") = {}

\* Neither MatchDeviceModeCmd nor DoFreqActions meets a null Actions: a command
\* found under the modes of one moment is still found under those of a later one.
ActionsExist ==
    \A c \in Caller :
        /\ pc[c].at = "match" /\ OnlyDefault
               => ~MeetsNullEntry(pc[c].cmdId, pc[c].onOff # EVENT_INVALID)
        /\ pc[c].at = "submit" => GetActionsInfo(pc[c].cmdId) # Null

\* The commands that are looked up although nothing checked that they exist.
Unchecked ==
    LET loaded == UNION {Range(configPerfActionsInfo[m]) :
                             m \in DOMAIN configPerfActionsInfo}
    IN  WeakCmds \cup
        {x.thermalCmdId : x \in UNION {Range(a.actionList) : a \in loaded \ {Null}}}

StoredNulls ==
    \A m \in DOMAIN configPerfActionsInfo : \A k \in DOMAIN configPerfActionsInfo[m] :
        configPerfActionsInfo[m][k] = Null => m = DEFAULT_CONFIG_MODE /\ k \in Unchecked

LostCommands ==
    \A c \in Caller :
        pc[c].at = "submit" /\ pc[c].cmdId \notin DOMAIN Configured =>
            /\ found[c] # GetDeviceMode
            /\ found[c] \in DOMAIN configPerfActionsInfo
            /\ pc[c].cmdId \in DOMAIN configPerfActionsInfo[found[c]]

\* Where a null Actions can come from, and nowhere else. One that is stored is a
\* default one, of a thermal or weak command; and a command that is not found when it
\* is submitted, though it was before, is one of the device mode it was found under,
\* which another thread has left since.
NullsExplained == StoredNulls /\ LostCommands

\* At most one mode of a scene is recorded, whatever the threads ask for.
OneModePerScene ==
    \A c \in Caller : \A call \in Calls[c] :
        call.op = "mode" => Cardinality(recordDeviceMode \cap call.scene) <= 1

-----------------------------------------------------------------------------
(* Conditions on configuration and callers, under which some of the properties hold *)

\* A mode belongs to one scene.
Scenes == {call.scene : call \in {x \in UNION {Calls[c] : c \in Caller} : x.op = "mode"}}
ScenesDisjoint == \A s, t \in Scenes : s = t \/ s \cap t = {}

\* A configuration as it becomes: null where GetActionsInfo looked in vain.
ConfigOK(f) ==
    /\ DEFAULT_CONFIG_MODE \in DOMAIN f
    /\ \A m \in DOMAIN f : /\ DOMAIN f[m] \subseteq CmdId
                           /\ \A k \in DOMAIN f[m] : f[m][k] \in Actions \cup {Null}

\* A command that is long-time, where there is the default configuration only.
LongIn(f, cmd) ==
    /\ DOMAIN f = {DEFAULT_CONFIG_MODE} /\ cmd \in DOMAIN f[DEFAULT_CONFIG_MODE]
    /\ f[DEFAULT_CONFIG_MODE][cmd] # Null
    /\ isLongTimePerf(f[DEFAULT_CONFIG_MODE][cmd])

\* One thread turns long-time commands on and off, and uses the enable flag.
OneUser(u) ==
    \A c \in Caller \ {u} : \A call \in Calls[c] :
        /\ call.op # "status"
        /\ call.op = "perfEx" => \A f \in Configs : ~ LongIn(f, call.cmdId)
=============================================================================
