--------------------------- MODULE SocPerfConfig ---------------------------
(***************************************************************************)
(* SocPerfConfig::Init and SocPerf::CompleteEvent: the configuration files  *)
(* are read one after the other, the most specific first, element by        *)
(* element, into maps that keep the first definition. Checks come at the    *)
(* end of a block or of a file, over all that was read so far. A resource   *)
(* or boost file that fails makes Init fail; the camera file may fail half- *)
(* way and what was read of it stays.                                       *)
(*                                                                         *)
(* An element is a record of what its attributes and contents parse to;     *)
(* "tags" and "content" tell whether they are well formed.                  *)
(***************************************************************************)
EXTENDS Integers, SequencesExt

CONSTANTS
    ResId, ResName, NoRes,   \* resources and their names; NoRes for no pair
    Value,                   \* values of resources
    CmdId, Mode,             \* commands, and modes of a <Config>
    DEFAULT_CONFIG_MODE,
    Copies,                  \* CompleteEvent: two pairs <<old, new>> of commands
    ResElements, GovElements, SceneElements, CmdElements, InterElements,
    MaxElements              \* bound: elements in all files of each kind

INVALID_THERMAL_LVL == -1
INVALID_DURATION == -1

\* A <res> of <Resource> or, without pair, of <GovResource>.
ResourceNode == [id : ResId, name : ResName, pair : ResId \cup {NoRes},
                 isGov : BOOLEAN, toPerfSo : BOOLEAN, def : Value,
                 available : SUBSET Value]
ResElement == [node : ResourceNode, tags : BOOLEAN, content : BOOLEAN]

\* The children of an action: a duration, or a resource and its value.
Child == [duration : Int, content : BOOLEAN]
         \cup [name : ResName, value : Value, content : BOOLEAN]

\* Of the resources and values of an action only the set is kept.
Action == [variable : SUBSET [res : ResId, value : Value], duration : Int,
           thermalLvl : Int]
Actions == [actionList : Seq(Action), modeMap : Seq([mode : Mode, cmdId : CmdId]),
            isLongTimePerf : BOOLEAN, interaction : BOOLEAN]

\* A <cmd>. What its attributes and its modes parse to is well typed.
CmdElement == [id : CmdId, tags : BOOLEAN, interaction : BOOLEAN,
               modes : Seq([mode : Mode, cmdId : CmdId]),
               actions : Seq([children : Seq(Child), thermalLvl : Int])]

ASSUME ConfigAssumption ==
    /\ NoRes \notin ResId
    /\ \A e \in ResElements \cup GovElements :
          /\ e \in ResElement /\ (e.node.isGov <=> e \in GovElements)
          /\ e.node.isGov => e.node.pair = NoRes
    /\ CmdElements \subseteq CmdElement
    /\ Copies \in [1 .. 2 -> CmdId \X CmdId]
    /\ DEFAULT_CONFIG_MODE \in Mode
    /\ MaxElements \in [{"resource", "boost", "camera"} -> Nat]

VARIABLES
    phase,     \* kind of file being read, then "complete", "ready" or "failed"
    block,     \* block of a resource file, or "file" of boosts, being read
    elements,  \* number of elements read in the phase
    resourceNodeInfo,    \* ResId -> ResourceNode, partial
    g_resStrToIdInfo,    \* ResName -> ResId, partial
    sceneResourceInfo,   \* scene -> number of items, partial
    configPerfActionsInfo, \* Mode -> CmdId -> Actions, partial
    interAction, minThermalLvl,
    cameraFailed         \* history: the camera file failed

place == <<phase, block, elements>>
resources == <<resourceNodeInfo, g_resStrToIdInfo>>
vars == <<place, resources, sceneResourceInfo, configPerfActionsInfo, interAction,
          minThermalLvl, cameraFailed>>

Init ==
    /\ phase = "resource" /\ block = "none" /\ elements = 0
    /\ resourceNodeInfo = <<>> /\ g_resStrToIdInfo = <<>>
    /\ sceneResourceInfo = <<>> /\ configPerfActionsInfo = <<>>
    /\ interAction = <<>> /\ minThermalLvl = INVALID_THERMAL_LVL
    /\ cameraFailed = FALSE

\* unordered_map::insert: a key that is there keeps its value.
Insert(f, k, v) == [x \in DOMAIN f \cup {k} |-> IF x \in DOMAIN f THEN f[x] ELSE v]

-----------------------------------------------------------------------------
(* Files and blocks *)

Boosts == {"boost", "camera"}

\* The file, and with it the files of its kind, is given up.
Fail ==
    /\ phase' = IF phase = "camera" THEN "complete" ELSE "failed"
    /\ cameraFailed' = (phase = "camera")
    /\ block' = "none" /\ elements' = 0

\* A file that cannot be read or has no <Configs>.
UnreadableFile ==
    /\ phase \in {"resource"} \cup Boosts /\ block = "none"
    /\ Fail
    /\ UNCHANGED <<resources, sceneResourceInfo, configPerfActionsInfo, interAction,
                   minThermalLvl>>

Open ==
    /\ block = "none" /\ phase \in DOMAIN MaxElements /\ elements < MaxElements[phase]
    /\ block' \in IF phase = "resource"
                  THEN {"Resource", "GovResource", "SceneResource"}
                  ELSE {"file"}
    /\ UNCHANGED <<phase, elements, resources, sceneResourceInfo,
                   configPerfActionsInfo, interAction, minThermalLvl, cameraFailed>>

Read(b) == block = b /\ elements < MaxElements[phase]
Keep == elements' = elements + 1 /\ UNCHANGED <<phase, block, cameraFailed>>

-----------------------------------------------------------------------------
(* Resource files *)

\* Mutant: the name is taken before the id is looked up.
LoadFreqResource_NameFirst(e) ==
    /\ Read("Resource")
    /\ IF e.tags /\ e.content
       THEN /\ g_resStrToIdInfo' = Insert(g_resStrToIdInfo, e.node.name, e.node.id)
            /\ resourceNodeInfo' = Insert(resourceNodeInfo, e.node.id, e.node)
            /\ Keep
       ELSE UNCHANGED resources /\ Fail
    /\ UNCHANGED <<sceneResourceInfo, configPerfActionsInfo, interAction, minThermalLvl>>

\* TraversalFreqResource: an id that is known is left alone, whatever its contents.
LoadFreqResource(e) ==
    /\ Read("Resource")
    /\ IF e.tags /\ e.node.id \notin DOMAIN resourceNodeInfo /\ e.content
       THEN /\ g_resStrToIdInfo' = Insert(g_resStrToIdInfo, e.node.name, e.node.id)
            /\ resourceNodeInfo' = Insert(resourceNodeInfo, e.node.id, e.node)
       ELSE UNCHANGED resources
    /\ IF e.tags /\ (e.node.id \in DOMAIN resourceNodeInfo \/ e.content)
       THEN Keep ELSE Fail
    /\ UNCHANGED <<sceneResourceInfo, configPerfActionsInfo, interAction, minThermalLvl>>

\* LoadGovResource: inserted first, filled afterwards.
LoadGovResource(e) ==
    /\ Read("GovResource")
    /\ IF e.tags /\ e.node.id \notin DOMAIN resourceNodeInfo
       THEN /\ g_resStrToIdInfo' = Insert(g_resStrToIdInfo, e.node.name, e.node.id)
            /\ resourceNodeInfo' = Insert(resourceNodeInfo, e.node.id, e.node)
       ELSE UNCHANGED resources
    /\ IF e.tags /\ (e.node.id \in DOMAIN resourceNodeInfo \/ e.content)
       THEN Keep ELSE Fail
    /\ UNCHANGED <<sceneResourceInfo, configPerfActionsInfo, interAction, minThermalLvl>>

\* LoadSceneResource: a scene that fails ends the block, with the items read so
\* far, and nobody looks at the result.
LoadSceneResource(e) ==
    /\ Read("SceneResource")
    /\ sceneResourceInfo' = IF e.tags THEN Insert(sceneResourceInfo, e.name, e.items)
                                      ELSE sceneResourceInfo
    /\ elements' = elements + 1
    /\ block' = IF e.tags /\ (e.name \in DOMAIN sceneResourceInfo \/ e.content)
                THEN block ELSE "none"
    /\ UNCHANGED <<phase, cameraFailed, resources, configPerfActionsInfo, interAction,
                   minThermalLvl>>

\* The pair of a resource is loaded; it may be a governor, or name another pair.
CheckPairResIdValid ==
    \A r \in DOMAIN resourceNodeInfo :
        ~resourceNodeInfo[r].isGov /\ resourceNodeInfo[r].pair # NoRes
            => resourceNodeInfo[r].pair \in DOMAIN resourceNodeInfo

CheckDefValid ==
    \A r \in DOMAIN resourceNodeInfo :
        LET n == resourceNodeInfo[r] IN n.available = {} \/ n.def \in n.available

CloseBlock ==
    /\ block \in {"Resource", "GovResource", "SceneResource"}
    /\ IF \/ block = "Resource" /\ ~CheckPairResIdValid
          \/ block # "SceneResource" /\ ~CheckDefValid
       THEN Fail
       ELSE block' = "none" /\ UNCHANGED <<phase, elements, cameraFailed>>
    /\ UNCHANGED <<resources, sceneResourceInfo, configPerfActionsInfo, interAction,
                   minThermalLvl>>

-----------------------------------------------------------------------------
(* Boost files: one <cmd> of the <Config> for mode m *)

\* The places where a mode is named for the first time, the one after k - 1 others,
\* and the command that is named last for a mode.
FirstNamed(modes) ==
    {i \in DOMAIN modes : \A j \in 1 .. i - 1 : modes[j].mode # modes[i].mode}
NthNamed(modes, k) ==
    CHOOSE i \in FirstNamed(modes) : Cardinality(FirstNamed(modes) \cap (1 .. i)) = k
LastCmdId(modes, m) == modes[Max({j \in DOMAIN modes : modes[j].mode = m})].cmdId

\* ParseModeCmd: a mode that is new is added at the end, one named again gets the
\* later command.
ParseModeCmd(modes) ==
    [k \in 1 .. Cardinality(FirstNamed(modes)) |->
        LET m == modes[NthNamed(modes, k)].mode
        IN  [mode |-> m, cmdId |-> LastCmdId(modes, m)]]

IsDuration(c) == "duration" \in DOMAIN c
Parses(c) == c.content /\ (IsDuration(c) \/ c.name \in DOMAIN g_resStrToIdInfo)
ActionParses(a) == \A c \in Range(a.children) : Parses(c)

\* The actions that TraversalBoostResource looks at: it stops at the first that
\* does not parse, after its thermal level.
Reached(as) == {k \in DOMAIN as : \A j \in 1 .. k - 1 : ActionParses(as[j])}

MakeAction(a) ==
    LET durations == {k \in DOMAIN a.children : IsDuration(a.children[k])}
    IN  [variable |-> {[res |-> g_resStrToIdInfo[a.children[k].name],
                        value |-> a.children[k].value] :
                            k \in DOMAIN a.children \ durations},
         duration |-> IF durations = {} THEN INVALID_DURATION
                                        ELSE a.children[Max(durations)].duration,
         thermalLvl |-> a.thermalLvl]

\* Mutant: the flag says what the last action is.
IsLongTime_LastAction(as) ==
    as # <<>> /\ \E c \in Range(Last(as).children) : IsDuration(c) /\ c.duration = 0

IsLongTime(as) ==
    \E k \in DOMAIN as : \E c \in Range(as[k].children) : IsDuration(c) /\ c.duration = 0

\* Mutant: a mode that is named again is pushed back again.
MakeActions_Append(e, m) ==
    [actionList |-> [k \in DOMAIN e.actions |-> MakeAction(e.actions[k])],
     modeMap |-> IF m = DEFAULT_CONFIG_MODE THEN e.modes ELSE <<>>,
     isLongTimePerf |-> IsLongTime(e.actions),
     interaction |-> e.interaction]

MakeActions(e, m) ==
    [actionList |-> [k \in DOMAIN e.actions |-> MakeAction(e.actions[k])],
     modeMap |-> IF m = DEFAULT_CONFIG_MODE THEN ParseModeCmd(e.modes) ELSE <<>>,
     isLongTimePerf |-> IsLongTime(e.actions),
     interaction |-> e.interaction]

LeastOf(levels) == CHOOSE l \in levels : \A x \in levels : l <= x

\* The least level met so far, of commands that are given up as well.
MinThermal(as) ==
    LET levels == {as[k].thermalLvl : k \in Reached(as)} \cup {minThermalLvl}
        valid == levels \ {INVALID_THERMAL_LVL}
    IN  IF valid = {} THEN INVALID_THERMAL_LVL ELSE LeastOf(valid)

CommandsOf(m) == IF m \in DOMAIN configPerfActionsInfo THEN configPerfActionsInfo[m]
                                                       ELSE <<>>

WithCommand(m, c, a) ==
    [x \in DOMAIN configPerfActionsInfo \cup {m} |->
        IF x # m THEN configPerfActionsInfo[x] ELSE Insert(CommandsOf(m), c, a)]

\* LoadCmdInfo. (A command that was read before is looked at no further, so it
\* counts for neither the thermal level nor a failure.)
LoadCmdInfo(e, m) ==
    /\ Read("file")
    /\ \/ /\ e.tags /\ e.id \in DOMAIN CommandsOf(m)
          /\ Keep
          /\ UNCHANGED <<configPerfActionsInfo, minThermalLvl>>
       \/ /\ e.tags /\ e.id \notin DOMAIN CommandsOf(m)
          /\ minThermalLvl' = MinThermal(e.actions)
          /\ IF \A k \in DOMAIN e.actions : ActionParses(e.actions[k])
             THEN configPerfActionsInfo' = WithCommand(m, e.id, MakeActions(e, m)) /\ Keep
             ELSE UNCHANGED configPerfActionsInfo /\ Fail
       \/ ~e.tags /\ Fail /\ UNCHANGED <<configPerfActionsInfo, minThermalLvl>>
    /\ UNCHANGED <<resources, sceneResourceInfo, interAction>>

\* LoadInterAction: what each file has is added to the others.
LoadInterAction(e) ==
    /\ Read("file")
    /\ interAction' = Append(interAction, e)
    /\ Keep
    /\ UNCHANGED <<resources, sceneResourceInfo, configPerfActionsInfo, minThermalLvl>>

\* TraversalActions: the value of a resource that is written to its node, and has
\* a list of values, is in the list.
ValueValid(v) ==
    /\ v.res \in DOMAIN resourceNodeInfo
    /\ LET n == resourceNodeInfo[v.res]
       IN  n.toPerfSo \/ n.available = {} \/ v.value \in n.available

ActionsValid(a) ==
    \A k \in DOMAIN a.actionList : \A v \in a.actionList[k].variable : ValueValid(v)

\* Mutant: the default configuration alone is checked.
CheckActionResIdAndValueValid_Default ==
    \A c \in DOMAIN CommandsOf(DEFAULT_CONFIG_MODE) :
        ActionsValid(CommandsOf(DEFAULT_CONFIG_MODE)[c])

\* At the end of each file, over the commands of all modes and files so far.
CheckActionResIdAndValueValid ==
    \A m \in DOMAIN configPerfActionsInfo : \A c \in DOMAIN CommandsOf(m) :
        ActionsValid(CommandsOf(m)[c])

CloseFile ==
    /\ block = "file"
    /\ IF CheckActionResIdAndValueValid
       THEN block' = "none" /\ UNCHANGED <<phase, elements, cameraFailed>>
       ELSE Fail
    /\ UNCHANGED <<resources, sceneResourceInfo, configPerfActionsInfo, interAction,
                   minThermalLvl>>

-----------------------------------------------------------------------------
Following == [resource |-> "boost", boost |-> "camera", camera |-> "complete"]

\* No file of this kind is left.
NextKind ==
    /\ block = "none" /\ phase \in DOMAIN Following
    /\ phase' = Following[phase] /\ elements' = 0
    /\ UNCHANGED <<block, resources, sceneResourceInfo, configPerfActionsInfo,
                   interAction, minThermalLvl, cameraFailed>>

\* Mutant: the copy takes the place of a command that was configured.
CopyEvent_Overwrite(cmds, old, new) ==
    IF old \in DOMAIN cmds THEN [x \in DOMAIN cmds \cup {new} |->
                                    IF x = new THEN cmds[old] ELSE cmds[x]]
                           ELSE cmds

\* CopyEvent, for the two commands of CompleteEvent: in the default configuration,
\* a command that is missing does what another does. The names are forgotten.
CopyEvent(cmds, old, new) ==
    IF old \in DOMAIN cmds THEN Insert(cmds, new, cmds[old]) ELSE cmds

CompleteEvent ==
    /\ phase = "complete"
    /\ phase' = "ready"
    /\ g_resStrToIdInfo' = <<>>
    /\ LET one == CopyEvent(CommandsOf(DEFAULT_CONFIG_MODE), Copies[1][1], Copies[1][2])
           both == CopyEvent(one, Copies[2][1], Copies[2][2])
       IN  configPerfActionsInfo' =
               [m \in DOMAIN configPerfActionsInfo \cup {DEFAULT_CONFIG_MODE} |->
                   IF m = DEFAULT_CONFIG_MODE THEN both ELSE configPerfActionsInfo[m]]
    /\ UNCHANGED <<block, elements, resourceNodeInfo, sceneResourceInfo, interAction,
                   minThermalLvl, cameraFailed>>

Next ==
    \/ UnreadableFile \/ Open \/ CloseBlock \/ CloseFile \/ NextKind \/ CompleteEvent
    \/ \E e \in ResElements : LoadFreqResource(e)
    \/ \E e \in GovElements : LoadGovResource(e)
    \/ \E e \in SceneElements : LoadSceneResource(e)
    \/ \E e \in CmdElements, m \in Mode : LoadCmdInfo(e, m)
    \/ \E e \in InterElements : LoadInterAction(e)

Spec == Init /\ [][Next]_vars

-----------------------------------------------------------------------------
(* Properties *)

AllLoaded == UNION {Range(CommandsOf(m)) : m \in DOMAIN configPerfActionsInfo}

\* Every variable stays in the set its member ranges over.
TypeOK ==
    /\ phase \in {"resource", "boost", "camera", "complete", "ready", "failed"}
    /\ block \in {"none", "Resource", "GovResource", "SceneResource", "file"}
    /\ elements \in Nat
    /\ DOMAIN resourceNodeInfo \subseteq ResId
    /\ \A r \in DOMAIN resourceNodeInfo :
          resourceNodeInfo[r] \in ResourceNode /\ resourceNodeInfo[r].id = r
    /\ DOMAIN g_resStrToIdInfo \subseteq ResName
    /\ DOMAIN configPerfActionsInfo \subseteq Mode
    /\ \A m \in DOMAIN configPerfActionsInfo : DOMAIN CommandsOf(m) \subseteq CmdId
    /\ AllLoaded \subseteq Actions
    /\ \A a \in AllLoaded : IsInjective([k \in DOMAIN a.modeMap |-> a.modeMap[k].mode])
    /\ minThermalLvl \in Int /\ cameraFailed \in BOOLEAN

\* While boosts are read, a name stands for a loaded resource that has this name,
\* also when ids or names are defined more than once: a boost is never given to a
\* resource of another name.
NamesResolve ==
    \A n \in DOMAIN g_resStrToIdInfo :
        /\ g_resStrToIdInfo[n] \in DOMAIN resourceNodeInfo
        /\ resourceNodeInfo[g_resStrToIdInfo[n]].name = n

\* When Init returned true, every pair is loaded, every default is available and
\* every action of every mode asks for resources that are loaded; their values
\* are available, except those of a camera file that failed.
ReadyConfigValid ==
    phase = "ready" =>
        /\ \A n \in Range(resourceNodeInfo) :
              /\ n.pair \in DOMAIN resourceNodeInfo \cup {NoRes}
              /\ n.available = {} \/ n.def \in n.available
        /\ \A a \in AllLoaded : \A x \in Range(a.actionList) : \A v \in x.variable :
              /\ v.res \in DOMAIN resourceNodeInfo
              /\ cameraFailed \/ ValueValid(v)

\* What was computed while reading agrees with what was loaded: a command with an
\* action that has no end is marked as long-time, and minThermalLvl is the least
\* thermal level of all actions (a camera file that failed may leave a lower one).
DerivedMatchesLoaded ==
    LET levels == {x.thermalLvl : x \in UNION {Range(a.actionList) : a \in AllLoaded}}
                     \ {INVALID_THERMAL_LVL}
    IN  /\ \A a \in AllLoaded :
              (\E x \in Range(a.actionList) : x.duration = 0) => a.isLongTimePerf
        /\ \A l \in levels : minThermalLvl # INVALID_THERMAL_LVL /\ minThermalLvl <= l
        /\ phase = "ready" /\ ~cameraFailed /\ minThermalLvl # INVALID_THERMAL_LVL
              => minThermalLvl \in levels

\* The first definition stays: what a later file, or CompleteEvent, says of a
\* resource, or of a command in a mode, that is known changes nothing.
FirstDefinitionStays ==
    [][/\ \A r \in DOMAIN resourceNodeInfo :
             r \in DOMAIN resourceNodeInfo' /\ resourceNodeInfo'[r] = resourceNodeInfo[r]
       /\ \A m \in DOMAIN configPerfActionsInfo : \A c \in DOMAIN CommandsOf(m) :
             /\ m \in DOMAIN configPerfActionsInfo'
             /\ c \in DOMAIN configPerfActionsInfo'[m]
             /\ configPerfActionsInfo'[m][c] = CommandsOf(m)[c]]_vars
=============================================================================
