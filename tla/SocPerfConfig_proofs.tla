------------------------- MODULE SocPerfConfig_proofs -------------------------
(* Whatever the files repeat, leave out or get wrong, for any number of them: *)
(* names stand for their resources, the first definition stays, and what Init *)
(* has loaded when it returns true is consistent.                             *)
EXTENDS SocPerfConfig, SequenceTheorems, FiniteSetTheorems, WellFoundedInduction, TLAPS

-----------------------------------------------------------------------------
(* Maps and levels *)

LEMMA InsertKeeps ==
    ASSUME NEW f, NEW k, NEW v
    PROVE  /\ DOMAIN Insert(f, k, v) = DOMAIN f \cup {k}
           /\ \A x \in DOMAIN f : Insert(f, k, v)[x] = f[x]
           /\ k \notin DOMAIN f => Insert(f, k, v)[k] = v
BY DEF Insert

LEMMA InsertDomain == \A f, k, v : DOMAIN Insert(f, k, v) = DOMAIN f \cup {k}
BY DEF Insert

\* Among places of a sequence one has the least value.
LEMMA LeastPlace ==
    ASSUME NEW n \in Nat, NEW f, \A k \in 1 .. n : f[k] \in Int,
           NEW K \in SUBSET (1 .. n), K # {}
    PROVE  \E k \in K : \A x \in K : f[k] <= f[x]
<1> DEFINE From(m) == {k \in K : k >= m}
           HasLeast(m) == From(m) # {} => \E k \in From(m) : \A x \in From(m) : f[k] <= f[x]
           M == {m \in 1 .. n + 1 : HasLeast(m)}
<1>0. \A k \in K : k \in Int /\ 1 <= k /\ k <= n /\ f[k] \in Int
  OBVIOUS
<1>1. M \subseteq Nat /\ n + 1 \in M
  <2>1. From(n + 1) = {}
    <3>1. ASSUME NEW k \in K PROVE ~ (k >= n + 1)
      BY <1>0
    <3> QED BY <3>1
  <2>2. HasLeast(n + 1)
    BY <2>1
  <2> HIDE DEF HasLeast
  <2> QED BY <2>2
<1>2. PICK m \in M : \A y \in M : ~ (<<y, m>> \in OpToRel(<, Nat))
  <2> HIDE DEF M
  <2> QED BY <1>1, NatLessThanWellFounded, WFMin
<1>3. \A y \in M : ~ (y < m)
  <2> TAKE y \in M
  <2>1. y \in Nat /\ m \in Nat
    BY <1>1
  <2>2. y < m => <<y, m>> \in OpToRel(<, Nat)
    BY <2>1 DEF OpToRel
  <2> QED BY <1>2, <2>2
<1> HIDE DEF HasLeast
<1>4. HasLeast(m) /\ m \in 1 .. n + 1
  BY <1>2
<1>5. ASSUME m # 1 PROVE FALSE
  <2>1. m - 1 \in 1 .. n /\ m - 1 \in 1 .. n + 1 /\ m - 1 < m /\ m \in Int
    BY <1>4, <1>5
  <2>2. CASE m - 1 \notin K
    <3>1. From(m - 1) = From(m)
      <4>1. ASSUME NEW k \in K PROVE k >= m - 1 <=> k >= m
        <5>1. k # m - 1 /\ k \in Int
          BY <1>0, <2>2
        <5> QED BY <2>1, <5>1
      <4> QED BY <4>1
    <3>2. HasLeast(m - 1)
      BY <1>4, <3>1 DEF HasLeast
    <3> QED BY <1>3, <2>1, <3>2
  <2>3. CASE m - 1 \in K
    <3>1. \A k : k \in From(m - 1) <=> k \in From(m) \/ k = m - 1
      <4>1. ASSUME NEW k \in K PROVE k >= m - 1 <=> k >= m \/ k = m - 1
        <5>1. k \in Int
          BY <1>0
        <5> QED BY <2>1, <5>1
      <4>2. m - 1 >= m - 1
        BY <2>1
      <4> QED BY <2>3, <4>1, <4>2
    <3>2. \E k \in From(m - 1) : \A x \in From(m - 1) : f[k] <= f[x]
      <4>0. f[m - 1] \in Int /\ f[m - 1] <= f[m - 1]
        BY <2>1
      <4>1. CASE From(m) = {}
        <5> HIDE DEF From
        <5> QED BY <3>1, <4>0, <4>1
      <4>2. CASE From(m) # {}
        <5>1. PICK k \in From(m) : \A x \in From(m) : f[k] <= f[x]
          BY <1>4, <4>2 DEF HasLeast
        <5>2. f[k] \in Int /\ \A x \in From(m) : f[x] \in Int
          BY <1>0
        <5> HIDE DEF From
        <5>3. CASE f[k] <= f[m - 1]
          BY <3>1, <5>1, <5>3
        <5>4. CASE ~ (f[k] <= f[m - 1])
          <6>1. ASSUME NEW x \in From(m) PROVE f[m - 1] <= f[x]
            <7>1. f[x] \in Int /\ f[k] <= f[x]
              BY <5>1, <5>2
            <7> QED BY <4>0, <5>2, <5>4, <7>1
          <6> QED BY <3>1, <4>0, <6>1
        <5> QED BY <5>3, <5>4
      <4> QED BY <4>1, <4>2
    <3>3. HasLeast(m - 1)
      BY <3>2 DEF HasLeast
    <3> QED BY <1>3, <2>1, <3>3
  <2> QED BY <2>2, <2>3
<1>6. From(1) = K
  <2>1. \A k \in K : k >= 1
    BY <1>0
  <2> QED BY <2>1
<1> QED BY <1>4, <1>5, <1>6 DEF HasLeast

\* What CommandsOf has, of all modes.
LEMMA LoadedIs ==
    \A a : a \in AllLoaded <=>
        \E m \in DOMAIN configPerfActionsInfo : \E c \in DOMAIN configPerfActionsInfo[m] :
            a = configPerfActionsInfo[m][c]
BY DEF AllLoaded, CommandsOf, Range

\* A new command adds its actions.
LEMMA CommandAdded ==
    ASSUME NEW m, NEW c, NEW a, c \notin DOMAIN CommandsOf(m),
           configPerfActionsInfo' = WithCommand(m, c, a)
    PROVE  AllLoaded' = AllLoaded \cup {a}
<1> DEFINE old == configPerfActionsInfo
           new == configPerfActionsInfo'
<1>1. /\ DOMAIN new = DOMAIN old \cup {m}
      /\ \A x \in DOMAIN old : x # m => new[x] = old[x]
      /\ new[m] = Insert(CommandsOf(m), c, a)
  BY DEF WithCommand
<1>2. CommandsOf(m) = IF m \in DOMAIN old THEN old[m] ELSE <<>>
  BY DEF CommandsOf
<1>3. /\ DOMAIN new[m] = DOMAIN CommandsOf(m) \cup {c} /\ new[m][c] = a
      /\ \A x \in DOMAIN CommandsOf(m) : new[m][x] = CommandsOf(m)[x]
  <2> DEFINE g == Insert(CommandsOf(m), c, a)
  <2>1. DOMAIN g = DOMAIN CommandsOf(m) \cup {c}
    BY InsertKeeps
  <2>2. \A x \in DOMAIN CommandsOf(m) : g[x] = CommandsOf(m)[x]
    BY InsertKeeps
  <2>3. g[c] = a
    BY InsertKeeps
  <2>4. g = new[m]
    BY <1>1
  <2> HIDE DEF g, new
  <2> QED BY <2>1, <2>2, <2>3, <2>4
<1>4. \A b : b \in AllLoaded' <=> \E x \in DOMAIN new : \E d \in DOMAIN new[x] : b = new[x][d]
  BY LoadedIs DEF AllLoaded, CommandsOf, Range
<1>5. a \in AllLoaded'
  BY <1>1, <1>3, <1>4
<1>6. ASSUME NEW b \in AllLoaded PROVE b \in AllLoaded'
  <2>1. PICK x \in DOMAIN old : \E d \in DOMAIN old[x] : b = old[x][d]
    BY <1>6, LoadedIs
  <2>2. PICK d \in DOMAIN old[x] : b = old[x][d]
    BY <2>1
  <2> QED BY <1>1, <1>2, <1>3, <1>4, <2>2
<1>7. ASSUME NEW b \in AllLoaded', b # a PROVE b \in AllLoaded
  <2>1. PICK x \in DOMAIN new : \E d \in DOMAIN new[x] : b = new[x][d]
    BY <1>4, <1>7
  <2>2. PICK d \in DOMAIN new[x] : b = new[x][d]
    BY <2>1
  <2>3. CASE x # m
    BY <1>1, <2>2, <2>3, LoadedIs
  <2>4. CASE x = m
    <3>1. d \in DOMAIN CommandsOf(m) /\ b = CommandsOf(m)[d]
      BY <1>3, <1>7, <2>2, <2>4
    <3>2. m \in DOMAIN old
      BY <1>2, <3>1
    <3> QED BY <1>2, <3>1, <3>2, LoadedIs
  <2> QED BY <2>3, <2>4
<1> QED BY <1>5, <1>6, <1>7

\* A copy has the actions of another command.
LEMMA CopyKeeps ==
    ASSUME NEW cmds, NEW old, NEW new
    PROVE  /\ DOMAIN cmds \subseteq DOMAIN CopyEvent(cmds, old, new)
           /\ \A x \in DOMAIN cmds : CopyEvent(cmds, old, new)[x] = cmds[x]
           /\ \A x \in DOMAIN CopyEvent(cmds, old, new) : \E y \in DOMAIN cmds :
                 CopyEvent(cmds, old, new)[x] = cmds[y]
<1>1. CASE old \in DOMAIN cmds
  <2> DEFINE c == CopyEvent(cmds, old, new)
  <2>1. c = [x \in DOMAIN cmds \cup {new} |->
                IF x \in DOMAIN cmds THEN cmds[x] ELSE cmds[old]]
    BY <1>1 DEF CopyEvent, Insert
  <2> HIDE DEF c
  <2>2. \A x \in DOMAIN c : c[x] = IF x \in DOMAIN cmds THEN cmds[x] ELSE cmds[old]
    BY <2>1
  <2>3. \A x \in DOMAIN c : \E y \in DOMAIN cmds : c[x] = cmds[y]
    BY <1>1, <2>2
  <2>4. DOMAIN cmds \subseteq DOMAIN c
    BY <2>1
  <2> QED BY <2>2, <2>3, <2>4 DEF c
<1>2. CASE old \notin DOMAIN cmds
  BY <1>2 DEF CopyEvent
<1> QED BY <1>1, <1>2

LEMMA CompletedKeeps ==
    ASSUME CompleteEvent
    PROVE  /\ AllLoaded' = AllLoaded
           /\ DOMAIN configPerfActionsInfo \subseteq DOMAIN configPerfActionsInfo'
           /\ \A m \in DOMAIN configPerfActionsInfo : \A c \in DOMAIN CommandsOf(m) :
                 /\ c \in DOMAIN configPerfActionsInfo'[m]
                 /\ configPerfActionsInfo'[m][c] = CommandsOf(m)[c]
<1> DEFINE D == DEFAULT_CONFIG_MODE
           cmds == CommandsOf(D)
           one == CopyEvent(cmds, Copies[1][1], Copies[1][2])
           both == CopyEvent(one, Copies[2][1], Copies[2][2])
           old == configPerfActionsInfo
           new == configPerfActionsInfo'
<1>1. new = [m \in DOMAIN old \cup {D} |-> IF m = D THEN both ELSE old[m]]
  BY DEF CompleteEvent
<1>2. /\ DOMAIN cmds \subseteq DOMAIN both
      /\ \A x \in DOMAIN cmds : both[x] = cmds[x]
      /\ \A x \in DOMAIN both : \E y \in DOMAIN cmds : both[x] = cmds[y]
  <2>1. /\ DOMAIN cmds \subseteq DOMAIN one
        /\ \A x \in DOMAIN cmds : one[x] = cmds[x]
        /\ \A x \in DOMAIN one : \E y \in DOMAIN cmds : one[x] = cmds[y]
    BY CopyKeeps
  <2> HIDE DEF one
  <2>2. /\ DOMAIN one \subseteq DOMAIN both
        /\ \A x \in DOMAIN one : both[x] = one[x]
        /\ \A x \in DOMAIN both : \E y \in DOMAIN one : both[x] = one[y]
    BY CopyKeeps
  <2> HIDE DEF both
  <2> QED BY <2>1, <2>2
<1>3. cmds = IF D \in DOMAIN old THEN old[D] ELSE <<>>
  BY DEF CommandsOf
<1> HIDE DEF both, one
<1>4. \A b : b \in AllLoaded' <=> \E x \in DOMAIN new : \E d \in DOMAIN new[x] : b = new[x][d]
  BY LoadedIs DEF AllLoaded, CommandsOf, Range
<1>5. ASSUME NEW b \in AllLoaded PROVE b \in AllLoaded'
  <2>1. PICK x \in DOMAIN old : \E d \in DOMAIN old[x] : b = old[x][d]
    BY <1>5, LoadedIs
  <2>2. PICK d \in DOMAIN old[x] : b = old[x][d]
    BY <2>1
  <2>3. d \in DOMAIN new[x] /\ new[x][d] = old[x][d]
    BY <1>1, <1>2, <1>3, <2>2
  <2> QED BY <1>1, <1>4, <2>2, <2>3
<1>6. ASSUME NEW b \in AllLoaded' PROVE b \in AllLoaded
  <2>1. PICK x \in DOMAIN new : \E d \in DOMAIN new[x] : b = new[x][d]
    BY <1>4, <1>6
  <2>2. PICK d \in DOMAIN new[x] : b = new[x][d]
    BY <2>1
  <2>3. CASE x # D
    BY <1>1, <2>2, <2>3, LoadedIs
  <2>4. CASE x = D
    <3>1. PICK y \in DOMAIN cmds : b = cmds[y]
      BY <1>1, <1>2, <2>2, <2>4
    <3>2. D \in DOMAIN old
      BY <1>3, <3>1
    <3> QED BY <1>3, <3>1, <3>2, LoadedIs
  <2> QED BY <2>3, <2>4
<1>7. ASSUME NEW m \in DOMAIN old, NEW c \in DOMAIN CommandsOf(m)
      PROVE  c \in DOMAIN new[m] /\ new[m][c] = CommandsOf(m)[c]
  BY <1>1, <1>2 DEF CommandsOf
<1> QED BY <1>1, <1>5, <1>6, <1>7

-----------------------------------------------------------------------------
(* What is there first *)

\* A step of a resource file, or of CompleteEvent, and what it does to the maps.
LEMMA ResourceAdded ==
    ASSUME NEW e, \/ LoadFreqResource(e) \/ LoadGovResource(e)
    PROVE  \/ UNCHANGED resources
           \/ /\ e.node.id \notin DOMAIN resourceNodeInfo
              /\ resourceNodeInfo' = Insert(resourceNodeInfo, e.node.id, e.node)
              /\ g_resStrToIdInfo' = Insert(g_resStrToIdInfo, e.node.name, e.node.id)
BY DEF LoadFreqResource, LoadGovResource

LEMMA OthersKeepResources ==
    ASSUME Next, \A e \in ResElements : ~LoadFreqResource(e),
           \A e \in GovElements : ~LoadGovResource(e)
    PROVE  /\ resourceNodeInfo' = resourceNodeInfo
           /\ ~CompleteEvent => g_resStrToIdInfo' = g_resStrToIdInfo
           /\ CompleteEvent => g_resStrToIdInfo' = <<>>
BY DEF Next, UnreadableFile, Open, CloseBlock, CloseFile, NextKind, CompleteEvent,
       LoadSceneResource, LoadCmdInfo, LoadInterAction, resources

LEMMA OthersKeepCommands ==
    ASSUME Next, \A e \in CmdElements, m \in Mode : ~LoadCmdInfo(e, m), ~CompleteEvent
    PROVE  UNCHANGED <<configPerfActionsInfo, minThermalLvl>>
BY DEF Next, UnreadableFile, Open, CloseBlock, CloseFile, NextKind, LoadFreqResource,
       LoadGovResource, LoadSceneResource, LoadInterAction

\* A command is added, or nothing.
LEMMA LoadCmdInfoAdds ==
    ASSUME NEW e, NEW m, LoadCmdInfo(e, m)
    PROVE  \/ UNCHANGED configPerfActionsInfo
           \/ /\ e.id \notin DOMAIN CommandsOf(m)
              /\ configPerfActionsInfo' = WithCommand(m, e.id, MakeActions(e, m))
              /\ minThermalLvl' = MinThermal(e.actions)
              /\ \A k \in DOMAIN e.actions : ActionParses(e.actions[k])
              /\ Keep
BY DEF LoadCmdInfo

\* The first definition stays: of a resource, whatever another file says of its
\* id, and of a command in a mode, also when CompleteEvent copies over it.
THEOREM FirstStays == Spec => FirstDefinitionStays
<1>1. ASSUME [Next]_vars
      PROVE  [/\ \A r \in DOMAIN resourceNodeInfo :
                    r \in DOMAIN resourceNodeInfo' /\ resourceNodeInfo'[r] = resourceNodeInfo[r]
              /\ \A m \in DOMAIN configPerfActionsInfo : \A c \in DOMAIN CommandsOf(m) :
                    /\ m \in DOMAIN configPerfActionsInfo'
                    /\ c \in DOMAIN configPerfActionsInfo'[m]
                    /\ configPerfActionsInfo'[m][c] = CommandsOf(m)[c]]_vars
  <2> SUFFICES ASSUME Next
               PROVE  /\ \A r \in DOMAIN resourceNodeInfo :
                            /\ r \in DOMAIN resourceNodeInfo'
                            /\ resourceNodeInfo'[r] = resourceNodeInfo[r]
                      /\ \A m \in DOMAIN configPerfActionsInfo :
                            \A c \in DOMAIN CommandsOf(m) :
                                /\ m \in DOMAIN configPerfActionsInfo'
                                /\ c \in DOMAIN configPerfActionsInfo'[m]
                                /\ configPerfActionsInfo'[m][c] = CommandsOf(m)[c]
    BY <1>1
  <2>1. ASSUME NEW r \in DOMAIN resourceNodeInfo
        PROVE  r \in DOMAIN resourceNodeInfo' /\ resourceNodeInfo'[r] = resourceNodeInfo[r]
    <3>1. CASE \E e : LoadFreqResource(e) \/ LoadGovResource(e)
      <4>1. PICK e : LoadFreqResource(e) \/ LoadGovResource(e)
        BY <3>1
      <4>2. CASE UNCHANGED resources
        BY <4>2 DEF resources
      <4>3. CASE resourceNodeInfo' = Insert(resourceNodeInfo, e.node.id, e.node)
        BY <4>3 DEF Insert
      <4> QED BY <4>1, <4>2, <4>3, ResourceAdded
    <3>2. CASE ~ \E e : LoadFreqResource(e) \/ LoadGovResource(e)
      BY <3>2, OthersKeepResources
    <3> QED BY <3>1, <3>2
  <2>2. ASSUME NEW m \in DOMAIN configPerfActionsInfo, NEW c \in DOMAIN CommandsOf(m)
        PROVE  /\ m \in DOMAIN configPerfActionsInfo'
               /\ c \in DOMAIN configPerfActionsInfo'[m]
               /\ configPerfActionsInfo'[m][c] = CommandsOf(m)[c]
    <3>1. CASE CompleteEvent
      BY <3>1, CompletedKeeps
    <3>2. CASE \E e \in CmdElements, x \in Mode : LoadCmdInfo(e, x)
      <4>1. PICK e \in CmdElements, x \in Mode : LoadCmdInfo(e, x)
        BY <3>2
      <4>2. CASE UNCHANGED configPerfActionsInfo
        BY <4>2 DEF CommandsOf
      <4>3. CASE configPerfActionsInfo' = WithCommand(x, e.id, MakeActions(e, x))
        <5> DEFINE a == MakeActions(e, x)
                   g == Insert(CommandsOf(x), e.id, a)
        <5> HIDE DEF a
        <5>1. /\ m \in DOMAIN configPerfActionsInfo'
              /\ configPerfActionsInfo'[m] = IF m # x THEN configPerfActionsInfo[m] ELSE g
          BY <4>3 DEF WithCommand, a
        <5>2. /\ \A d \in DOMAIN CommandsOf(x) : g[d] = CommandsOf(x)[d]
              /\ DOMAIN CommandsOf(x) \subseteq DOMAIN g
          <6>1. DOMAIN g = DOMAIN CommandsOf(x) \cup {e.id}
            BY InsertDomain
          <6>2. \A d \in DOMAIN CommandsOf(x) : g[d] = CommandsOf(x)[d]
            BY DEF Insert
          <6> QED BY <6>1, <6>2
        <5> HIDE DEF g
        <5>3. CommandsOf(m) = configPerfActionsInfo[m]
          BY DEF CommandsOf
        <5>4. CASE m = x
          BY <5>1, <5>2, <5>4
        <5>5. CASE m # x
          BY <5>1, <5>3, <5>5
        <5> QED BY <5>4, <5>5
      <4> QED BY <4>1, <4>2, <4>3, LoadCmdInfoAdds
    <3>3. CASE ~CompleteEvent /\ \A e \in CmdElements, x \in Mode : ~LoadCmdInfo(e, x)
      BY <3>3, OthersKeepCommands DEF CommandsOf
    <3> QED BY <3>1, <3>2, <3>3
  <2> QED BY <2>1, <2>2
<1> QED BY <1>1, PTL DEF Spec, FirstDefinitionStays

\* A name stands for a loaded resource of this name, whatever the files repeat.
LEMMA NamesStep ==
    ASSUME NamesResolve, [Next]_vars
    PROVE  NamesResolve'
<1>1. CASE UNCHANGED vars
  BY <1>1 DEF vars, resources, NamesResolve
<1>2. CASE Next
  <2>1. CASE \E e : LoadFreqResource(e) \/ LoadGovResource(e)
    <3>1. PICK e : LoadFreqResource(e) \/ LoadGovResource(e)
      BY <2>1
    <3>2. CASE UNCHANGED resources
      BY <3>2 DEF resources, NamesResolve
    <3>3. CASE /\ e.node.id \notin DOMAIN resourceNodeInfo
               /\ resourceNodeInfo' = Insert(resourceNodeInfo, e.node.id, e.node)
               /\ g_resStrToIdInfo' = Insert(g_resStrToIdInfo, e.node.name, e.node.id)
      <4> DEFINE n == e.node
                 id == e.node.id
                 name == e.node.name
      <4>1. /\ DOMAIN resourceNodeInfo' = DOMAIN resourceNodeInfo \cup {id}
            /\ \A x \in DOMAIN resourceNodeInfo : resourceNodeInfo'[x] = resourceNodeInfo[x]
            /\ resourceNodeInfo'[id] = n
        BY <3>3 DEF Insert
      <4>2. /\ DOMAIN g_resStrToIdInfo' = DOMAIN g_resStrToIdInfo \cup {name}
            /\ \A x \in DOMAIN g_resStrToIdInfo : g_resStrToIdInfo'[x] = g_resStrToIdInfo[x]
            /\ name \notin DOMAIN g_resStrToIdInfo => g_resStrToIdInfo'[name] = id
        BY <3>3 DEF Insert
      <4>3. n.name = name
        OBVIOUS
      <4> HIDE DEF n, id, name
      <4> SUFFICES ASSUME NEW x \in DOMAIN g_resStrToIdInfo'
                   PROVE  /\ g_resStrToIdInfo'[x] \in DOMAIN resourceNodeInfo'
                          /\ resourceNodeInfo'[g_resStrToIdInfo'[x]].name = x
        BY DEF NamesResolve
      <4>4. CASE x \in DOMAIN g_resStrToIdInfo
        BY <4>1, <4>2, <4>4 DEF NamesResolve
      <4>5. CASE x \notin DOMAIN g_resStrToIdInfo
        BY <4>1, <4>2, <4>3, <4>5
      <4> QED BY <4>4, <4>5
    <3> QED BY <3>1, <3>2, <3>3, ResourceAdded
  <2>2. CASE ~ \E e : LoadFreqResource(e) \/ LoadGovResource(e)
    BY <1>2, <2>2, OthersKeepResources DEF NamesResolve
  <2> QED BY <2>1, <2>2
<1> QED BY <1>1, <1>2

THEOREM NamesResolveAlways == Spec => []NamesResolve
<1>1. Init => NamesResolve
  BY DEF Init, NamesResolve
<1>2. NamesResolve /\ [Next]_vars => NamesResolve'
  BY NamesStep
<1> QED BY <1>1, <1>2, PTL DEF Spec

-----------------------------------------------------------------------------
(* What the checks at the end of blocks and files have seen *)

NodesInv == \A r \in DOMAIN resourceNodeInfo :
                resourceNodeInfo[r].isGov => resourceNodeInfo[r].pair = NoRes

\* The resources of an action are loaded and its values are in the sets it names;
\* what was derived from it agrees with it.
ActionGood(a) ==
    \A k \in DOMAIN a.actionList :
        /\ \A v \in a.actionList[k].variable : v.res \in DOMAIN resourceNodeInfo
        /\ a.actionList[k].duration = 0 => a.isLongTimePerf
        /\ a.actionList[k].thermalLvl \in Int
        /\ a.actionList[k].thermalLvl # INVALID_THERMAL_LVL =>
              /\ minThermalLvl # INVALID_THERMAL_LVL
              /\ minThermalLvl <= a.actionList[k].thermalLvl

ActionsInv == minThermalLvl \in Int /\ \A a \in AllLoaded : ActionGood(a)

\* Blocks belong to the files of their kind. Commands come after resources.
PlaceInv ==
    /\ phase \in {"resource", "boost", "camera", "complete", "ready", "failed"}
    /\ \/ block = "none"
       \/ block \in {"Resource", "GovResource", "SceneResource"} /\ phase = "resource"
       \/ block = "file" /\ phase \in Boosts
    /\ cameraFailed => phase \in {"complete", "ready"}
    /\ phase = "resource" => AllLoaded = {}

ActionsAllValid == \A a \in AllLoaded : ActionsValid(a)

LevelMet == \E a \in AllLoaded : \E k \in DOMAIN a.actionList :
                a.actionList[k].thermalLvl = minThermalLvl

\* A block that is not open has been checked, and a file that is not open.
CheckedInv ==
    phase # "failed" =>
        /\ block # "Resource" => CheckPairResIdValid
        /\ block \notin {"Resource", "GovResource"} => CheckDefValid
        /\ block = "none" /\ ~cameraFailed => ActionsAllValid
        /\ ~cameraFailed /\ minThermalLvl # INVALID_THERMAL_LVL => LevelMet

ConfigInv == NamesResolve /\ NodesInv /\ ActionsInv /\ PlaceInv /\ CheckedInv

LEMMA SameMaps ==
    ASSUME UNCHANGED <<resourceNodeInfo, configPerfActionsInfo, minThermalLvl>>
    PROVE  /\ AllLoaded' = AllLoaded
           /\ CheckPairResIdValid' <=> CheckPairResIdValid
           /\ CheckDefValid' <=> CheckDefValid
           /\ ActionsAllValid' <=> ActionsAllValid
           /\ LevelMet' <=> LevelMet
           /\ NodesInv' <=> NodesInv
           /\ ActionsInv' <=> ActionsInv
<1>1. AllLoaded' = AllLoaded
  BY DEF AllLoaded, CommandsOf
<1>2. /\ CheckPairResIdValid' <=> CheckPairResIdValid
      /\ CheckDefValid' <=> CheckDefValid
      /\ NodesInv' <=> NodesInv
  BY DEF CheckPairResIdValid, CheckDefValid, NodesInv
<1>3. ActionsAllValid' <=> ActionsAllValid
  BY <1>1 DEF ActionsAllValid, ActionsValid, ValueValid
<1>4. LevelMet' <=> LevelMet
  BY <1>1 DEF LevelMet
<1>5. ActionsInv' <=> ActionsInv
  BY <1>1 DEF ActionsInv, ActionGood
<1> QED BY <1>1, <1>2, <1>3, <1>4, <1>5

\* What the check at the end of a boost file goes through is all that was loaded.
LEMMA CheckGoesThroughAll ==
    CheckActionResIdAndValueValid => ActionsAllValid
<1> SUFFICES ASSUME CheckActionResIdAndValueValid, NEW a \in AllLoaded
             PROVE  ActionsValid(a)
  BY DEF ActionsAllValid
<1>1. PICK m \in DOMAIN configPerfActionsInfo : a \in Range(CommandsOf(m))
  BY DEF AllLoaded
<1>2. PICK c \in DOMAIN CommandsOf(m) : a = CommandsOf(m)[c]
  BY <1>1 DEF Range
<1> QED BY <1>1, <1>2 DEF CheckActionResIdAndValueValid

\* A step that opens, checks, gives up or ends a file or a block.
LEMMA PlaceSteps ==
    ASSUME ConfigInv,
           \/ UnreadableFile \/ Open \/ CloseBlock \/ CloseFile \/ NextKind
           \/ \E e : LoadSceneResource(e) \/ LoadInterAction(e)
    PROVE  NodesInv' /\ ActionsInv' /\ PlaceInv' /\ CheckedInv'
<1>1. UNCHANGED <<resourceNodeInfo, configPerfActionsInfo, minThermalLvl>>
  BY DEF UnreadableFile, Open, CloseBlock, CloseFile, NextKind, LoadSceneResource,
         LoadInterAction, resources
<1>2. NodesInv' /\ ActionsInv'
  BY <1>1, SameMaps DEF ConfigInv
<1>3. /\ AllLoaded' = AllLoaded
      /\ CheckPairResIdValid' <=> CheckPairResIdValid
      /\ CheckDefValid' <=> CheckDefValid
      /\ ActionsAllValid' <=> ActionsAllValid
      /\ LevelMet' <=> LevelMet
  BY <1>1, SameMaps
<1> SUFFICES PlaceInv' /\ CheckedInv'
  BY <1>2
<1>4. ASSUME Fail, phase \in {"resource"} \cup Boosts, phase \in Boosts =>
                       block \notin {"Resource", "GovResource", "SceneResource"}
      PROVE  PlaceInv' /\ CheckedInv'
  <2>1. /\ block' = "none"
        /\ phase' = IF phase = "camera" THEN "complete" ELSE "failed"
        /\ cameraFailed' <=> phase = "camera"
    BY <1>4 DEF Fail
  <2> QED BY <1>1, <1>3, <1>4, <2>1 DEF ConfigInv, PlaceInv, CheckedInv, Boosts
<1>5. CASE UnreadableFile
  BY <1>4, <1>5 DEF UnreadableFile
<1>6. CASE Open
  <2>1. phase \in {"resource"} \cup Boosts
    BY <1>6, ConfigAssumption DEF Open, Boosts
  <2> QED BY <1>1, <1>3, <1>6, <2>1 DEF Open, ConfigInv, PlaceInv, CheckedInv, Boosts
<1>7. CASE CloseBlock
  <2>1. phase = "resource"
    BY <1>7 DEF CloseBlock, ConfigInv, PlaceInv
  <2>2. CASE Fail
    BY <1>4, <2>1, <2>2 DEF Boosts
  <2>3. CASE ~Fail
    BY <1>1, <1>3, <1>7, <2>1, <2>3
       DEF CloseBlock, ConfigInv, PlaceInv, CheckedInv, ActionsAllValid
  <2> QED BY <2>2, <2>3
<1>8. CASE CloseFile
  <2>1. phase \in Boosts
    BY <1>8 DEF CloseFile, ConfigInv, PlaceInv
  <2>2. CASE Fail
    BY <1>4, <1>8, <2>1, <2>2 DEF CloseFile
  <2>3. CASE ~Fail
    BY <1>1, <1>3, <1>8, <2>1, <2>3, CheckGoesThroughAll
       DEF CloseFile, ConfigInv, PlaceInv, CheckedInv, Boosts
  <2> QED BY <2>2, <2>3
<1>9. CASE NextKind
  <2>1. phase \in {"resource", "boost", "camera"}
    BY <1>9 DEF NextKind, Following
  <2>2. /\ phase = "resource" => phase' = "boost"
        /\ phase = "boost" => phase' = "camera"
        /\ phase = "camera" => phase' = "complete"
    BY <1>9 DEF NextKind, Following
  <2> QED BY <1>1, <1>3, <1>9, <2>1, <2>2
          DEF NextKind, ConfigInv, PlaceInv, CheckedInv, Boosts
<1>10. CASE \E e : LoadSceneResource(e)
  BY <1>1, <1>3, <1>10 DEF LoadSceneResource, Read, ConfigInv, PlaceInv, CheckedInv, Boosts,
     ActionsAllValid
<1>11. CASE \E e : LoadInterAction(e)
  BY <1>1, <1>3, <1>11 DEF LoadInterAction, Read, Keep, ConfigInv, PlaceInv, CheckedInv
<1> QED BY <1>5, <1>6, <1>7, <1>8, <1>9, <1>10, <1>11

\* A resource is read: there are no commands yet.
LEMMA ResourceSteps ==
    ASSUME ConfigInv,
           \/ \E e \in ResElements : LoadFreqResource(e)
           \/ \E e \in GovElements : LoadGovResource(e)
    PROVE  NodesInv' /\ ActionsInv' /\ PlaceInv' /\ CheckedInv'
<1>1. PICK e \in ResElements \cup GovElements :
         /\ LoadFreqResource(e) \/ LoadGovResource(e)
         /\ LoadGovResource(e) => e \in GovElements
         /\ LoadFreqResource(e) => e \in ResElements
  <2>1. CASE \E e \in ResElements : LoadFreqResource(e)
    <3>1. PICK e \in ResElements : LoadFreqResource(e)
      BY <2>1
    <3>2. ~LoadGovResource(e)
      BY <3>1 DEF LoadFreqResource, LoadGovResource, Read
    <3> QED BY <3>1, <3>2
  <2>2. CASE \E e \in GovElements : LoadGovResource(e)
    <3>1. PICK e \in GovElements : LoadGovResource(e)
      BY <2>2
    <3>2. ~LoadFreqResource(e)
      BY <3>1 DEF LoadFreqResource, LoadGovResource, Read
    <3> QED BY <3>1, <3>2
  <2> QED BY <2>1, <2>2
<1>2. /\ block = IF LoadGovResource(e) THEN "GovResource" ELSE "Resource"
      /\ phase = "resource" /\ AllLoaded = {} /\ ~cameraFailed
  BY <1>1 DEF LoadFreqResource, LoadGovResource, Read, ConfigInv, PlaceInv
<1>3. UNCHANGED <<configPerfActionsInfo, minThermalLvl>> /\ AllLoaded' = {}
  BY <1>1, <1>2 DEF LoadFreqResource, LoadGovResource, AllLoaded, CommandsOf
<1>4. Fail \/ Keep
  BY <1>1 DEF LoadFreqResource, LoadGovResource
<1>5. ActionsInv'
  BY <1>3 DEF ConfigInv, ActionsInv
<1>6. PlaceInv'
  <2>1. CASE Fail
    <3>1. phase' = "failed" /\ block' = "none" /\ ~cameraFailed'
      BY <1>2, <2>1 DEF Fail
    <3> QED BY <3>1 DEF PlaceInv
  <2>2. CASE Keep
    <3>1. phase' = phase /\ block' = block /\ cameraFailed' = cameraFailed
      BY <2>2 DEF Keep
    <3> QED BY <1>2, <1>3, <3>1 DEF PlaceInv
  <2> QED BY <1>4, <2>1, <2>2
<1>7. (e.node.isGov => e.node.pair = NoRes) /\ (LoadGovResource(e) => e.node.isGov)
  BY <1>1, ConfigAssumption
<1>8. NodesInv' /\ (LoadGovResource(e) => CheckPairResIdValid')
  <2>1. LoadGovResource(e) => CheckPairResIdValid
    BY <1>2 DEF ConfigInv, CheckedInv
  <2>2. CASE resourceNodeInfo' = resourceNodeInfo
    BY <2>1, <2>2 DEF ConfigInv, NodesInv, CheckPairResIdValid
  <2>3. CASE resourceNodeInfo' = Insert(resourceNodeInfo, e.node.id, e.node)
    <3> DEFINE n == e.node
               id == e.node.id
    <3>1. /\ DOMAIN resourceNodeInfo' = DOMAIN resourceNodeInfo \cup {id}
          /\ \A x \in DOMAIN resourceNodeInfo : resourceNodeInfo'[x] = resourceNodeInfo[x]
          /\ id \notin DOMAIN resourceNodeInfo => resourceNodeInfo'[id] = n
      BY <2>3 DEF Insert
    <3>2. (n.isGov => n.pair = NoRes) /\ (LoadGovResource(e) => n.isGov)
      BY <1>7
    <3> HIDE DEF n, id
    <3> QED BY <2>1, <3>1, <3>2 DEF ConfigInv, NodesInv, CheckPairResIdValid
  <2> QED BY <1>1, <2>2, <2>3, ResourceAdded DEF resources
<1>9. CheckedInv'
  <2>1. CASE Fail
    BY <1>2, <2>1 DEF Fail, CheckedInv
  <2>2. CASE Keep
    <3>1. block' = block /\ phase' = phase /\ cameraFailed' = cameraFailed
      BY <2>2 DEF Keep
    <3>2. ActionsAllValid'
      BY <1>3 DEF ActionsAllValid
    <3>3. minThermalLvl # INVALID_THERMAL_LVL => FALSE
      BY <1>2 DEF ConfigInv, CheckedInv, LevelMet
    <3> QED BY <1>2, <1>3, <1>8, <3>1, <3>2, <3>3 DEF CheckedInv
  <2> QED BY <1>4, <2>1, <2>2
<1> QED BY <1>5, <1>6, <1>8, <1>9

\* CompleteEvent adds no action and keeps the resources.
LEMMA CompleteStep ==
    ASSUME ConfigInv, CompleteEvent
    PROVE  NodesInv' /\ ActionsInv' /\ PlaceInv' /\ CheckedInv'
<1>1. /\ AllLoaded' = AllLoaded /\ resourceNodeInfo' = resourceNodeInfo
      /\ minThermalLvl' = minThermalLvl /\ block' = block /\ cameraFailed' = cameraFailed
      /\ phase = "complete" /\ phase' = "ready"
  BY CompletedKeeps DEF CompleteEvent
<1>2. NodesInv'
  BY <1>1 DEF ConfigInv, NodesInv
<1>3. ActionsInv'
  BY <1>1 DEF ConfigInv, ActionsInv, ActionGood
<1>4. PlaceInv'
  BY <1>1 DEF ConfigInv, PlaceInv, Boosts
<1>5. /\ CheckPairResIdValid' <=> CheckPairResIdValid
      /\ CheckDefValid' <=> CheckDefValid
  BY <1>1 DEF CheckPairResIdValid, CheckDefValid
<1>6. ActionsAllValid' <=> ActionsAllValid
  BY <1>1 DEF ActionsAllValid, ActionsValid, ValueValid
<1>7. LevelMet' <=> LevelMet
  BY <1>1 DEF LevelMet
<1>8. CheckedInv'
  BY <1>1, <1>5, <1>6, <1>7 DEF ConfigInv, CheckedInv
<1> QED BY <1>2, <1>3, <1>4, <1>8

\* Among places of a sequence one is the last.
LEMMA GreatestPlace ==
    ASSUME NEW n \in Nat, NEW K \in SUBSET (1 .. n), K # {}
    PROVE  Max(K) \in K
<1> DEFINE f == [k \in 1 .. n |-> 0 - k]
<1>1. PICK k \in K : \A x \in K : f[k] <= f[x]
  <2>1. \A k \in 1 .. n : f[k] \in Int
    OBVIOUS
  <2> HIDE DEF f
  <2> QED BY <2>1, LeastPlace
<1>2. \A x \in K : k >= x
  <2> TAKE x \in K
  <2>1. x \in 1 .. n /\ k \in 1 .. n /\ f[k] <= f[x]
    BY <1>1
  <2>2. f[k] = 0 - k /\ f[x] = 0 - x /\ k \in Int /\ x \in Int
    BY <2>1
  <2> HIDE DEF f
  <2> QED BY <2>1, <2>2
<1> QED BY <1>2 DEF Max

\* The duration of an action is its last one, and marks its command when it is 0.
LEMMA LastDuration ==
    ASSUME NEW cs \in Seq(Child), NEW K \in SUBSET DOMAIN cs, K # {}
    PROVE  Max(K) \in K
<1>1. Len(cs) \in Nat /\ DOMAIN cs = 1 .. Len(cs)
  OBVIOUS
<1> QED BY <1>1, GreatestPlace

LEMMA ActionMade ==
    ASSUME NamesResolve, NEW as, NEW k \in DOMAIN as, as[k].children \in Seq(Child),
           ActionParses(as[k])
    PROVE  /\ \A v \in MakeAction(as[k]).variable : v.res \in DOMAIN resourceNodeInfo
           /\ MakeAction(as[k]).duration = 0 => IsLongTime(as)
           /\ MakeAction(as[k]).thermalLvl = as[k].thermalLvl
<1> DEFINE cs == as[k].children
           durations == {j \in DOMAIN cs : IsDuration(cs[j])}
<1>1. \A j \in DOMAIN cs : cs[j] \in Range(cs)
  BY DEF Range
<1>2. ASSUME NEW j \in DOMAIN cs \ durations
      PROVE  g_resStrToIdInfo[cs[j].name] \in DOMAIN resourceNodeInfo
  <2>1. Parses(cs[j]) /\ ~IsDuration(cs[j])
    BY <1>1, <1>2 DEF ActionParses
  <2>2. cs[j].name \in DOMAIN g_resStrToIdInfo
    BY <2>1 DEF Parses
  <2> QED BY <2>2 DEF NamesResolve
<1>3. MakeAction(as[k]).variable =
         {[res |-> g_resStrToIdInfo[cs[j].name], value |-> cs[j].value] :
              j \in DOMAIN cs \ durations}
  BY DEF MakeAction
<1>4. \A v \in MakeAction(as[k]).variable : v.res \in DOMAIN resourceNodeInfo
  <2> TAKE v \in MakeAction(as[k]).variable
  <2>1. PICK j \in DOMAIN cs \ durations :
           v = [res |-> g_resStrToIdInfo[cs[j].name], value |-> cs[j].value]
    BY <1>3
  <2>2. v.res = g_resStrToIdInfo[cs[j].name]
    BY <2>1
  <2> QED BY <1>2, <2>2
<1>5. ASSUME MakeAction(as[k]).duration = 0 PROVE IsLongTime(as)
  <2>1. MakeAction(as[k]).duration =
           IF durations = {} THEN INVALID_DURATION ELSE cs[Max(durations)].duration
    BY DEF MakeAction
  <2>2. durations # {} /\ cs[Max(durations)].duration = 0
    <3> HIDE DEF durations, cs
    <3>1. INVALID_DURATION # 0
      BY DEF INVALID_DURATION
    <3> QED BY <1>5, <2>1, <3>1
  <2>3. Max(durations) \in durations
    BY <2>2, LastDuration
  <2> DEFINE c == cs[Max(durations)]
  <2>4. c \in Range(cs) /\ IsDuration(c) /\ c.duration = 0
    BY <1>1, <2>2, <2>3
  <2> HIDE DEF c
  <2> QED BY <2>4 DEF IsLongTime
<1>6. MakeAction(as[k]).thermalLvl = as[k].thermalLvl
  BY DEF MakeAction
<1> QED BY <1>4, <1>5, <1>6

\* The least level met: below all that were looked at, and one of them.
LEMMA LeastLevel ==
    ASSUME NEW as, NEW n \in Nat, DOMAIN as = 1 .. n, minThermalLvl \in Int,
           \A k \in 1 .. n : as[k].thermalLvl \in Int
    PROVE  /\ MinThermal(as) \in Int
           /\ minThermalLvl # INVALID_THERMAL_LVL =>
                 MinThermal(as) # INVALID_THERMAL_LVL /\ MinThermal(as) <= minThermalLvl
           /\ \A k \in Reached(as) : as[k].thermalLvl # INVALID_THERMAL_LVL =>
                 /\ MinThermal(as) # INVALID_THERMAL_LVL
                 /\ MinThermal(as) <= as[k].thermalLvl
           /\ MinThermal(as) # INVALID_THERMAL_LVL =>
                 \/ MinThermal(as) = minThermalLvl
                 \/ \E k \in Reached(as) : MinThermal(as) = as[k].thermalLvl
<1> DEFINE levels == {as[k].thermalLvl : k \in Reached(as)} \cup {minThermalLvl}
           valid == levels \ {INVALID_THERMAL_LVL}
           least == MinThermal(as)
<1>1. Reached(as) \subseteq 1 .. n
  BY DEF Reached
<1>2. least = IF valid = {} THEN INVALID_THERMAL_LVL ELSE LeastOf(valid)
  BY DEF MinThermal
<1>3. \A l \in valid : l # INVALID_THERMAL_LVL /\ l \in Int
                       /\ (l = minThermalLvl \/ \E k \in Reached(as) : l = as[k].thermalLvl)
  BY <1>1
<1>4. /\ minThermalLvl # INVALID_THERMAL_LVL => minThermalLvl \in valid
      /\ \A k \in Reached(as) : as[k].thermalLvl # INVALID_THERMAL_LVL =>
            as[k].thermalLvl \in valid
  OBVIOUS
<1>5. valid # {} => \E l \in valid : \A x \in valid : l <= x
  <2> SUFFICES ASSUME valid # {} PROVE \E l \in valid : \A x \in valid : l <= x
    OBVIOUS
  <2> DEFINE f == [k \in 1 .. n + 1 |-> IF k = n + 1 THEN minThermalLvl ELSE as[k].thermalLvl]
             K == {k \in 1 .. n + 1 : f[k] \in valid}
  <2>1. n + 1 \in Nat /\ \A k \in 1 .. n + 1 : f[k] \in Int
    <3>1. ASSUME NEW k \in 1 .. n + 1 PROVE k = n + 1 \/ k \in 1 .. n
      OBVIOUS
    <3>2. ASSUME NEW k \in 1 .. n + 1 PROVE f[k] \in Int
      <4>1. f[k] = IF k = n + 1 THEN minThermalLvl ELSE as[k].thermalLvl
        OBVIOUS
      <4> HIDE DEF f
      <4> QED BY <3>1, <4>1
    <3> HIDE DEF f, valid
    <3> QED BY <3>2
  <2>2. \A l \in valid : \E k \in K : f[k] = l
    <3> SUFFICES ASSUME NEW l \in valid PROVE \E k \in 1 .. n + 1 : f[k] = l
      OBVIOUS
    <3>1. CASE l = minThermalLvl
      <4>1. n + 1 \in 1 .. n + 1 /\ f[n + 1] = l
        BY <3>1
      <4> QED BY <4>1
    <3>2. CASE l # minThermalLvl
      <4>1. PICK k \in Reached(as) : l = as[k].thermalLvl
        BY <1>3, <3>2
      <4>2. k \in 1 .. n + 1 /\ k # n + 1
        <5>1. k \in 1 .. n
          BY <1>1, <4>1
        <5> HIDE DEF f, valid
        <5> QED BY <5>1
      <4>3. f[k] = l
        BY <4>1, <4>2
      <4> QED BY <4>2, <4>3
    <3> QED BY <3>1, <3>2
  <2>3. K \in SUBSET (1 .. n + 1) /\ \A k \in K : f[k] \in valid
    OBVIOUS
  <2> HIDE DEF f, K, valid
  <2>4. K # {}
    BY <2>2
  <2>5. PICK k \in K : \A x \in K : f[k] <= f[x]
    BY <2>1, <2>3, <2>4, LeastPlace
  <2> QED BY <2>2, <2>3, <2>5
<1> HIDE DEF valid
<1>6. valid # {} => least \in valid /\ \A x \in valid : least <= x
  BY <1>2, <1>5 DEF LeastOf
<1> HIDE DEF least
<1>7. valid = {} => least = INVALID_THERMAL_LVL
  BY <1>2
<1>8. least \in Int
  <2>1. INVALID_THERMAL_LVL \in Int
    BY DEF INVALID_THERMAL_LVL
  <2>2. CASE valid = {}
    BY <1>7, <2>1, <2>2
  <2>3. CASE valid # {}
    BY <1>3, <1>6, <2>3
  <2> QED BY <2>2, <2>3
<1>9. /\ minThermalLvl # INVALID_THERMAL_LVL =>
            least # INVALID_THERMAL_LVL /\ least <= minThermalLvl
      /\ \A k \in Reached(as) : as[k].thermalLvl # INVALID_THERMAL_LVL =>
            least # INVALID_THERMAL_LVL /\ least <= as[k].thermalLvl
  BY <1>3, <1>4, <1>6
<1>10. least # INVALID_THERMAL_LVL =>
          least = minThermalLvl \/ \E k \in Reached(as) : least = as[k].thermalLvl
  BY <1>3, <1>6, <1>7
<1> QED BY <1>8, <1>9, <1>10 DEF least

\* A command that is read agrees with its level, or the file is given up.
LEMMA CommandStep ==
    ASSUME ConfigInv, NEW e \in CmdElements, NEW m \in Mode, LoadCmdInfo(e, m)
    PROVE  NodesInv' /\ ActionsInv' /\ PlaceInv' /\ CheckedInv'
<1>1. block = "file" /\ phase \in Boosts /\ ~cameraFailed
  BY DEF LoadCmdInfo, Read, ConfigInv, PlaceInv, Boosts
<1>2. resourceNodeInfo' = resourceNodeInfo
  BY DEF LoadCmdInfo, resources
<1>3. /\ NodesInv'
      /\ CheckPairResIdValid' /\ CheckDefValid'
  BY <1>1, <1>2 DEF ConfigInv, NodesInv, CheckedInv, CheckPairResIdValid, CheckDefValid,
     Boosts
<1> DEFINE as == e.actions
           n == Len(as)
<1>4. /\ as \in Seq([children : Seq(Child), thermalLvl : Int])
      /\ n \in Nat /\ DOMAIN as = 1 .. n
      /\ \A k \in 1 .. n : as[k].thermalLvl \in Int /\ as[k].children \in Seq(Child)
  <2>1. e \in CmdElement
    BY ConfigAssumption
  <2>2. as \in Seq([children : Seq(Child), thermalLvl : Int])
    BY <2>1 DEF CmdElement
  <2> DEFINE R == [children : Seq(Child), thermalLvl : Int]
  <2>3. as \in Seq(R)
    BY <2>2
  <2> HIDE DEF as, R
  <2>4. n \in Nat /\ DOMAIN as = 1 .. n
    BY <2>3, LenProperties
  <2>5. ASSUME NEW k \in 1 .. n
        PROVE  as[k] \in [children : Seq(Child), thermalLvl : Int]
    <3>1. as[k] \in R
      BY <2>3, ElementOfSeq
    <3> QED BY <3>1 DEF R
  <2>6. ASSUME NEW k \in 1 .. n
        PROVE  as[k].thermalLvl \in Int /\ as[k].children \in Seq(Child)
    BY <2>5
  <2> QED BY <2>2, <2>4, <2>6
<1>5. minThermalLvl \in Int
  BY DEF ConfigInv, ActionsInv
<1>6. /\ MinThermal(as) \in Int
      /\ minThermalLvl # INVALID_THERMAL_LVL =>
            MinThermal(as) # INVALID_THERMAL_LVL /\ MinThermal(as) <= minThermalLvl
      /\ \A k \in Reached(as) : as[k].thermalLvl # INVALID_THERMAL_LVL =>
            /\ MinThermal(as) # INVALID_THERMAL_LVL
            /\ MinThermal(as) <= as[k].thermalLvl
      /\ MinThermal(as) # INVALID_THERMAL_LVL =>
            \/ MinThermal(as) = minThermalLvl
            \/ \E k \in Reached(as) : MinThermal(as) = as[k].thermalLvl
  <2> HIDE DEF as, n
  <2> QED BY <1>4, <1>5, LeastLevel
<1>7. minThermalLvl' = minThermalLvl \/ minThermalLvl' = MinThermal(as)
  BY DEF LoadCmdInfo
<1>8. /\ minThermalLvl' \in Int
      /\ \A l \in Int : l # INVALID_THERMAL_LVL /\ minThermalLvl # INVALID_THERMAL_LVL
                          /\ minThermalLvl <= l
                        => minThermalLvl' # INVALID_THERMAL_LVL /\ minThermalLvl' <= l
  <2> DEFINE new == MinThermal(as)
  <2>1. new \in Int /\ (minThermalLvl # INVALID_THERMAL_LVL =>
                           new # INVALID_THERMAL_LVL /\ new <= minThermalLvl)
    BY <1>6
  <2> HIDE DEF as, new
  <2>2. minThermalLvl' = minThermalLvl \/ minThermalLvl' = new
    BY <1>7 DEF new
  <2>3. minThermalLvl' \in Int /\ (minThermalLvl # INVALID_THERMAL_LVL =>
           minThermalLvl' # INVALID_THERMAL_LVL /\ minThermalLvl' <= minThermalLvl)
    BY <1>5, <2>1, <2>2
  <2>4. ASSUME NEW l \in Int, l # INVALID_THERMAL_LVL,
               minThermalLvl # INVALID_THERMAL_LVL, minThermalLvl <= l
        PROVE  minThermalLvl' # INVALID_THERMAL_LVL /\ minThermalLvl' <= l
    BY <1>5, <2>3, <2>4
  <2> QED BY <2>3, <2>4
\* What was good stays good.
<1>9. ASSUME NEW a, ActionGood(a) PROVE ActionGood(a)'
  BY <1>2, <1>8, <1>9 DEF ActionGood
<1>10. CASE UNCHANGED configPerfActionsInfo
  <2>1. AllLoaded' = AllLoaded
    BY <1>10 DEF AllLoaded, CommandsOf
  <2>2. ActionsInv'
    BY <1>8, <1>9, <2>1 DEF ConfigInv, ActionsInv
  <2>3. Fail \/ (Keep /\ minThermalLvl' = minThermalLvl)
    <3>1. CASE e.tags /\ e.id \in DOMAIN CommandsOf(m)
      BY <3>1 DEF LoadCmdInfo
    <3>2. CASE ~e.tags
      BY <3>2 DEF LoadCmdInfo
    <3>3. CASE /\ e.tags /\ e.id \notin DOMAIN CommandsOf(m)
               /\ ~ \A k \in DOMAIN e.actions : ActionParses(e.actions[k])
      BY <3>3 DEF LoadCmdInfo
    <3>4. CASE /\ e.tags /\ e.id \notin DOMAIN CommandsOf(m)
               /\ \A k \in DOMAIN e.actions : ActionParses(e.actions[k])
      <4>1. configPerfActionsInfo' = WithCommand(m, e.id, MakeActions(e, m))
        BY <3>4 DEF LoadCmdInfo
      <4> DEFINE a == MakeActions(e, m)
                 c == e.id
      <4> HIDE DEF a
      <4>2. m \in DOMAIN configPerfActionsInfo
        BY <1>10, <4>1 DEF WithCommand
      <4>3. configPerfActionsInfo[m] = Insert(CommandsOf(m), c, a)
        BY <1>10, <4>1, <4>2 DEF WithCommand, a
      <4> HIDE DEF c
      <4>4. c \in DOMAIN configPerfActionsInfo[m]
        BY <4>3 DEF Insert
      <4> QED BY <3>4, <4>2, <4>4 DEF CommandsOf, c
    <3> QED BY <3>1, <3>2, <3>3, <3>4
  <2>4. CASE Fail
    <3>1. /\ block' = "none"
          /\ phase = "boost" => phase' = "failed"
          /\ phase = "camera" => phase' = "complete" /\ cameraFailed'
          /\ cameraFailed' => phase' = "complete"
      BY <1>1, <2>4 DEF Fail, Boosts
    <3>2. phase = "boost" \/ phase = "camera"
      BY <1>1 DEF Boosts
    <3>3. PlaceInv'
      BY <3>1, <3>2 DEF PlaceInv
    <3>4. CheckedInv'
      BY <1>3, <3>1, <3>2 DEF CheckedInv
    <3> QED BY <1>3, <2>2, <3>3, <3>4
  <2>5. CASE Keep /\ minThermalLvl' = minThermalLvl
    <3>1. phase' = phase /\ block' = block /\ cameraFailed' = cameraFailed
      BY <2>5 DEF Keep
    <3>2. PlaceInv'
      BY <1>1, <2>1, <3>1 DEF ConfigInv, PlaceInv
    <3>3. LevelMet' <=> LevelMet
      BY <2>1, <2>5 DEF LevelMet
    <3>4. CheckedInv'
      BY <1>1, <1>3, <2>5, <3>1, <3>3 DEF ConfigInv, CheckedInv
    <3> QED BY <1>3, <2>2, <3>2, <3>4
  <2> QED BY <2>3, <2>4, <2>5
<1>11. CASE /\ e.id \notin DOMAIN CommandsOf(m)
            /\ configPerfActionsInfo' = WithCommand(m, e.id, MakeActions(e, m))
            /\ minThermalLvl' = MinThermal(e.actions)
            /\ \A k \in DOMAIN e.actions : ActionParses(e.actions[k])
            /\ Keep
  <2>0. PICK a : a = MakeActions(e, m)
    OBVIOUS
  <2>1. AllLoaded' = AllLoaded \cup {a}
    BY <1>11, <2>0, CommandAdded
  <2>2. /\ a.actionList = [k \in DOMAIN as |-> MakeAction(as[k])]
        /\ a.isLongTimePerf = IsLongTime(as)
    BY <2>0 DEF MakeActions
  <2>3. Reached(as) = 1 .. n
    <3>1. \A k \in DOMAIN as : ActionParses(as[k])
      BY <1>11
    <3> HIDE DEF as, n
    <3>2. ASSUME NEW k \in 1 .. n, NEW j \in 1 .. k - 1 PROVE j \in 1 .. n
      BY <1>4
    <3>3. \A k \in 1 .. n : \A j \in 1 .. k - 1 : ActionParses(as[j])
      BY <1>4, <3>1, <3>2
    <3> QED BY <1>4, <3>3 DEF Reached
  <2>4. ASSUME NEW k \in 1 .. n
        PROVE  /\ a.actionList[k] = MakeAction(as[k])
               /\ \A v \in a.actionList[k].variable : v.res \in DOMAIN resourceNodeInfo
               /\ a.actionList[k].duration = 0 => a.isLongTimePerf
               /\ a.actionList[k].thermalLvl = as[k].thermalLvl
    <3>1. a.actionList[k] = MakeAction(as[k])
      BY <1>4, <2>2
    <3>2. /\ NamesResolve /\ k \in DOMAIN as /\ as[k].children \in Seq(Child)
          /\ ActionParses(as[k])
      BY <1>4, <1>11 DEF ConfigInv
    <3> HIDE DEF as, n
    <3>3. /\ \A v \in MakeAction(as[k]).variable : v.res \in DOMAIN resourceNodeInfo
          /\ MakeAction(as[k]).duration = 0 => IsLongTime(as)
          /\ MakeAction(as[k]).thermalLvl = as[k].thermalLvl
      BY <3>2, ActionMade
    <3> QED BY <2>2, <3>1, <3>3
  <2>5. DOMAIN a.actionList = 1 .. n
    BY <1>4, <2>2
  <2> HIDE DEF as, n
  <2>6. minThermalLvl' = MinThermal(as)
    BY <1>11 DEF as
  <2>7. ActionGood(a)'
    <3> SUFFICES ASSUME NEW k \in 1 .. n
                 PROVE  /\ \A v \in a.actionList[k].variable :
                              v.res \in DOMAIN resourceNodeInfo'
                        /\ a.actionList[k].duration = 0 => a.isLongTimePerf
                        /\ a.actionList[k].thermalLvl \in Int
                        /\ a.actionList[k].thermalLvl # INVALID_THERMAL_LVL =>
                              /\ minThermalLvl' # INVALID_THERMAL_LVL
                              /\ minThermalLvl' <= a.actionList[k].thermalLvl
      BY <2>5 DEF ActionGood
    <3>1. as[k].thermalLvl \in Int
      BY <1>4
    <3>2. as[k].thermalLvl # INVALID_THERMAL_LVL =>
             /\ minThermalLvl' # INVALID_THERMAL_LVL
             /\ minThermalLvl' <= as[k].thermalLvl
      BY <1>6, <2>3, <2>6
    <3> QED BY <1>2, <2>4, <3>1, <3>2
  <2>8. ActionsInv'
    BY <1>8, <1>9, <2>1, <2>7 DEF ConfigInv, ActionsInv
  <2>9. phase' = phase /\ block' = block /\ cameraFailed' = cameraFailed
    BY <1>11 DEF Keep
  <2>10. PlaceInv'
    BY <1>1, <2>9 DEF ConfigInv, PlaceInv, Boosts
  <2>11. phase # "failed" /\ minThermalLvl' # INVALID_THERMAL_LVL => LevelMet'
    <3> SUFFICES ASSUME phase # "failed", minThermalLvl' # INVALID_THERMAL_LVL
                 PROVE  LevelMet'
      OBVIOUS
    <3>1. CASE minThermalLvl' = minThermalLvl
      BY <1>1, <2>1, <3>1 DEF ConfigInv, CheckedInv, LevelMet
    <3>2. CASE \E k \in 1 .. n : minThermalLvl' = as[k].thermalLvl
      <4>1. PICK k \in 1 .. n : minThermalLvl' = as[k].thermalLvl
        BY <3>2
      <4>2. k \in DOMAIN a.actionList /\ a.actionList[k].thermalLvl = minThermalLvl'
        BY <2>4, <2>5, <4>1
      <4> QED BY <2>1, <4>2 DEF LevelMet
    <3> QED BY <1>6, <2>3, <2>6, <3>1, <3>2
  <2>12. CheckedInv'
    BY <1>1, <1>3, <2>9, <2>11 DEF CheckedInv
  <2> QED BY <1>3, <2>8, <2>10, <2>12
<1> QED BY <1>10, <1>11, LoadCmdInfoAdds

LEMMA ConfigInvStep ==
    ASSUME ConfigInv, [Next]_vars
    PROVE  ConfigInv'
<1>1. NamesResolve'
  BY NamesStep DEF ConfigInv
<1> SUFFICES NodesInv' /\ ActionsInv' /\ PlaceInv' /\ CheckedInv'
  BY <1>1 DEF ConfigInv
<1>2. CASE UNCHANGED vars
  <2>1. UNCHANGED <<resourceNodeInfo, configPerfActionsInfo, minThermalLvl, phase, block,
                    cameraFailed>>
    BY <1>2 DEF vars, place, resources
  <2> QED BY <2>1, SameMaps DEF ConfigInv, PlaceInv, CheckedInv
<1>3. CASE \/ UnreadableFile \/ Open \/ CloseBlock \/ CloseFile \/ NextKind
           \/ \E e : LoadSceneResource(e) \/ LoadInterAction(e)
  BY <1>3, PlaceSteps
<1>4. CASE \/ \E e \in ResElements : LoadFreqResource(e)
           \/ \E e \in GovElements : LoadGovResource(e)
  BY <1>4, ResourceSteps
<1>5. CASE CompleteEvent
  BY <1>5, CompleteStep
<1>6. CASE \E e \in CmdElements, m \in Mode : LoadCmdInfo(e, m)
  BY <1>6, CommandStep
<1> QED BY <1>2, <1>3, <1>4, <1>5, <1>6 DEF Next

LEMMA ConfigInvHolds == Spec => []ConfigInv
<1>1. ASSUME Init PROVE ConfigInv
  <2>1. AllLoaded = {}
    BY <1>1 DEF Init, AllLoaded
  <2>2. NamesResolve /\ NodesInv /\ CheckPairResIdValid /\ CheckDefValid
    BY <1>1 DEF Init, NamesResolve, NodesInv, CheckPairResIdValid, CheckDefValid
  <2>3. ActionsInv /\ ActionsAllValid
    BY <1>1, <2>1 DEF Init, ActionsInv, ActionsAllValid, INVALID_THERMAL_LVL
  <2>4. PlaceInv /\ CheckedInv
    BY <1>1, <2>1, <2>2, <2>3 DEF Init, PlaceInv, CheckedInv
  <2> QED BY <2>2, <2>3, <2>4 DEF ConfigInv
<1>2. ConfigInv /\ [Next]_vars => ConfigInv'
  BY ConfigInvStep
<1> QED BY <1>1, <1>2, PTL DEF Spec

\* When Init has returned true, pairs and defaults are as they should be, and the
\* actions of all modes ask for what is loaded and available.
THEOREM ReadyConfigIsValid == Spec => []ReadyConfigValid
<1>1. ASSUME ConfigInv PROVE ReadyConfigValid
  <2> SUFFICES ASSUME phase = "ready"
               PROVE  /\ \A n \in Range(resourceNodeInfo) :
                            /\ n.pair \in DOMAIN resourceNodeInfo \cup {NoRes}
                            /\ n.available = {} \/ n.def \in n.available
                      /\ \A a \in AllLoaded : \A x \in Range(a.actionList) :
                            \A v \in x.variable :
                                /\ v.res \in DOMAIN resourceNodeInfo
                                /\ cameraFailed \/ ValueValid(v)
    BY DEF ReadyConfigValid
  <2>1. /\ CheckPairResIdValid /\ CheckDefValid
        /\ ~cameraFailed => ActionsAllValid
    BY <1>1 DEF ConfigInv, PlaceInv, CheckedInv, Boosts
  <2>2. ASSUME NEW n \in Range(resourceNodeInfo)
        PROVE  /\ n.pair \in DOMAIN resourceNodeInfo \cup {NoRes}
               /\ n.available = {} \/ n.def \in n.available
    <3>1. PICK r \in DOMAIN resourceNodeInfo : n = resourceNodeInfo[r]
      BY DEF Range
    <3>2. n.isGov => n.pair = NoRes
      BY <1>1, <3>1 DEF ConfigInv, NodesInv
    <3>3. ~n.isGov /\ n.pair # NoRes => n.pair \in DOMAIN resourceNodeInfo
      BY <2>1, <3>1 DEF CheckPairResIdValid
    <3>4. n.available = {} \/ n.def \in n.available
      BY <2>1, <3>1 DEF CheckDefValid
    <3> QED BY <3>2, <3>3, <3>4
  <2>3. ASSUME NEW a \in AllLoaded, NEW x \in Range(a.actionList), NEW v \in x.variable
        PROVE  /\ v.res \in DOMAIN resourceNodeInfo
               /\ cameraFailed \/ ValueValid(v)
    <3>1. PICK k \in DOMAIN a.actionList : x = a.actionList[k]
      BY DEF Range
    <3>2. v.res \in DOMAIN resourceNodeInfo
      BY <1>1, <3>1 DEF ConfigInv, ActionsInv, ActionGood
    <3>3. ~cameraFailed => ValueValid(v)
      BY <2>1, <3>1 DEF ActionsAllValid, ActionsValid
    <3> QED BY <3>2, <3>3
  <2> QED BY <2>2, <2>3
<1> QED BY <1>1, ConfigInvHolds, PTL

\* A command with an action without end is marked as long-time, and minThermalLvl
\* is the least thermal level of the actions that were loaded.
THEOREM DerivedMatches == Spec => []DerivedMatchesLoaded
<1>1. ASSUME ConfigInv PROVE DerivedMatchesLoaded
  <2> DEFINE levels == {x.thermalLvl : x \in UNION {Range(a.actionList) : a \in AllLoaded}}
                           \ {INVALID_THERMAL_LVL}
  <2>1. ASSUME NEW a \in AllLoaded, NEW x \in Range(a.actionList), x.duration = 0
        PROVE  a.isLongTimePerf
    <3>1. PICK k \in DOMAIN a.actionList : x = a.actionList[k]
      BY <2>1 DEF Range
    <3> QED BY <1>1, <2>1, <3>1 DEF ConfigInv, ActionsInv, ActionGood
  <2>2. ASSUME NEW l \in levels
        PROVE  minThermalLvl # INVALID_THERMAL_LVL /\ minThermalLvl <= l
    <3>1. PICK x \in UNION {Range(a.actionList) : a \in AllLoaded} : l = x.thermalLvl
      BY <2>2
    <3>2. PICK a \in AllLoaded : x \in Range(a.actionList)
      BY <3>1
    <3>3. PICK k \in DOMAIN a.actionList : x = a.actionList[k]
      BY <3>2 DEF Range
    <3> QED BY <1>1, <2>2, <3>1, <3>2, <3>3 DEF ConfigInv, ActionsInv, ActionGood
  <2>3. ASSUME phase = "ready", ~cameraFailed, minThermalLvl # INVALID_THERMAL_LVL
        PROVE  minThermalLvl \in levels
    <3>1. LevelMet
      BY <1>1, <2>3 DEF ConfigInv, CheckedInv
    <3>2. PICK a \in AllLoaded : \E k \in DOMAIN a.actionList :
                                     a.actionList[k].thermalLvl = minThermalLvl
      BY <3>1 DEF LevelMet
    <3>3. PICK k \in DOMAIN a.actionList : a.actionList[k].thermalLvl = minThermalLvl
      BY <3>2
    <3> DEFINE x == a.actionList[k]
    <3>4. x \in Range(a.actionList)
      BY <3>3 DEF Range
    <3>5. x \in UNION {Range(b.actionList) : b \in AllLoaded} /\ x.thermalLvl = minThermalLvl
      BY <3>2, <3>3, <3>4
    <3> QED BY <2>3, <3>5
  <2> QED BY <2>1, <2>2, <2>3 DEF DerivedMatchesLoaded
<1> QED BY <1>1, ConfigInvHolds, PTL

-----------------------------------------------------------------------------
(* Types *)

\* Of k places of 1 .. n or more, one has k of them up to itself.
LEMMA NthPlace ==
    ASSUME NEW n \in Nat, NEW F \in SUBSET (1 .. n), NEW k \in 1 .. Cardinality(F)
    PROVE  \E i \in F : Cardinality(F \cap (1 .. i)) = k
<1> DEFINE C(i) == Cardinality(F \cap (1 .. i))
           H == {i \in 1 .. n : k <= C(i)}
<1>1. IsFiniteSet(F)
  <2>1. IsFiniteSet(1 .. n)
    BY FS_Interval
  <2> QED BY <2>1, FS_Subset
<1>2. \A i \in Int : IsFiniteSet(F \cap (1 .. i)) /\ C(i) \in Nat
  <2> TAKE i \in Int
  <2>1. F \cap (1 .. i) \in SUBSET F
    OBVIOUS
  <2>2. IsFiniteSet(F \cap (1 .. i))
    BY <1>1, <2>1, FS_Subset
  <2> QED BY <2>2, FS_CardinalityType
<1>3. Cardinality(F) \in Nat /\ k \in Int /\ 1 <= k /\ k <= Cardinality(F)
  BY <1>1, FS_CardinalityType
<1>4. n \in H
  <2>1. F \cap (1 .. n) = F
    OBVIOUS
  <2>2. n # 0
    <3>1. ASSUME n = 0 PROVE FALSE
      <4>1. F = {}
        BY <3>1
      <4> QED BY <1>3, <4>1, FS_EmptySet
    <3> QED BY <3>1
  <2>3. n \in 1 .. n
    BY <2>2
  <2> QED BY <1>3, <2>1, <2>3
<1>5. H \in SUBSET (1 .. n) /\ H # {}
  BY <1>4
<1>6. PICK i \in H : \A j \in H : i <= j
  <2> DEFINE f == [j \in 1 .. n |-> j]
  <2>1. \A j \in 1 .. n : f[j] \in Int /\ f[j] = j
    OBVIOUS
  <2> HIDE DEF f, H
  <2>2. PICK i \in H : \A j \in H : f[i] <= f[j]
    BY <1>5, <2>1, LeastPlace
  <2> QED BY <1>5, <2>1, <2>2
<1>7. i \in 1 .. n /\ i \in Int /\ i - 1 \in Int /\ k <= C(i)
  BY <1>6
<1>8. C(i - 1) < k
  <2>1. CASE i = 1
    <3>1. F \cap (1 .. i - 1) = {}
      BY <2>1
    <3>2. C(i - 1) = 0
      BY <3>1, FS_EmptySet
    <3> HIDE DEF C
    <3> QED BY <1>3, <3>2
  <2>2. CASE i # 1
    <3>1. i - 1 \in 1 .. n /\ ~ (i <= i - 1)
      BY <1>7, <2>2
    <3>2. i - 1 \notin H
      BY <1>6, <3>1
    <3>3. ~ (k <= C(i - 1))
      BY <3>1, <3>2
    <3>4. C(i - 1) \in Nat
      BY <1>2, <1>7
    <3> HIDE DEF C
    <3> QED BY <1>3, <3>3, <3>4
  <2> QED BY <2>1, <2>2
<1>9. i \in F
  <2>1. ASSUME i \notin F PROVE FALSE
    <3>1. F \cap (1 .. i) = F \cap (1 .. i - 1)
      <4>1. ASSUME NEW x \in F PROVE x \in 1 .. i <=> x \in 1 .. i - 1
        <5>1. x \in Int /\ x # i
          BY <2>1
        <5> QED BY <1>7, <5>1
      <4> QED BY <4>1
    <3>2. C(i) = C(i - 1) /\ C(i) \in Nat
      BY <1>2, <1>7, <3>1
    <3> HIDE DEF C
    <3> QED BY <1>3, <1>7, <1>8, <3>2
  <2> QED BY <2>1
<1>10. C(i) = C(i - 1) + 1
  <2>1. F \cap (1 .. i) = (F \cap (1 .. i - 1)) \cup {i}
    <3>1. ASSUME NEW x \in F PROVE x \in 1 .. i <=> x \in 1 .. i - 1 \/ x = i
      <4>1. x \in Int
        OBVIOUS
      <4> QED BY <1>7, <4>1
    <3> QED BY <1>9, <3>1
  <2>2. i \notin F \cap (1 .. i - 1)
    BY <1>7
  <2>3. IsFiniteSet(F \cap (1 .. i - 1))
    BY <1>2, <1>7
  <2> QED BY <2>1, <2>2, <2>3, FS_AddElement
<1>11. C(i) = k
  <2>1. C(i - 1) \in Nat /\ C(i) \in Nat
    BY <1>2, <1>7
  <2> HIDE DEF C
  <2> QED BY <1>3, <1>7, <1>8, <1>10, <2>1
<1> QED BY <1>9, <1>11

ModePair == [mode : Mode, cmdId : CmdId]

\* ParseModeCmd leaves one command for each mode, whatever it reads.
LEMMA ModesParsed ==
    ASSUME NEW modes \in Seq(ModePair)
    PROVE  /\ ParseModeCmd(modes) \in Seq(ModePair)
           /\ LET mm == ParseModeCmd(modes)
              IN  IsInjective([k \in DOMAIN mm |-> mm[k].mode])
<1> DEFINE n == Len(modes)
           F == FirstNamed(modes)
           c == Cardinality(F)
           at(k) == NthNamed(modes, k)
           mm == ParseModeCmd(modes)
<1>1. n \in Nat /\ DOMAIN modes = 1 .. n /\ \A i \in 1 .. n : modes[i] \in ModePair
  OBVIOUS
<1>2. F \in SUBSET (1 .. n)
  BY <1>1 DEF FirstNamed
<1>3. c \in Nat
  <2> HIDE DEF F, n
  <2>1. IsFiniteSet(1 .. n)
    BY <1>1, FS_Interval
  <2>2. IsFiniteSet(F)
    BY <1>2, <2>1, FS_Subset
  <2> QED BY <2>2, FS_CardinalityType
<1>4. ASSUME NEW k \in 1 .. c
      PROVE  at(k) \in F /\ Cardinality(F \cap (1 .. at(k))) = k
  <2> HIDE DEF F, n
  <2>1. \E i \in F : Cardinality(F \cap (1 .. i)) = k
    BY <1>1, <1>2, NthPlace
  <2> QED BY <2>1 DEF NthNamed, F
<1>5. ASSUME NEW i \in F, NEW j \in F, modes[i].mode = modes[j].mode PROVE i = j
  <2>1. i \in 1 .. n /\ j \in 1 .. n
    BY <1>2
  <2>2. /\ \A x \in 1 .. i - 1 : modes[x].mode # modes[i].mode
        /\ \A x \in 1 .. j - 1 : modes[x].mode # modes[j].mode
    BY DEF FirstNamed
  <2>3. ~ (j \in 1 .. i - 1) /\ ~ (i \in 1 .. j - 1)
    BY <1>5, <2>2
  <2> QED BY <1>1, <2>1, <2>3
<1>6. ASSUME NEW i \in 1 .. n PROVE LastCmdId(modes, modes[i].mode) \in CmdId
  <2> DEFINE K == {j \in DOMAIN modes : modes[j].mode = modes[i].mode}
  <2>1. K \in SUBSET (1 .. n) /\ i \in K
    BY <1>1
  <2>2. Max(K) \in K
    <3> HIDE DEF K, n
    <3> QED BY <1>1, <2>1, GreatestPlace
  <2>3. modes[Max(K)] \in ModePair
    <3> HIDE DEF n
    <3> QED BY <1>1, <2>1, <2>2
  <2> QED BY <2>3 DEF LastCmdId, ModePair
<1>7. /\ DOMAIN mm = 1 .. c
      /\ \A k \in 1 .. c : mm[k] = [mode |-> modes[at(k)].mode,
                                   cmdId |-> LastCmdId(modes, modes[at(k)].mode)]
  BY DEF ParseModeCmd
<1>8. \A k \in 1 .. c : mm[k] \in ModePair /\ mm[k].mode = modes[at(k)].mode
  <2> HIDE DEF mm, F, n
  <2> TAKE k \in 1 .. c
  <2>1. at(k) \in 1 .. n
    BY <1>2, <1>4
  <2>2. modes[at(k)].mode \in Mode /\ LastCmdId(modes, modes[at(k)].mode) \in CmdId
    BY <1>1, <1>6, <2>1 DEF ModePair
  <2> QED BY <1>7, <2>2 DEF ModePair
<1>9. mm \in Seq(ModePair)
  <2>1. mm = [k \in 1 .. c |-> mm[k]]
    BY DEF ParseModeCmd
  <2> HIDE DEF mm, F
  <2> QED BY <1>3, <1>8, <2>1
<1>10. \A k, l \in 1 .. c : mm[k].mode = mm[l].mode => k = l
  <2> HIDE DEF mm, F, n
  <2> TAKE k, l \in 1 .. c
  <2>1. at(k) \in F /\ at(l) \in F
    BY <1>4
  <2>2. mm[k].mode = mm[l].mode => at(k) = at(l)
    BY <1>5, <1>8, <2>1
  <2>3. at(k) = at(l) => k = l
    BY <1>4
  <2> QED BY <2>2, <2>3
<1>11. IsInjective([k \in DOMAIN mm |-> mm[k].mode])
  <2> HIDE DEF mm, F
  <2> DEFINE g == [k \in 1 .. c |-> mm[k].mode]
  <2>1. \A k, l \in DOMAIN g : g[k] = g[l] => k = l
    BY <1>10
  <2>2. [k \in DOMAIN mm |-> mm[k].mode] = g
    BY <1>7
  <2> HIDE DEF g
  <2> QED BY <2>1, <2>2 DEF IsInjective
<1> HIDE DEF F, n
<1> QED BY <1>9, <1>11

\* An <action>.
ActionElement == [children : Seq(Child), thermalLvl : Int]

\* What an action becomes is made of loaded resources and configured values.
LEMMA ActionTyped ==
    ASSUME NamesResolve, DOMAIN resourceNodeInfo \subseteq ResId,
           NEW a \in ActionElement, ActionParses(a)
    PROVE  MakeAction(a) \in Action
<1> DEFINE cs == a.children
           durations == {j \in DOMAIN cs : IsDuration(cs[j])}
<1>1. cs \in Seq(Child) /\ a.thermalLvl \in Int
  BY DEF ActionElement
<1>2. \A j \in DOMAIN cs : cs[j] \in Child /\ cs[j] \in Range(cs)
  BY <1>1 DEF Range
<1>3. \A c \in Child : IF IsDuration(c) THEN c.duration \in Int ELSE c.value \in Value
  BY DEF Child, IsDuration
<1>4. ASSUME NEW j \in DOMAIN cs \ durations
      PROVE  [res |-> g_resStrToIdInfo[cs[j].name], value |-> cs[j].value]
                 \in [res : ResId, value : Value]
  <2>1. Parses(cs[j]) /\ ~IsDuration(cs[j])
    BY <1>2, <1>4 DEF ActionParses
  <2>2. g_resStrToIdInfo[cs[j].name] \in ResId
    BY <2>1 DEF Parses, NamesResolve
  <2>3. cs[j].value \in Value
    BY <1>2, <1>3, <2>1
  <2> HIDE DEF cs
  <2> QED BY <2>2, <2>3
<1> DEFINE vs == {[res |-> g_resStrToIdInfo[cs[j].name], value |-> cs[j].value] :
                      j \in DOMAIN cs \ durations}
           d == IF durations = {} THEN INVALID_DURATION ELSE cs[Max(durations)].duration
<1>5. vs \in SUBSET [res : ResId, value : Value]
  <2> HIDE DEF durations, cs
  <2> QED BY <1>4
<1>6. d \in Int
  <2>1. CASE durations = {}
    BY <2>1 DEF INVALID_DURATION
  <2>2. CASE durations # {}
    <3>1. Max(durations) \in durations
      BY <1>1, <2>2, LastDuration
    <3>2. cs[Max(durations)].duration \in Int
      BY <1>2, <1>3, <3>1
    <3> HIDE DEF durations, cs
    <3> QED BY <2>2, <3>2
  <2> QED BY <2>1, <2>2
<1>7. MakeAction(a) = [variable |-> vs, duration |-> d, thermalLvl |-> a.thermalLvl]
  BY DEF MakeAction
<1> HIDE DEF vs, d
<1> QED BY <1>1, <1>5, <1>6, <1>7 DEF Action

LEMMA ListTyped ==
    ASSUME NamesResolve, DOMAIN resourceNodeInfo \subseteq ResId,
           NEW as \in Seq(ActionElement),
           \A k \in DOMAIN as : ActionParses(as[k])
    PROVE  [k \in DOMAIN as |-> MakeAction(as[k])] \in Seq(Action)
<1> DEFINE n == Len(as)
<1>1. n \in Nat /\ DOMAIN as = 1 .. n
  BY LenProperties
<1>2. ASSUME NEW k \in DOMAIN as PROVE MakeAction(as[k]) \in Action
  <2>1. as[k] \in ActionElement
    BY <1>1, ElementOfSeq
  <2> QED BY <2>1, ActionTyped
<1> HIDE DEF n
<1>3. [k \in DOMAIN as |-> MakeAction(as[k])] \in [1 .. n -> Action]
  BY <1>1, <1>2
<1>4. [k \in DOMAIN as |-> MakeAction(as[k])] \in UNION {[1 .. i -> Action] : i \in Nat}
  BY <1>1, <1>3
<1> QED BY <1>4, SeqDef

OneCommandPerMode(a) == IsInjective([k \in DOMAIN a.modeMap |-> a.modeMap[k].mode])

LEMMA CommandTyped ==
    ASSUME NamesResolve, DOMAIN resourceNodeInfo \subseteq ResId,
           NEW e \in CmdElement, NEW m, \A k \in DOMAIN e.actions : ActionParses(e.actions[k])
    PROVE  MakeActions(e, m) \in Actions /\ OneCommandPerMode(MakeActions(e, m))
<1> DEFINE as == e.actions
           list == [k \in DOMAIN as |-> MakeAction(as[k])]
           mm == IF m = DEFAULT_CONFIG_MODE THEN ParseModeCmd(e.modes) ELSE <<>>
<1>9. \A k \in DOMAIN as : ActionParses(as[k])
  OBVIOUS
<1>1. /\ as \in Seq(ActionElement)
      /\ e.modes \in Seq(ModePair) /\ e.interaction \in BOOLEAN
  BY DEF CmdElement, ModePair, ActionElement
<1>2. list \in Seq(Action)
  <2> HIDE DEF as
  <2> QED BY <1>1, <1>9, ListTyped
<1>3. mm \in Seq(ModePair) /\ IsInjective([k \in DOMAIN mm |-> mm[k].mode])
  <2>1. CASE m = DEFAULT_CONFIG_MODE
    <3>1. mm = ParseModeCmd(e.modes)
      BY <2>1
    <3> HIDE DEF mm
    <3> QED BY <1>1, <3>1, ModesParsed
  <2>2. CASE m # DEFAULT_CONFIG_MODE
    <3>1. mm = <<>>
      BY <2>2
    <3> HIDE DEF mm
    <3>2. DOMAIN mm = {} /\ mm \in Seq(ModePair)
      BY <3>1
    <3> QED BY <3>2 DEF IsInjective
  <2> QED BY <2>1, <2>2
<1>4. IsLongTime(as) \in BOOLEAN
  BY DEF IsLongTime
<1>5. MakeActions(e, m) = [actionList |-> list, modeMap |-> mm,
                           isLongTimePerf |-> IsLongTime(as), interaction |-> e.interaction]
  BY DEF MakeActions
<1> DEFINE long == IsLongTime(as)
<1>8. long \in BOOLEAN
  BY <1>4
<1> HIDE DEF list, mm, long
<1>6. MakeActions(e, m) \in Actions
  <2>1. MakeActions(e, m) = [actionList |-> list, modeMap |-> mm,
                             isLongTimePerf |-> long, interaction |-> e.interaction]
    BY <1>5 DEF long
  <2>2. mm \in Seq([mode : Mode, cmdId : CmdId]) /\ e.interaction \in BOOLEAN
    BY <1>1, <1>3 DEF ModePair
  <2> HIDE DEF as
  <2> QED BY <1>2, <1>8, <2>1, <2>2 DEF Actions
<1>7. MakeActions(e, m).modeMap = mm
  BY <1>5
<1> QED BY <1>3, <1>6, <1>7 DEF OneCommandPerMode

\* The commands that are kept, of all modes.
CommandsTyped ==
    /\ DOMAIN configPerfActionsInfo \subseteq Mode
    /\ \A m \in DOMAIN configPerfActionsInfo : DOMAIN CommandsOf(m) \subseteq CmdId
    /\ \A a \in AllLoaded : a \in Actions /\ OneCommandPerMode(a)

LEMMA CommandAddedTyped ==
    ASSUME CommandsTyped, NEW m \in Mode, NEW c \in CmdId, NEW a \in Actions,
           OneCommandPerMode(a), c \notin DOMAIN CommandsOf(m),
           configPerfActionsInfo' = WithCommand(m, c, a)
    PROVE  CommandsTyped'
<1>1. AllLoaded' = AllLoaded \cup {a}
  BY CommandAdded
<1>2. DOMAIN configPerfActionsInfo' = DOMAIN configPerfActionsInfo \cup {m}
  BY DEF WithCommand
<1>3. ASSUME NEW x \in DOMAIN configPerfActionsInfo' PROVE DOMAIN CommandsOf(x)' \subseteq CmdId
  <2>1. CommandsOf(x)' = configPerfActionsInfo'[x]
    BY <1>3 DEF CommandsOf
  <2>2. CASE x # m
    <3>1. configPerfActionsInfo'[x] = CommandsOf(x) /\ x \in DOMAIN configPerfActionsInfo
      BY <1>2, <1>3, <2>2 DEF WithCommand, CommandsOf
    <3> QED BY <2>1, <3>1 DEF CommandsTyped
  <2>3. CASE x = m
    <3>1. configPerfActionsInfo'[x] = Insert(CommandsOf(m), c, a)
      BY <1>2, <1>3, <2>3 DEF WithCommand
    <3>2. DOMAIN CommandsOf(m) \subseteq CmdId
      <4>1. CASE m \in DOMAIN configPerfActionsInfo
        BY <4>1 DEF CommandsTyped
      <4>2. CASE m \notin DOMAIN configPerfActionsInfo
        BY <4>2 DEF CommandsOf
      <4> QED BY <4>1, <4>2
    <3>3. DOMAIN configPerfActionsInfo'[x] = DOMAIN CommandsOf(m) \cup {c}
      BY <3>1, InsertDomain
    <3> QED BY <2>1, <3>2, <3>3
  <2> QED BY <2>2, <2>3
<1> QED BY <1>1, <1>2, <1>3 DEF CommandsTyped

LEMMA CompletedTyped ==
    ASSUME CommandsTyped, CompleteEvent PROVE CommandsTyped'
<1> DEFINE D == DEFAULT_CONFIG_MODE
           one == CopyEvent(CommandsOf(D), Copies[1][1], Copies[1][2])
           both == CopyEvent(one, Copies[2][1], Copies[2][2])
<1>1. D \in Mode /\ Copies[1][2] \in CmdId /\ Copies[2][2] \in CmdId
  BY ConfigAssumption
<1>2. DOMAIN CommandsOf(D) \subseteq CmdId
  BY DEF CommandsTyped, CommandsOf
<1>3. \A cmds, old, new : DOMAIN CopyEvent(cmds, old, new) \subseteq DOMAIN cmds \cup {new}
  BY InsertDomain DEF CopyEvent
<1>4. DOMAIN both \subseteq CmdId
  <2>1. DOMAIN one \subseteq CmdId
    BY <1>1, <1>2, <1>3
  <2> HIDE DEF one
  <2> QED BY <1>1, <1>3, <2>1
<1>5. configPerfActionsInfo' =
          [m \in DOMAIN configPerfActionsInfo \cup {D} |->
              IF m = D THEN both ELSE configPerfActionsInfo[m]]
  BY DEF CompleteEvent
<1>6. DOMAIN configPerfActionsInfo' \subseteq Mode
  <2> HIDE DEF both, D
  <2> QED BY <1>1, <1>5 DEF CommandsTyped
<1>7. ASSUME NEW m \in DOMAIN configPerfActionsInfo'
      PROVE  DOMAIN CommandsOf(m)' \subseteq CmdId
  <2> HIDE DEF both, D
  <2>1. CommandsOf(m)' = configPerfActionsInfo'[m]
    BY <1>7 DEF CommandsOf
  <2>2. CASE m = D
    BY <1>4, <1>5, <1>7, <2>1, <2>2
  <2>3. CASE m # D
    <3>1. configPerfActionsInfo'[m] = CommandsOf(m) /\ m \in DOMAIN configPerfActionsInfo
      BY <1>5, <1>7, <2>3 DEF CommandsOf
    <3> QED BY <2>1, <3>1 DEF CommandsTyped
  <2> QED BY <2>2, <2>3
<1>8. AllLoaded' = AllLoaded
  BY CompletedKeeps
<1> QED BY <1>6, <1>7, <1>8 DEF CommandsTyped

LEMMA CommandsTypedStep ==
    ASSUME ConfigInv, DOMAIN resourceNodeInfo \subseteq ResId, CommandsTyped, [Next]_vars
    PROVE  CommandsTyped'
<1>1. CASE UNCHANGED configPerfActionsInfo
  <2>1. AllLoaded' = AllLoaded /\ \A m : CommandsOf(m)' = CommandsOf(m)
    BY <1>1 DEF AllLoaded, CommandsOf
  <2> QED BY <1>1, <2>1 DEF CommandsTyped
<1>2. CASE CompleteEvent
  BY <1>2, CompletedTyped
<1>3. ASSUME NEW e \in CmdElements, NEW m \in Mode, LoadCmdInfo(e, m),
             ~ UNCHANGED configPerfActionsInfo
      PROVE  CommandsTyped'
  <2>1. e \in CmdElement /\ e.id \in CmdId
    BY ConfigAssumption DEF CmdElement
  <2>2. /\ e.id \notin DOMAIN CommandsOf(m)
        /\ configPerfActionsInfo' = WithCommand(m, e.id, MakeActions(e, m))
        /\ \A k \in DOMAIN e.actions : ActionParses(e.actions[k])
    BY <1>3, LoadCmdInfoAdds
  <2>3. MakeActions(e, m) \in Actions /\ OneCommandPerMode(MakeActions(e, m))
    BY <2>1, <2>2, CommandTyped DEF ConfigInv
  <2> QED BY <2>1, <2>2, <2>3, CommandAddedTyped
<1>4. CASE UNCHANGED vars
  BY <1>1, <1>4 DEF vars
<1> QED BY <1>1, <1>2, <1>3, <1>4, OthersKeepCommands

\* The resources that are kept, their names, and how much is read.
ResourcesTyped ==
    /\ elements \in Nat /\ cameraFailed \in BOOLEAN
    /\ DOMAIN resourceNodeInfo \subseteq ResId
    /\ \A r \in DOMAIN resourceNodeInfo :
          resourceNodeInfo[r] \in ResourceNode /\ resourceNodeInfo[r].id = r
    /\ DOMAIN g_resStrToIdInfo \subseteq ResName

LEMMA ResourcesTypedStep ==
    ASSUME ResourcesTyped, [Next]_vars PROVE ResourcesTyped'
<1>1. CASE UNCHANGED vars
  BY <1>1 DEF vars, place, resources, ResourcesTyped
<1>2. ASSUME Next PROVE elements' \in Nat /\ cameraFailed' \in BOOLEAN
  <2>1. elements \in Nat /\ cameraFailed \in BOOLEAN /\ elements + 1 \in Nat
    BY DEF ResourcesTyped
  <2>6. Fail \/ Keep => elements' \in Nat /\ cameraFailed' \in BOOLEAN
    <3>1. CASE Fail
      <4>1. elements' = 0 /\ cameraFailed' = (phase = "camera")
        BY <3>1 DEF Fail
      <4>2. (phase = "camera") \in BOOLEAN
        OBVIOUS
      <4> QED BY <4>1, <4>2
    <3>2. CASE Keep
      BY <2>1, <3>2 DEF Keep
    <3> QED BY <3>1, <3>2
  <2>2. CASE UnreadableFile \/ Open \/ CloseBlock \/ CloseFile
    BY <2>1, <2>2, <2>6 DEF UnreadableFile, Open, CloseBlock, CloseFile
  <2>3. CASE NextKind \/ CompleteEvent
    BY <2>1, <2>3 DEF NextKind, CompleteEvent
  <2>4. CASE \/ \E e \in ResElements : LoadFreqResource(e)
             \/ \E e \in GovElements : LoadGovResource(e)
             \/ \E e \in SceneElements : LoadSceneResource(e)
    BY <2>1, <2>4, <2>6 DEF LoadFreqResource, LoadGovResource, LoadSceneResource
  <2>5. CASE \/ \E e \in CmdElements, m \in Mode : LoadCmdInfo(e, m)
             \/ \E e \in InterElements : LoadInterAction(e)
    BY <2>1, <2>5, <2>6 DEF LoadCmdInfo, LoadInterAction
  <2> QED BY <1>2, <2>2, <2>3, <2>4, <2>5 DEF Next
<1>3. ASSUME NEW e \in ResElements \cup GovElements,
             LoadFreqResource(e) \/ LoadGovResource(e), ~ UNCHANGED resources
      PROVE  /\ DOMAIN resourceNodeInfo' \subseteq ResId
             /\ \A r \in DOMAIN resourceNodeInfo' :
                   resourceNodeInfo'[r] \in ResourceNode /\ resourceNodeInfo'[r].id = r
             /\ DOMAIN g_resStrToIdInfo' \subseteq ResName
  <2>1. e.node \in ResourceNode /\ e.node.id \in ResId /\ e.node.name \in ResName
    <3>1. e \in ResElement
      BY ConfigAssumption
    <3> QED BY <3>1 DEF ResElement, ResourceNode
  <2>2. /\ e.node.id \notin DOMAIN resourceNodeInfo
        /\ resourceNodeInfo' = Insert(resourceNodeInfo, e.node.id, e.node)
        /\ g_resStrToIdInfo' = Insert(g_resStrToIdInfo, e.node.name, e.node.id)
    BY <1>3, ResourceAdded
  <2>3. /\ DOMAIN resourceNodeInfo' = DOMAIN resourceNodeInfo \cup {e.node.id}
        /\ \A x \in DOMAIN resourceNodeInfo : resourceNodeInfo'[x] = resourceNodeInfo[x]
        /\ resourceNodeInfo'[e.node.id] = e.node
        /\ DOMAIN g_resStrToIdInfo' = DOMAIN g_resStrToIdInfo \cup {e.node.name}
    <3> DEFINE id == e.node.id
               node == e.node
               name == e.node.name
    <3> HIDE DEF id, node, name
    <3>1. /\ id \notin DOMAIN resourceNodeInfo
          /\ resourceNodeInfo' = Insert(resourceNodeInfo, id, node)
          /\ g_resStrToIdInfo' = Insert(g_resStrToIdInfo, name, id)
      BY <2>2 DEF id, node, name
    <3>2. /\ DOMAIN resourceNodeInfo' = DOMAIN resourceNodeInfo \cup {id}
          /\ \A x \in DOMAIN resourceNodeInfo : resourceNodeInfo'[x] = resourceNodeInfo[x]
          /\ resourceNodeInfo'[id] = node
          /\ DOMAIN g_resStrToIdInfo' = DOMAIN g_resStrToIdInfo \cup {name}
      <4>1. /\ DOMAIN Insert(resourceNodeInfo, id, node) = DOMAIN resourceNodeInfo \cup {id}
            /\ \A x \in DOMAIN resourceNodeInfo :
                  Insert(resourceNodeInfo, id, node)[x] = resourceNodeInfo[x]
            /\ id \notin DOMAIN resourceNodeInfo
                  => Insert(resourceNodeInfo, id, node)[id] = node
        BY InsertKeeps
      <4>2. DOMAIN Insert(g_resStrToIdInfo, name, id) = DOMAIN g_resStrToIdInfo \cup {name}
        BY InsertDomain
      <4> QED BY <3>1, <4>1, <4>2
    <3> QED BY <3>2 DEF id, node, name
  <2> QED BY <2>1, <2>3 DEF ResourcesTyped
<1>4. CASE UNCHANGED resources
  BY <1>1, <1>2, <1>4 DEF ResourcesTyped, resources
<1>5. CASE CompleteEvent
  <2>1. resourceNodeInfo' = resourceNodeInfo /\ DOMAIN g_resStrToIdInfo' = {} /\ Next
    BY <1>5 DEF CompleteEvent, Next
  <2> QED BY <1>2, <2>1 DEF ResourcesTyped
<1>6. ASSUME Next, ~ CompleteEvent, \A e \in ResElements : ~LoadFreqResource(e),
             \A e \in GovElements : ~LoadGovResource(e)
      PROVE  UNCHANGED resources
  BY <1>6, OthersKeepResources DEF resources
<1> QED BY <1>1, <1>2, <1>3, <1>4, <1>5, <1>6 DEF ResourcesTyped

\* Init, however often it is interrupted by a file that is malformed, keeps resources,
\* names and commands of their types, and a command that names a mode several times
\* has one command for it (ParseModeCmd).
THEOREM ConfigTypeCorrect == Spec => []TypeOK
<1>1. ASSUME Init PROVE ResourcesTyped /\ CommandsTyped
  <2>1. AllLoaded = {}
    BY <1>1 DEF Init, AllLoaded
  <2>2. /\ resourceNodeInfo = <<>> /\ g_resStrToIdInfo = <<>>
        /\ configPerfActionsInfo = <<>> /\ DOMAIN <<>> = {}
        /\ elements = 0 /\ cameraFailed = FALSE
    BY <1>1 DEF Init
  <2>3. ResourcesTyped
    BY <2>2 DEF ResourcesTyped
  <2> QED BY <2>1, <2>2, <2>3 DEF CommandsTyped
<1>2. ConfigInv /\ ResourcesTyped /\ CommandsTyped /\ [Next]_vars
          => (ResourcesTyped /\ CommandsTyped)'
  BY ResourcesTypedStep, CommandsTypedStep DEF ResourcesTyped
<1>3. ConfigInv /\ ResourcesTyped /\ CommandsTyped => TypeOK
  <2> SUFFICES ASSUME ConfigInv, ResourcesTyped, CommandsTyped PROVE TypeOK
    OBVIOUS
  <2>1. \A a \in AllLoaded :
            a \in Actions /\ IsInjective([k \in DOMAIN a.modeMap |-> a.modeMap[k].mode])
    BY DEF CommandsTyped, OneCommandPerMode
  <2>2. /\ phase \in {"resource", "boost", "camera", "complete", "ready", "failed"}
        /\ block \in {"none", "Resource", "GovResource", "SceneResource", "file"}
        /\ minThermalLvl \in Int
    BY DEF ConfigInv, PlaceInv, ActionsInv
  <2> QED BY <2>1, <2>2 DEF TypeOK, ResourcesTyped, CommandsTyped
<1> QED BY <1>1, <1>2, <1>3, ConfigInvHolds, PTL DEF Spec
=============================================================================
