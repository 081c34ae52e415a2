--------------------------- MODULE MCThreadWrap ---------------------------
(* Instances of SocPerfThreadWrap for TLC. *)
EXTENDS SocPerfThreadWrap

CONSTANTS cpuMin, cpuMax

MCInvalid == -9
MCArbLevels == {-1, 0, 1, 7}
MCNoWeak == <<>>

\* A minimum/maximum pair; values 1 and 2 are available.
MCPairRes == {cpuMin, cpuMax}
MCPair == (cpuMin :> cpuMax) @@ (cpuMax :> cpuMin)
MCIsMax == [r \in {cpuMin, cpuMax} |-> r = cpuMax]
MCAvailable == [r \in {cpuMin, cpuMax} |-> {1, 2}]

MCOneRes == {cpuMin}
MCNoPair == (cpuMin :> NoRes)
MCOneMax == (cpuMin :> FALSE)
MCOneAvailable == (cpuMin :> {1, 2})

\* Every command but "drag" is interactive.
Req(r, v, d, t, onOff, cmd) ==
    [res |-> r, value |-> v, duration |-> d, type |-> t, onOff |-> onOff,
     cmdId |-> cmd, interaction |-> cmd # "drag"]

Limit(kind, r, v, t, onOff, cmd) ==
    [kind |-> kind, limit |-> [res |-> r, value |-> v, type |-> t,
                               onOff |-> onOff, cmdId |-> cmd]]

\* Boosts of both ends of the pair, one of them with a thermal level.
MCArbPacks ==
    { <<Req(cpuMin, 2, 0, "perf", EVENT_ON, "boost")>>,
      <<Req(cpuMax, 1, 0, "perf", EVENT_ON, "boost"),
        Req(cpuMin, 1, 0, "perflvl", EVENT_ON, "boost")>>,
      <<Req(cpuMax, 1, 0, "perf", EVENT_OFF, "boost"),
        Req(cpuMin, 1, 0, "perflvl", EVENT_OFF, "boost")>> }

MCArbLimits ==
    { Limit("freq", cpuMax, 1, "power", EVENT_ON, "limit"),
      Limit("freq", cpuMin, 2, "thermal", EVENT_ON, "limit"),
      Limit("freq", cpuMax, 1, "power", EVENT_OFF, "limit"),
      Limit("level", cpuMax, 1, "thermal", EVENT_ON, "limit"),
      Limit("level", cpuMax, 7, "thermal", EVENT_OFF, "limit"),
      Limit("level", cpuMin, -1, "thermal", EVENT_ON, "limit") }

\* A timed boost, the same one again, a longer one, and a switched one.
MCLifePacks ==
    { <<Req(cpuMin, 1, 1, "perf", EVENT_INVALID, "tap"),
        Req(cpuMin, 2, 2, "perf", EVENT_INVALID, "tap")>>,
      <<Req(cpuMin, 2, 1, "perf", EVENT_ON, "drag")>>,
      <<Req(cpuMin, 2, 1, "perf", EVENT_OFF, "drag")>> }

MCTapOnly == {<<Req(cpuMin, 1, 1, "perf", EVENT_INVALID, "tap"),
                Req(cpuMin, 2, 2, "perflvl", EVENT_INVALID, "tap")>>}

MCWeak == <<[m \in BOOLEAN |->
               <<Req(cpuMin, 1, 0, "power", EVENT_ON, IF m THEN "weakPerf" ELSE "weak")>>]>>

\* Every call of the instance makes a task of the declared shape.
ASSUME MCTasksWellFormed ==
    /\ \A p \in Packs, now \in Now :
          /\ PackTask(MakePack(1, now, p)) \in Task
          /\ DelayTasks(MakePack(1, now, p)) \subseteq Task
    /\ \A l \in Limits : [kind |-> l.kind, item |-> MakeLimit(l.limit)] \in Task
    /\ \A k \in FlagKind : [kind |-> k, on |-> TRUE] \in Task
    /\ [kind |-> "clear"] \in Task
    /\ \A i \in InterId : WeakTimer(i) \in Task

\* The instances meet the conditions of the properties about weak interactions.
ASSUME MCConditions == InteractionByCommand /\ WeakCommandsApart
=============================================================================
