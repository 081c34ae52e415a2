------------------------- MODULE SocPerfThreadWrap -------------------------
(***************************************************************************)
(* SocPerfThreadWrap: every request becomes a task of one serial queue. The *)
(* worker of the queue keeps, per resource and type, the list of alive      *)
(* requests and its winner, arbitrates the winners into one value per       *)
(* resource, and reports what changed. Timed requests and the weak          *)
(* interaction are ended and begun by delayed tasks of the same queue.      *)
(*                                                                         *)
(* A task is executed in several steps (one request or one resource at a    *)
(* time), so that calls, timers and the unsynchronised write of the thermal *)
(* level fall between them as they do in the program.                       *)
(***************************************************************************)
EXTENDS ResArbitration, SequencesExt

CONSTANTS
    CmdId,         \* command ids
    Level,         \* thermal levels, and levels of LimitRequest by level
    Packs,         \* what callers pass to DoFreqActionPack: sequences of Template
    Limits,        \* what callers pass to UpdateLimitStatus: FreqLimit, LevelLimit
    Now,           \* clock readings, from which end times are computed
    NInter,        \* number of weak interactions configured (interAction_)
    WeakTemplates, \* [1..NInter -> [BOOLEAN -> Seq(Template)]]: their actions, by
                   \* performance mode (GetModeCmdId picks the command)
    Ops,           \* which of the other operations are called
    MaxCalls       \* bound: number of calls

EVENT_INVALID == -1
EVENT_OFF == 0
EVENT_ON == 1
EventType == {EVENT_INVALID, EVENT_OFF, EVENT_ON}

OpName == {"power", "thermal", "clear", "weakmode", "perfmode", "level"}

\* InterActionStatus
BOOST_STATUS == "boost"
BOOST_END_STATUS == "boostEnd"
WEAK_INTERACTION_STATUS == "weak"

\* A request as the caller states it, and the ResAction made of it. The id
\* stands for the identity of the shared_ptr; only timed requests are ever
\* compared by identity, all others carry NoId.
Template == [res : Res, value : Value, duration : Nat, type : ActionType,
             onOff : EventType, cmdId : CmdId, interaction : BOOLEAN]
NoId == <<0, 0>>
ResAction == [id : Nat \X Nat, value : Value, duration : Nat, type : ActionType,
              onOff : EventType, cmdId : CmdId, endTime : EndTime,
              interaction : BOOLEAN]
Item == [res : Res, act : ResAction]

\* LimitRequest by value, and by level: the value is looked up by the worker.
LimitTemplate(V) == [res : Res, value : V, type : ActionType,
                     onOff : {EVENT_ON, EVENT_OFF}, cmdId : CmdId]
FreqLimit == [kind : {"freq"}, limit : LimitTemplate(Value)]
LevelLimit == [kind : {"level"}, limit : LimitTemplate(Level)]

InterId == 1 .. NInter

ASSUME WrapAssumption ==
    /\ Level \subseteq Int
    /\ Packs \subseteq Seq(Template)
    /\ Limits \subseteq FreqLimit \cup LevelLimit
    /\ Now \subseteq Nat
    /\ \A p \in Packs, now \in Now : \A k \in 1 .. Len(p) :
          now + p[k].duration <= MAX_INT_VALUE
    /\ NInter \in Nat
    /\ WeakTemplates \in [InterId -> [BOOLEAN -> Seq(Template)]]
    /\ Ops \subseteq OpName
    /\ MaxCalls \in Nat
    /\ \A r \in Res, n \in Level : HasLevel(r, n) => ValueByLevel(r, n) \in Value

VARIABLES
    queue,      \* tasks whose time has come, in the order the worker takes them
    timers,     \* delayed tasks whose time has not come
    posting,    \* packs submitted whose caller has yet to call PostDelayTask
    calls,      \* number of calls so far
    phase,      \* what the worker is doing
    items,      \* ... requests of the task in hand still to be applied
    late,       \* ... expired requests of the task in hand still to be removed
    todo,       \* ... resources the task in hand has still to visit
    nextInter,  \* ... weak interaction to be looked at next
    resActionList, candidatesValue, candidatesEndTime,   \* by resource and type
    wiped,      \* history: how many alive interactive requests were cleared
    candidate, currentValue, currentEndTime,             \* by resource
    reported,   \* previousValue and previousEndTime: what the executor was told
    powerLimitBoost, thermalLimitBoost, thermalLvl,
    weakInteractionStatus, performanceModeStatus, boostResCnt,
    interStatus, \* status of each weak interaction
    unlifted    \* history: by interaction, the actions switched on whose OFF has
                \* not been submitted since

sched == <<queue, timers, posting, calls>>
work == <<phase, items, late, todo, nextInter>>
lists == <<resActionList, candidatesValue, candidatesEndTime, wiped>>
results == <<candidate, currentValue, currentEndTime>>
flags == <<powerLimitBoost, thermalLimitBoost>>
modes == <<weakInteractionStatus, performanceModeStatus, unlifted>>
vars == <<sched, work, lists, results, reported, flags, thermalLvl, modes,
          boostResCnt, interStatus>>

-----------------------------------------------------------------------------
(* Tasks *)

PackTask(p) == [kind |-> "pack", items |-> p]
DelayedTask(S) == [kind |-> "delayed", items |-> S]
WeakTimer(i) == [kind |-> "weakTimer", inter |-> i]

FlagKind == {"power", "thermal", "weakmode", "perfmode"}
LimitItem(V) ==
    [res : Res, act : [id : {NoId}, value : V, duration : {0}, type : ActionType,
                       onOff : {EVENT_ON, EVENT_OFF}, cmdId : CmdId,
                       endTime : {MAX_INT_VALUE}, interaction : {FALSE}]]

DelayedTaskSet == [kind : {"delayed"}, items : SUBSET Item]
WeakTimerSet == [kind : {"weakTimer"}, inter : InterId]
Task == [kind : {"pack"}, items : Seq(Item)]
        \cup [kind : {"freq"}, item : LimitItem(Value)]
        \cup [kind : {"level"}, item : LimitItem(Level)]
        \cup [kind : FlagKind, on : BOOLEAN]
        \cup [kind : {"clear"}]
        \cup DelayedTaskSet \cup WeakTimerSet

\* The ResActions of a call: DoFreqActions computes one end time per action.
MakePack(n, now, p) ==
    [k \in 1 .. Len(p) |->
        [res |-> p[k].res,
         act |-> [id |-> IF p[k].duration = 0 THEN NoId ELSE <<n, k>>,
                  value |-> p[k].value, duration |-> p[k].duration,
                  type |-> p[k].type, onOff |-> p[k].onOff, cmdId |-> p[k].cmdId,
                  endTime |-> IF p[k].duration = 0 THEN MAX_INT_VALUE
                                                  ELSE now + p[k].duration,
                  interaction |-> p[k].interaction /\ p[k].type = "perf"]]]

\* DoWeakInteraction: no duration, never an interaction.
MakeWeak(p, onOff) ==
    [k \in 1 .. Len(p) |->
        [res |-> p[k].res,
         act |-> [id |-> NoId, value |-> p[k].value, duration |-> 0,
                  type |-> p[k].type, onOff |-> onOff, cmdId |-> p[k].cmdId,
                  endTime |-> MAX_INT_VALUE, interaction |-> FALSE]]]

MakeLimit(l) ==
    [res |-> l.res,
     act |-> [id |-> NoId, value |-> l.value, duration |-> 0, type |-> l.type,
              onOff |-> l.onOff, cmdId |-> l.cmdId, endTime |-> MAX_INT_VALUE,
              interaction |-> FALSE]]

\* DoFreqActionPack submits nothing when there is no action.
Submit(q, p) == IF p = <<>> THEN q ELSE Append(q, PackTask(p))

-----------------------------------------------------------------------------
Init ==
    /\ queue = <<>> /\ timers = {} /\ posting = {} /\ calls = 0
    /\ phase = "idle" /\ items = <<>> /\ late = {} /\ todo = {} /\ nextInter = 1
    /\ resActionList = [r \in Res |-> [t \in ActionType |-> {}]]
    /\ candidatesValue = [r \in Res |-> [t \in ActionType |-> INVALID_VALUE]]
    /\ candidatesEndTime = [r \in Res |-> [t \in ActionType |-> MAX_INT_VALUE]]
    /\ wiped = 0
    /\ candidate = [r \in Res |-> NODE_DEFAULT_VALUE]
    /\ currentValue = [r \in Res |-> NODE_DEFAULT_VALUE]
    /\ currentEndTime = [r \in Res |-> MAX_INT_VALUE]
    /\ reported = [r \in Res |-> [value |-> NODE_DEFAULT_VALUE,
                                  endTime |-> MAX_INT_VALUE]]
    /\ powerLimitBoost = FALSE /\ thermalLimitBoost = FALSE /\ thermalLvl = 0
    /\ weakInteractionStatus = TRUE /\ performanceModeStatus = FALSE
    /\ boostResCnt = 0
    /\ interStatus = [i \in InterId |-> BOOST_STATUS]
    /\ unlifted = [i \in InterId |-> {}]

-----------------------------------------------------------------------------
(* The callers. Each operation submits a task and returns.                   *)

Call == calls < MaxCalls /\ calls' = calls + 1

SubmitTask(t) ==
    /\ Call
    /\ queue' = Append(queue, t)
    /\ UNCHANGED <<timers, posting, work, lists, results, reported, flags,
                   thermalLvl, modes, boostResCnt, interStatus>>

Timed(pack) == {it \in Range(pack) : it.act.duration # 0}

\* Mutant: only the first duration met is given a task.
DelayTasks_OneDuration(pack) ==
    IF Timed(pack) = {} THEN {}
    ELSE LET d == (CHOOSE it \in Timed(pack) : TRUE).act.duration
         IN  {DelayedTask({it \in Timed(pack) : it.act.duration = d})}

\* One delayed task for each duration that occurs in the pack.
DelayTasks(pack) ==
    {DelayedTask({it \in Timed(pack) : it.act.duration = d}) :
        d \in {it.act.duration : it \in Timed(pack)}}

\* The caller of DoFreqActionPack calls PostDelayTask with the same pack next;
\* other threads may submit in between. (A pack with nothing timed in it has
\* nothing to post.)
DoFreqActionPack ==
    \E p \in Packs, now \in Now :
        LET pack == MakePack(calls + 1, now, p)
        IN  /\ p # <<>>
            /\ Call
            /\ queue' = Append(queue, PackTask(pack))
            /\ posting' = IF DelayTasks(pack) = {} THEN posting
                                                  ELSE posting \cup {pack}
            /\ UNCHANGED <<timers, work, lists, results, reported, flags,
                           thermalLvl, modes, boostResCnt, interStatus>>

PostDelayTask(pack) ==
    /\ posting' = posting \ {pack}
    /\ timers' = timers \cup DelayTasks(pack)
    /\ UNCHANGED <<queue, calls, work, lists, results, reported, flags,
                   thermalLvl, modes, boostResCnt, interStatus>>

UpdateLimitStatus ==
    \E l \in Limits : SubmitTask([kind |-> l.kind, item |-> MakeLimit(l.limit)])

SetFlag(kind) ==
    /\ kind \in Ops
    /\ \E on \in BOOLEAN : SubmitTask([kind |-> kind, on |-> on])

UpdatePowerLimitBoostFreq == SetFlag("power")
UpdateThermalLimitBoostFreq == SetFlag("thermal")
SetWeakInteractionStatus == SetFlag("weakmode")
SetPerformanceModeStatus == SetFlag("perfmode")

ClearAllAliveRequest == "clear" \in Ops /\ SubmitTask([kind |-> "clear"])

\* SocPerf::SetThermalLevel writes the member from the caller's thread: no task,
\* no lock, no new arbitration.
SetThermalLevel ==
    /\ "level" \in Ops
    /\ Call
    /\ thermalLvl' \in Level \ {thermalLvl}
    /\ UNCHANGED <<queue, timers, posting, work, lists, results, reported, flags,
                   modes, boostResCnt, interStatus>>

\* The delay of a task ends: it is taken after what was ready before it.
Elapse(t) ==
    /\ timers' = timers \ {t}
    /\ queue' = Append(queue, t)
    /\ UNCHANGED <<posting, calls, work, lists, results, reported, flags,
                   thermalLvl, modes, boostResCnt, interStatus>>

-----------------------------------------------------------------------------
(* Arbitration of one resource by the worker. It reads thermalLvl twice: lvl2 *)
(* is what the second read sees, another level when a SetThermalLevel falls   *)
(* between the two.                                                           *)

SecondRead(lvl2) ==
    \/ lvl2 = thermalLvl /\ UNCHANGED <<thermalLvl, calls>>
    \/ /\ "level" \in Ops /\ lvl2 # thermalLvl
       /\ Call
       /\ thermalLvl' = lvl2

\* Mutant: the power switch alone decides which end of a pair gives way.
LimitFlag_PowerOnly == powerLimitBoost

LimitFlag == powerLimitBoost \/ thermalLimitBoost

ArbitrateCandidate(r, cvs, ces, lvl2) ==
    LET cand == [candidate EXCEPT ![r] =
                    ArbitratedCandidate(cvs[r], powerLimitBoost, thermalLimitBoost,
                                        thermalLvl)]
        limit == LimitFlag \/ PerfLvlLimit(r, cvs, lvl2)
    IN  /\ candidate' = cand
        /\ currentEndTime' = [currentEndTime EXCEPT ![r] = ArbitratedEndTime(ces[r])]
        /\ currentValue' = PairCurrent(r, cand, currentValue, limit)

\* Mutant: the end time is not looked at.
NeedsArbitration_ValueOnly(r, t, v, e) == v # candidatesValue[r][t]

NeedsArbitration(r, t, v, e) ==
    v # candidatesValue[r][t] \/ e # candidatesEndTime[r][t]

\* The list of (r, t) becomes S; UpdateCandidatesValue follows every change.
UpdateCandidatesValue(r, t, S, lvl2) ==
    LET v == CandValue(t, S)
        e == CandEndTime(t, S)
        cvs == [candidatesValue EXCEPT ![r][t] = v]
        ces == [candidatesEndTime EXCEPT ![r][t] = e]
    IN  /\ resActionList' = [resActionList EXCEPT ![r][t] = S]
        /\ candidatesValue' = cvs
        /\ candidatesEndTime' = ces
        /\ IF NeedsArbitration(r, t, v, e)
           THEN ArbitrateCandidate(r, cvs, ces, lvl2)
           ELSE UNCHANGED results

-----------------------------------------------------------------------------
(* UpdateResActionListByInstantMsg and ...ByDelayedMsg *)

PartSame(a, b) == /\ a.value = b.value /\ a.duration = b.duration
                  /\ a.type = b.type /\ a.cmdId = b.cmdId
TotalSame(a, b) == PartSame(a, b) /\ a.onOff = b.onOff

\* Mutant: the request is appended without looking for itself.
Replaced_Never(a, S) == {}

\* The request that HandleResAction finds to replace.
Replaced(a, S) == {b \in S : TotalSame(a, b)}

\* Mutant: a delayed task takes the request that looks like its own.
Expired_ByContent(a, S) == {b \in S : TotalSame(a, b)}

\* The request that UpdateResActionListByDelayedMsg finds: the same object.
Expired(a, S) == {b \in S : b = a}

\* Mutant: every PERF request counts, interactive or not.
Cnt_EveryPerf(a) == IF a.type = "perf" THEN 1 ELSE 0

Cnt(a) == IF a.interaction THEN 1 ELSE 0

\* ON, or a request without OFF: replaces the same request if it is alive.
HandleResAction(r, a, lvl2) ==
    LET S == resActionList[r][a.type]
        same == Replaced(a, S)
    IN  \/ /\ same = {}
           /\ UpdateCandidatesValue(r, a.type, S \cup {a}, lvl2)
           /\ boostResCnt' = boostResCnt + Cnt(a)
        \/ \E b \in same :
              /\ UpdateCandidatesValue(r, a.type, (S \ {b}) \cup {a}, lvl2)
              /\ UNCHANGED boostResCnt

\* Mutant: the winner is not worked out again.
HandleOff_NoUpdate(r, a, lvl2) ==
    LET S == resActionList[r][a.type]
    IN  \E b \in {x \in S : PartSame(a, x) /\ x.onOff = EVENT_ON} :
            /\ resActionList' = [resActionList EXCEPT ![r][a.type] = S \ {b}]
            /\ boostResCnt' = boostResCnt - Cnt(a)
            /\ UNCHANGED <<candidatesValue, candidatesEndTime, results>>

HandleOff(r, a, lvl2) ==
    LET S == resActionList[r][a.type]
        same == {b \in S : PartSame(a, b) /\ b.onOff = EVENT_ON}
    IN  \/ same = {} /\ UNCHANGED <<lists, results, boostResCnt>>
        \/ \E b \in same :
              /\ UpdateCandidatesValue(r, a.type, S \ {b}, lvl2)
              /\ boostResCnt' = boostResCnt - Cnt(a)

ByInstantMsg(r, a, lvl2) ==
    IF a.onOff = EVENT_OFF THEN HandleOff(r, a, lvl2) ELSE HandleResAction(r, a, lvl2)

\* The request is removed only if it is itself still in the list.
ByDelayedMsg(r, a, lvl2) ==
    LET S == resActionList[r][a.type]
    IN  \/ Expired(a, S) = {} /\ UNCHANGED <<lists, results, boostResCnt>>
        \/ \E b \in Expired(a, S) :
              /\ UpdateCandidatesValue(r, a.type, S \ {b}, lvl2)
              /\ boostResCnt' = boostResCnt - Cnt(a)

-----------------------------------------------------------------------------
(* The worker: taking a task *)

Take(kind) ==
    /\ phase = "idle"
    /\ queue # <<>> /\ Head(queue).kind = kind
    /\ UNCHANGED <<timers, posting, calls, lists, results, reported, thermalLvl,
                   boostResCnt>>

StartPack ==
    /\ Take("pack")
    /\ queue' = Tail(queue)
    /\ phase' = "items" /\ items' = Head(queue).items
    /\ UNCHANGED <<late, todo, nextInter, flags, modes, interStatus>>

DoFreqAction ==
    /\ Take("freq")
    /\ queue' = Tail(queue)
    /\ phase' = "items" /\ items' = <<Head(queue).item>>
    /\ UNCHANGED <<late, todo, nextInter, flags, modes, interStatus>>

\* Mutant: a level the resource does not have is kept as a value.
LevelItems_Unchecked(it) ==
    <<IF HasLevel(it.res, it.act.value)
      THEN [it EXCEPT !.act.value = ValueByLevel(it.res, it.act.value)] ELSE it>>

LevelItems(it) ==
    IF HasLevel(it.res, it.act.value)
    THEN <<[it EXCEPT !.act.value = ValueByLevel(it.res, it.act.value)]>>
    ELSE <<>>

DoFreqActionLevel ==
    LET it == Head(queue).item
    IN  /\ Take("level")
        /\ queue' = Tail(queue)
        /\ phase' = "items"
        /\ items' = LevelItems(it)
        /\ UNCHANGED <<late, todo, nextInter, flags, modes, interStatus>>

StartDelayed ==
    /\ Take("delayed")
    /\ queue' = Tail(queue)
    /\ phase' = "late" /\ late' = Head(queue).items
    /\ UNCHANGED <<items, todo, nextInter, flags, modes, interStatus>>

StartPower ==
    /\ Take("power")
    /\ queue' = Tail(queue)
    /\ powerLimitBoost' = Head(queue).on
    /\ phase' = "arbitrate" /\ todo' = Res
    /\ UNCHANGED <<items, late, nextInter, thermalLimitBoost, modes, interStatus>>

\* Mutant: the switch is set but the resources are not arbitrated again.
StartThermal_NoArbitration ==
    /\ Take("thermal")
    /\ queue' = Tail(queue)
    /\ thermalLimitBoost' = Head(queue).on
    /\ phase' = "arbitrate" /\ todo' = {}
    /\ UNCHANGED <<items, late, nextInter, powerLimitBoost, modes, interStatus>>

StartThermal ==
    /\ Take("thermal")
    /\ queue' = Tail(queue)
    /\ thermalLimitBoost' = Head(queue).on
    /\ phase' = "arbitrate" /\ todo' = Res
    /\ UNCHANGED <<items, late, nextInter, powerLimitBoost, modes, interStatus>>

StartClear ==
    /\ Take("clear")
    /\ queue' = Tail(queue)
    /\ phase' = "clear" /\ todo' = Res
    /\ UNCHANGED <<items, late, nextInter, flags, modes, interStatus>>

StartWeakMode ==
    /\ Take("weakmode")
    /\ queue' = Tail(queue)
    /\ weakInteractionStatus' = Head(queue).on
    /\ phase' = "inter" /\ nextInter' = 1
    /\ UNCHANGED <<items, late, todo, flags, performanceModeStatus, unlifted,
                   interStatus>>

\* Neither this task nor the next one calls SendResStatus.
StartPerfMode ==
    /\ Take("perfmode")
    /\ queue' = Tail(queue)
    /\ performanceModeStatus' = Head(queue).on
    /\ UNCHANGED <<work, flags, weakInteractionStatus, unlifted, interStatus>>

\* The actions of the interaction i, of the command for the performance mode now.
WeakActions(i) == WeakTemplates[i][performanceModeStatus]

StartWeakTimer ==
    LET i == Head(queue).inter
    IN  /\ Take("weakTimer")
        /\ interStatus' = [interStatus EXCEPT ![i] = WEAK_INTERACTION_STATUS]
        /\ queue' = Submit(Tail(queue), MakeWeak(WeakActions(i), EVENT_ON))
        /\ unlifted' = [unlifted EXCEPT ![i] = @ \cup {WeakActions(i)}]
        /\ UNCHANGED <<work, flags, weakInteractionStatus, performanceModeStatus>>

-----------------------------------------------------------------------------
(* The worker: the steps of a task *)

Step(ph) ==
    /\ phase = ph
    /\ UNCHANGED <<queue, timers, posting, phase, nextInter, reported, flags,
                   modes, interStatus>>

StepItem ==
    /\ Step("items")
    /\ items # <<>>
    /\ items' = Tail(items)
    /\ \E lvl2 \in Level \cup {thermalLvl} :
          /\ SecondRead(lvl2)
          /\ ByInstantMsg(Head(items).res, Head(items).act, lvl2)
    /\ UNCHANGED <<late, todo, wiped>>

StepLate ==
    /\ Step("late")
    /\ \E it \in late, lvl2 \in Level \cup {thermalLvl} :
          /\ late' = late \ {it}
          /\ SecondRead(lvl2)
          /\ ByDelayedMsg(it.res, it.act, lvl2)
    /\ UNCHANGED <<items, todo, wiped>>

StepArbitrate ==
    /\ Step("arbitrate")
    /\ \E r \in todo, lvl2 \in Level \cup {thermalLvl} :
          /\ todo' = todo \ {r}
          /\ SecondRead(lvl2)
          /\ ArbitrateCandidate(r, candidatesValue, candidatesEndTime, lvl2)
    /\ UNCHANGED <<items, late, lists, boostResCnt>>

InteractiveAlive ==
    UNION {{[res |-> r, act |-> a] :
               a \in {b \in resActionList[r]["perf"] : b.interaction}} : r \in Res}

\* Only the PERF lists are cleared, and boostResCnt is not touched.
StepClear ==
    /\ Step("clear")
    /\ \E r \in todo, lvl2 \in Level \cup {thermalLvl} :
          /\ todo' = todo \ {r}
          /\ SecondRead(lvl2)
          /\ UpdateCandidatesValue(r, "perf", {}, lvl2)
          /\ wiped' = wiped + Cardinality({it \in InteractiveAlive : it.res = r})
    /\ UNCHANGED <<items, late, boostResCnt>>

SendResStatus ==
    /\ \/ phase = "items" /\ items = <<>>
       \/ phase = "late" /\ late = {}
       \/ phase \in {"arbitrate", "clear"} /\ todo = {}
    /\ reported' = [r \in Res |-> [value |-> currentValue[r],
                                   endTime |-> currentEndTime[r]]]
    /\ phase' = "inter" /\ nextInter' = 1
    /\ UNCHANGED <<sched, items, late, todo, lists, results, flags, thermalLvl,
                   modes, boostResCnt, interStatus>>

-----------------------------------------------------------------------------
(* The worker: WeakInteraction, one configured interaction at a time *)

Boosting == ~weakInteractionStatus \/ boostResCnt # 0

Inter(i) ==
    /\ phase = "inter" /\ i = nextInter /\ i \in InterId
    /\ nextInter' = nextInter + 1
    /\ UNCHANGED <<posting, calls, phase, items, late, todo, lists, results,
                   reported, flags, thermalLvl, boostResCnt, weakInteractionStatus,
                   performanceModeStatus>>


BoostEnds(i) ==
    /\ Inter(i)
    /\ ~Boosting /\ interStatus[i] = BOOST_STATUS
    /\ interStatus' = [interStatus EXCEPT ![i] = BOOST_END_STATUS]
    /\ timers' = timers \cup {WeakTimer(i)}
    /\ UNCHANGED <<queue, unlifted>>

\* Mutant: the status is reset without an OFF for what is in force.
LiftWeak_NoOff(i) ==
    /\ Inter(i)
    /\ Boosting /\ interStatus[i] = WEAK_INTERACTION_STATUS
    /\ interStatus' = [interStatus EXCEPT ![i] = BOOST_STATUS]
    /\ unlifted' = [unlifted EXCEPT ![i] = @ \ {WeakActions(i)}]
    /\ UNCHANGED <<timers, queue>>

LiftWeak(i) ==
    /\ Inter(i)
    /\ Boosting /\ interStatus[i] = WEAK_INTERACTION_STATUS
    /\ interStatus' = [interStatus EXCEPT ![i] = BOOST_STATUS]
    /\ queue' = Submit(queue, MakeWeak(WeakActions(i), EVENT_OFF))
    /\ unlifted' = [unlifted EXCEPT ![i] = @ \ {WeakActions(i)}]
    /\ UNCHANGED timers

\* Mutant: a task whose time has come is not cancelled.
CancelTask_OnlyDelayed(t) == timers' = timers \ {t} /\ UNCHANGED queue

\* socperfQueue_.cancel removes the task whether or not its time has come.
CancelTask(t) ==
    /\ timers' = timers \ {t}
    /\ \/ t \notin Range(queue) /\ UNCHANGED queue
       \/ \E k \in 1 .. Len(queue) : queue[k] = t /\ queue' = RemoveAt(queue, k)

CancelWeakTimer(i) ==
    /\ Inter(i)
    /\ Boosting /\ interStatus[i] = BOOST_END_STATUS
    /\ interStatus' = [interStatus EXCEPT ![i] = BOOST_STATUS]
    /\ CancelTask(WeakTimer(i))
    /\ UNCHANGED unlifted

KeepInter(i) ==
    /\ Inter(i)
    /\ IF Boosting THEN interStatus[i] = BOOST_STATUS
                   ELSE interStatus[i] # BOOST_STATUS
    /\ UNCHANGED <<interStatus, timers, queue, unlifted>>

FinishTask ==
    /\ phase = "inter" /\ nextInter > NInter
    /\ phase' = "idle"
    /\ UNCHANGED <<sched, items, late, todo, nextInter, lists, results, reported,
                   flags, thermalLvl, modes, boostResCnt, interStatus>>

-----------------------------------------------------------------------------
Caller ==
    \/ DoFreqActionPack \/ UpdateLimitStatus
    \/ UpdatePowerLimitBoostFreq \/ UpdateThermalLimitBoostFreq
    \/ SetWeakInteractionStatus \/ SetPerformanceModeStatus
    \/ ClearAllAliveRequest \/ SetThermalLevel

WeakInteraction ==
    \E i \in InterId : BoostEnds(i) \/ LiftWeak(i) \/ CancelWeakTimer(i) \/ KeepInter(i)

Worker ==
    \/ StartPack \/ DoFreqAction \/ DoFreqActionLevel \/ StartDelayed
    \/ StartPower \/ StartThermal \/ StartClear
    \/ StartWeakMode \/ StartPerfMode \/ StartWeakTimer
    \/ StepItem \/ StepLate \/ StepArbitrate \/ StepClear
    \/ SendResStatus \/ WeakInteraction \/ FinishTask

PostSome == \E p \in posting : PostDelayTask(p)
ElapseSome == \E t \in timers : Elapse(t)

Next == Caller \/ Worker \/ PostSome \/ ElapseSome

\* ffrt runs every task it was given, in the end; a caller that submitted a pack
\* goes on to post its timers. Nobody has to call anything.
Fairness == WF_vars(Worker) /\ WF_vars(PostSome) /\ WF_vars(ElapseSome)

Spec == Init /\ [][Next]_vars
FairSpec == Spec /\ Fairness

-----------------------------------------------------------------------------
(* Properties *)

\* Every variable stays in the set its member of SocPerfThreadWrap ranges over.
TypeOK ==
    /\ queue \in Seq(Task)
    /\ timers \subseteq DelayedTaskSet \cup WeakTimerSet
    /\ posting \subseteq Seq(Item)
    /\ calls \in Nat
    /\ phase \in {"idle", "items", "late", "arbitrate", "clear", "inter"}
    /\ items \in Seq(Item) /\ late \subseteq Item /\ todo \subseteq Res
    /\ nextInter \in Nat
    /\ resActionList \in [Res -> [ActionType -> SUBSET ResAction]]
    /\ candidatesValue \in [Res -> [ActionType -> Winning]]
    /\ candidatesEndTime \in [Res -> [ActionType -> EndTime]]
    /\ candidate \in [Res -> Candidates]
    /\ currentValue \in [Res -> Candidates]
    /\ currentEndTime \in [Res -> EndTime]
    /\ reported \in [Res -> [value : Candidates, endTime : EndTime]]
    /\ powerLimitBoost \in BOOLEAN /\ thermalLimitBoost \in BOOLEAN
    /\ thermalLvl \in Int
    /\ weakInteractionStatus \in BOOLEAN /\ performanceModeStatus \in BOOLEAN
    /\ boostResCnt \in Int
    /\ interStatus \in [InterId -> {BOOST_STATUS, BOOST_END_STATUS,
                                    WEAK_INTERACTION_STATUS}]
    /\ unlifted \in [InterId -> SUBSET Seq(Template)]

(* What the executor was told *)

Settled == phase \in {"idle", "inter"}

Winner(r) == [t \in ActionType |-> CandValue(t, resActionList[r][t])]

\* The winner of each list is up to date after every step: no list changes
\* without UpdateCandidatesValue (ProcessLimitCase reads the winners only).
CandidatesMatchLists ==
    \A r \in Res : \A t \in ActionType :
        /\ candidatesValue[r][t] = CandValue(t, resActionList[r][t])
        /\ candidatesEndTime[r][t] = CandEndTime(t, resActionList[r][t])

\* Once a task has reported, the value and end time last sent for a resource are
\* those the alive requests of it and of its pair and the limit switches call
\* for, at a thermal level that was 0 or not when they were arbitrated: no
\* change is left unarbitrated or unreported (UpdateCandidatesValue skips the
\* arbitration when the winner is unchanged, SendResStatus what did not change).
ReportMatchesRequests ==
    Settled =>
        /\ \A r \in Res : \E lvl \in {0, 1} :
              candidate[r] = ArbitratedCandidate(Winner(r), powerLimitBoost,
                                                 thermalLimitBoost, lvl)
        /\ \A r \in Res : \E lvl \in {0, 1} :
              LET limit == \/ powerLimitBoost \/ thermalLimitBoost
                           \/ PerfLvlLimit(r, candidatesValue, lvl)
              IN  reported[r].value = PairCurrent(r, candidate, candidate, limit)[r]
        /\ \A r \in Res : reported[r].endTime =
              ArbitratedEndTime([t \in ActionType |->
                                    CandEndTime(t, resActionList[r][t])])

\* The executor is never told a minimum above the maximum of the same pair
\* (ArbitratePairRes), whichever of the two was arbitrated last.
ReportedPairOrdered ==
    \A r \in Res :
        /\ Pair[r] # NoRes
        /\ NODE_DEFAULT_VALUE \notin {reported[r].value, reported[Pair[r]].value}
        => reported[Low(r)].value <= reported[High(r)].value

\* While a limit switch is on, the value last sent for a resource without a
\* PERFLVL request is within every alive limit of that switch's type: no boost,
\* and no value pulled up by the pair, exceeds it (ProcessLimitCase and
\* ArbitratePairRes together).
LimitsCapBoosts ==
    Settled =>
        \A r \in Res :
            candidatesValue[r]["perflvl"] = INVALID_VALUE =>
                /\ powerLimitBoost => \A a \in resActionList[r]["power"] :
                                         reported[r].value <= a.value
                /\ thermalLimitBoost => \A a \in resActionList[r]["thermal"] :
                                         reported[r].value <= a.value

(* Why the executor is told the truth: what holds between any two steps of the *)
(* worker, of which the properties above are consequences.                     *)

\* A task that switches a limit has yet to arbitrate r.
Pending(r) == phase = "arbitrate" /\ r \in todo

CandidateArbitrated(r) ==
    \E lvl \in {0, 1} :
        candidate[r] = ArbitratedCandidate(candidatesValue[r], powerLimitBoost,
                                           thermalLimitBoost, lvl)

CurrentArbitrated(r) ==
    \E lvl \in {0, 1} :
        LET limit == \/ powerLimitBoost \/ thermalLimitBoost
                     \/ PerfLvlLimit(r, candidatesValue, lvl)
        IN  currentValue[r] = PairCurrent(r, candidate, candidate, limit)[r]

CurrentOrdered(r) ==
    /\ Pair[r] # NoRes
    /\ NODE_DEFAULT_VALUE \notin {currentValue[r], currentValue[Pair[r]]}
    => currentValue[Low(r)] <= currentValue[High(r)]

\* Between any two steps of the worker, what it keeps for a resource is what
\* arbitrating the winners now would give, except for resources that a task
\* switching a limit has yet to visit, and their pairs: PairCurrent writes two
\* resources, and no later step leaves one of them behind.
ArbitrationInv ==
    /\ \A r \in Res :
          /\ currentEndTime[r] = ArbitratedEndTime(candidatesEndTime[r])
          /\ Pending(r) \/ CandidateArbitrated(r)
          /\ Pending(r) \/ Pending(Pair[r]) \/ CurrentArbitrated(r)
          /\ CurrentOrdered(r)
    /\ Settled => \A r \in Res : /\ reported[r].value = currentValue[r]
                                 /\ reported[r].endTime = currentEndTime[r]
    /\ ReportedPairOrdered

(* The life of a request *)

\* No list holds the same request twice: HandleResAction replaces it. An OFF
\* removes one request only, so a second copy would stay for ever.
NoTwoTotalSame ==
    \A r \in Res : \A t \in ActionType : \A a, b \in resActionList[r][t] :
        a # b => ~TotalSame(a, b)

\* A timed request that is alive has its own delayed task: still to be posted,
\* running, ready, or at the worker. Without one it would never end.
Armed(it) ==
    \/ \E p \in posting : it \in Range(p)
    \/ \E t \in timers \cup Range(queue) : t.kind = "delayed" /\ it \in t.items
    \/ phase = "late" /\ it \in late

ExpiryArmed ==
    \A r \in Res : \A t \in ActionType : \A a \in resActionList[r][t] :
        a.duration # 0 => Armed([res |-> r, act |-> a])

\* A delayed task ends no request but its own: a request made again before the
\* delay of the first one is over outlives it (the pointer comparison of
\* UpdateResActionListByDelayedMsg).
StaleTimerHarmless ==
    [][phase = "late" =>
        \A r \in Res : \A t \in ActionType :
            \A a \in resActionList[r][t] \ resActionList'[r][t] :
                [res |-> r, act |-> a] \in late]_vars

\* Every timed request ends.
IsAlive(n, k) == \E r \in Res : \E t \in ActionType :
                    \E a \in resActionList[r][t] : a.id = <<n, k>>
TimedBoostExpires ==
    \A n \in 1 .. MaxCalls : \A k \in 1 .. 2 : IsAlive(n, k) ~> ~IsAlive(n, k)

(* Boosts and the weak interaction *)

\* boostResCnt counts the alive requests of interactive commands, and no less than them:
\* what it counts too much are the requests that ClearAllAliveRequest removed, for as
\* their delayed tasks and OFFs no longer find them, nothing ever lowers it for them.
BoostCountMatchesAlive == boostResCnt = Cardinality(InteractiveAlive) + wiped

\* ClearAllAliveRequest leaves no alive request of PerfRequest or PerfRequestEx.
ClearedNothingAlive ==
    phase = "clear" /\ todo = {} =>
        \A r \in Res : resActionList[r]["perf"] = {} /\ resActionList[r]["perflvl"] = {}

\* An interaction waits for its delay exactly while its timer is pending: never
\* two timers, never a timer left behind when a boost arrives first.
WeakStatusMatchesTimer ==
    \A i \in InterId :
        /\ interStatus[i] = BOOST_END_STATUS
           <=> WeakTimer(i) \in timers \cup Range(queue)
        /\ WeakTimer(i) \in timers => WeakTimer(i) \notin Range(queue)
        /\ Cardinality({k \in 1 .. Len(queue) : queue[k] = WeakTimer(i)}) <= 1

Cmds(p) == {p[k].cmdId : k \in 1 .. Len(p)}
WeakCmds(i) == UNION {Cmds(WeakTemplates[i][m]) : m \in BOOLEAN}

\* With nothing left to do, a limit of a weak interaction is in force only if its
\* actions were switched on and no boost has sent their OFF since. LiftWeak sends the
\* OFF of the command for the performance mode at that time: what a change of mode in
\* between leaves in force is the actions of the other command, and only those, until a
\* boost lifts them in their own mode.
WeakLimitLifted ==
    phase = "idle" /\ queue = <<>> =>
        \A i \in InterId, r \in Res : \A t \in ActionType :
            \A a \in resActionList[r][t] :
                a.cmdId \in WeakCmds(i) => \E p \in unlifted[i] : a.cmdId \in Cmds(p)


(* What the users rely on *)

Arbiter == INSTANCE ResourceArbiter WITH
    alive <- resActionList, power <- powerLimitBoost, thermal <- thermalLimitBoost,
    busy <- ~Settled, told <- reported

\* Seen from outside, the queue, the timers, the winners kept for each list, the
\* arbitration of one resource at a time and the suppression of what did not
\* change are not there: in a task requests come and end one by one, and before it
\* ends the executor has been told what all alive requests call for by then.
ImplementsArbiter == Arbiter!Spec

-----------------------------------------------------------------------------
(* Conditions on the commands, under which some of the properties hold *)

\* The commands that are interactive.
InteractiveCmd ==
    {c \in CmdId : \E p \in Packs : \E k \in 1 .. Len(p) :
                       p[k].interaction /\ p[k].cmdId = c}

\* Whether a request is interactive depends on its command only: a command is the
\* same in every configuration that has it, and neither limits nor weak interactions
\* make PERF requests in the name of an interactive one.
InteractionByCommand ==
    /\ \A p \in Packs : \A k \in 1 .. Len(p) :
          p[k].cmdId \in InteractiveCmd => p[k].interaction
    /\ \A l \in Limits : l.limit.type = "perf" => l.limit.cmdId \notin InteractiveCmd
    /\ \A i \in InterId, m \in BOOLEAN : \A k \in 1 .. Len(WeakTemplates[i][m]) :
          WeakTemplates[i][m][k].type = "perf"
             => WeakTemplates[i][m][k].cmdId \notin InteractiveCmd

\* The commands of each weak interaction are its own, and it has either one command or
\* one for each performance mode (GetModeCmdId): no caller uses them.
WeakCommandsApart ==
    /\ \A i, j \in InterId : i # j => WeakCmds(i) \cap WeakCmds(j) = {}
    /\ \A i \in InterId : \/ WeakTemplates[i][TRUE] = WeakTemplates[i][FALSE]
                         \/ Cmds(WeakTemplates[i][TRUE])
                                \cap Cmds(WeakTemplates[i][FALSE]) = {}
    /\ \A i \in InterId, p \in Packs : \A k \in 1 .. Len(p) : p[k].cmdId \notin WeakCmds(i)
    /\ \A i \in InterId, l \in Limits : l.limit.cmdId \notin WeakCmds(i)
=============================================================================
