---------------------------- MODULE SocPerfLimit ----------------------------
(***************************************************************************)
(* The limits of class SocPerf: LimitRequest, which replaces the limit of a *)
(* client on a resource, and the two switches, PowerLimitBoost and          *)
(* ThermalLimitBoost. Callers are IPC threads; what they submit is applied  *)
(* in order by the worker of SocPerfThreadWrap, of which only the alive     *)
(* limits and the switches are kept here.                                   *)
(***************************************************************************)
EXTENDS Integers, SequencesExt

CONSTANTS
    Caller,         \* threads that call
    Res,            \* configured resources
    Config,         \* the 64-bit values given to LimitRequest (values and levels)
    INVALID_VALUE,  \* the least int32_t
    LevelValue,     \* [Res \X Nat -> Int]: GetResValueByLevel, where it succeeds
    Requests,       \* what is passed to LimitRequest, see Request below
    MaxCalls        \* bound: number of calls

RESET_VALUE == -1

\* Clients that LimitRequest accepts, and what becomes of them in a ResAction:
\* a battery limit is a power limit with a command id of its own.
Client == {"power", "thermal", "perflvl", "battery"}

\* Mutant: a battery limit keeps its own type.
TypeOf_Client(client) == client

TypeOf(client) == IF client = "battery" THEN "power" ELSE client
CmdOf(client) == IF client = "battery" THEN "battery" ELSE "none"

\* A tag names a resource, or its levels (RES_ID_ADDITION added to the id).
Tag == [res : Res, kind : {"freq", "level"}]
Request == [client : Client, configs : Seq([tag : Tag, value : Config])]
Switch == {"battery", "power"}

ASSUME LimitAssumption ==
    /\ INVALID_VALUE \in Int /\ INVALID_VALUE < 0 /\ Config \subseteq Int
    /\ LevelValue \in [DOMAIN LevelValue -> Int]
    /\ Requests \subseteq Request
    /\ MaxCalls \in Nat

VARIABLES
    calls,          \* number of calls so far
    todo,           \* [Caller -> tags its LimitRequest has still to send]
    switching,      \* [Caller -> what its PowerLimitBoost will do next]
    limitRequest,   \* [Client -> set of entries], limitRequest_
    limitStatus,    \* [Switch -> BOOLEAN], batteryLimitStatus_, powerLimitStatus_
    queue,          \* tasks submitted and not yet executed
    alive,          \* the worker: its alive limits
    powerLimitBoost, thermalLimitBoost, \* the worker: its switches
    overtaken       \* history: of the PowerLimitBoost that submitted last, a flag was
                    \* changed by another one after it was read

callers == <<calls, todo, switching, overtaken>>
worker == <<alive, powerLimitBoost, thermalLimitBoost>>
vars == <<callers, limitRequest, limitStatus, queue, worker>>

Entry == [tag : Tag, value : INVALID_VALUE .. -INVALID_VALUE - 1]
Limit == [res : Res, value : Int, type : {"power", "thermal", "perflvl"},
          cmdId : {"battery", "none"}]

Done == [client |-> "power", configs |-> <<>>]
Idle == [step |-> "idle", on |-> FALSE, stale |-> FALSE]

Init ==
    /\ calls = 0 /\ todo = [c \in Caller |-> Done]
    /\ switching = [c \in Caller |-> Idle]
    /\ limitRequest = [client \in Client |-> {}]
    /\ limitStatus = [s \in Switch |-> FALSE]
    /\ queue = <<>> /\ alive = {}
    /\ powerLimitBoost = FALSE /\ thermalLimitBoost = FALSE
    /\ overtaken = FALSE

-----------------------------------------------------------------------------
(* SendLimitRequestEvent. The map holds int32_t: a value is taken modulo their  *)
(* number, which is twice the greatest plus one.                               *)

Int32(v) == ((v - INVALID_VALUE) % (-2 * INVALID_VALUE)) + INVALID_VALUE

LimitTask(client, tag, value, on) ==
    [kind |-> "limit", tag |-> tag, value |-> value, type |-> TypeOf(client),
     cmdId |-> CmdOf(client), on |-> on]

Entries(client, tags) == {e \in limitRequest[client] : e.tag \in tags}

\* SendLimitRequestEventOff, for one tag: the tasks, and the entries erased.
Sent(client, tag) ==
    {e \in Entries(client, {tag}) : e.value # INVALID_VALUE}
OffTasks(client, tag) ==
    SetToSeq({LimitTask(client, tag, e.value, FALSE) : e \in Sent(client, tag)})

\* Mutant: only what was set through the same tag is withdrawn.
Both_SameTag(tag) == <<tag, tag>>

\* What a new limit replaces: the one by value and the one by level.
Both(tag) == <<[tag EXCEPT !.kind = "freq"], [tag EXCEPT !.kind = "level"]>>

\* Mutant: a battery limit is recorded, and withdrawn, as a power limit.
Slot_Type(client) == TypeOf(client)

\* Each client has a map of its own.
Slot(client) == client

\* One turn of the loop of LimitRequest, under mutex_.
SendLimitRequestEvent(c) ==
    LET r == todo[c].configs[1]
        client == Slot(todo[c].client)
        tags == Both(r.tag)
        off == OffTasks(client, tags[1]) \o OffTasks(client, tags[2])
        kept == limitRequest[client]
                    \ (Sent(client, tags[1]) \cup Sent(client, tags[2]))
        on == r.value \notin {INVALID_VALUE, RESET_VALUE}
    IN  /\ todo[c].configs # <<>>
        /\ todo' = [todo EXCEPT ![c].configs = Tail(@)]
        /\ queue' = queue \o off
              \o (IF on THEN <<LimitTask(todo[c].client, r.tag, r.value, TRUE)>> ELSE <<>>)
        /\ limitRequest' = [limitRequest EXCEPT ![client] =
              IF on /\ \A e \in kept : e.tag # r.tag
              THEN kept \cup {[tag |-> r.tag, value |-> Int32(r.value)]} ELSE kept]
        /\ UNCHANGED <<calls, switching, overtaken, limitStatus, worker>>

-----------------------------------------------------------------------------
(* The calls *)

Call(c) ==
    /\ calls < MaxCalls /\ calls' = calls + 1
    /\ todo[c].configs = <<>> /\ switching[c] = Idle
    /\ UNCHANGED <<overtaken, limitRequest, limitStatus, worker>>

LimitRequest(c) ==
    /\ Call(c)
    /\ \E r \in Requests : todo' = [todo EXCEPT ![c] = r]
    /\ UNCHANGED <<switching, queue>>

ThermalLimitBoost(c) ==
    /\ Call(c)
    /\ \E on \in BOOLEAN : queue' = Append(queue, [kind |-> "thermal", on |-> on])
    /\ UNCHANGED <<todo, switching>>

(* PowerLimitBoost writes one flag, reads both, and submits: no lock is held.  *)

\* d is past its read of flag s, if it reads it at all, and has yet to submit.
HasRead(d, s) ==
    \/ switching[d].step = "submit"
    \/ switching[d].step = "power" /\ s = "battery"

PowerLimitBoost(c) ==
    /\ calls < MaxCalls /\ calls' = calls + 1
    /\ todo[c].configs = <<>> /\ switching[c] = Idle
    /\ \E s \in Switch, on \in BOOLEAN :
          /\ limitStatus' = [limitStatus EXCEPT ![s] = on]
          /\ switching' = [d \in Caller |->
                IF d = c THEN [Idle EXCEPT !.step = "battery"]
                ELSE IF limitStatus[s] # on /\ HasRead(d, s)
                THEN [switching[d] EXCEPT !.stale = TRUE] ELSE switching[d]]
    /\ UNCHANGED <<todo, overtaken, limitRequest, queue, worker>>

\* Mutant: the battery alone decides.
AfterBattery_Alone ==
    [Idle EXCEPT !.step = "submit", !.on = limitStatus["battery"]]

\* The power flag is read only if the battery does not limit.
AfterBattery ==
    IF limitStatus["battery"] THEN [Idle EXCEPT !.step = "submit", !.on = TRUE]
                              ELSE [Idle EXCEPT !.step = "power"]

ReadBatteryLimitStatus(c) ==
    /\ switching[c].step = "battery"
    /\ switching' = [switching EXCEPT ![c] = AfterBattery]
    /\ UNCHANGED <<calls, todo, overtaken, limitRequest, limitStatus, queue, worker>>

ReadPowerLimitStatus(c) ==
    /\ switching[c].step = "power"
    /\ switching' = [switching EXCEPT ![c].step = "submit", ![c].on = limitStatus["power"]]
    /\ UNCHANGED <<calls, todo, overtaken, limitRequest, limitStatus, queue, worker>>

SubmitPowerLimitBoost(c) ==
    /\ switching[c].step = "submit"
    /\ queue' = Append(queue, [kind |-> "power", on |-> switching[c].on])
    /\ switching' = [switching EXCEPT ![c] = Idle]
    /\ overtaken' = switching[c].stale
    /\ UNCHANGED <<calls, todo, limitRequest, limitStatus, worker>>

-----------------------------------------------------------------------------
(* The worker: UpdateLimitStatus and the two switches, a task at a time. An   *)
(* OFF removes the limit it equals; a level that does not exist is ignored.   *)

Take(kind) ==
    /\ queue # <<>> /\ Head(queue).kind = kind
    /\ queue' = Tail(queue)
    /\ UNCHANGED <<callers, limitRequest, limitStatus>>

Resolved(tag, value) ==
    IF tag.kind = "freq" THEN {value}
    ELSE {LevelValue[k] : k \in DOMAIN LevelValue \cap {<<tag.res, value>>}}

Limits(tag, value, type, cmdId) ==
    {[res |-> tag.res, value |-> v, type |-> type, cmdId |-> cmdId] :
        v \in Resolved(tag, value)}

UpdateLimitStatus ==
    LET t == Head(queue)
        limits == Limits(t.tag, t.value, t.type, t.cmdId)
    IN  /\ Take("limit")
        /\ alive' = IF t.on THEN alive \cup limits ELSE alive \ limits
        /\ UNCHANGED <<powerLimitBoost, thermalLimitBoost>>

UpdatePowerLimitBoostFreq ==
    /\ Take("power")
    /\ powerLimitBoost' = Head(queue).on
    /\ UNCHANGED <<alive, thermalLimitBoost>>

UpdateThermalLimitBoostFreq ==
    /\ Take("thermal")
    /\ thermalLimitBoost' = Head(queue).on
    /\ UNCHANGED <<alive, powerLimitBoost>>

-----------------------------------------------------------------------------
Next ==
    \/ \E c \in Caller : \/ LimitRequest(c) \/ SendLimitRequestEvent(c)
                         \/ ThermalLimitBoost(c)
                         \/ PowerLimitBoost(c) \/ ReadBatteryLimitStatus(c)
                         \/ ReadPowerLimitStatus(c)
                         \/ SubmitPowerLimitBoost(c)
    \/ UpdateLimitStatus \/ UpdatePowerLimitBoostFreq \/ UpdateThermalLimitBoostFreq

Spec == Init /\ [][Next]_vars

-----------------------------------------------------------------------------
(* Properties *)

\* limitRequest_ holds values of its width, for tags that exist, and the alive
\* limits are limits of the configured resources.
TypeOK ==
    /\ calls \in 0 .. MaxCalls
    /\ todo \in [Caller -> Request]
    /\ switching \in [Caller -> [step : {"idle", "battery", "power", "submit"},
                                on : BOOLEAN, stale : BOOLEAN]]
    /\ overtaken \in BOOLEAN
    /\ limitRequest \in [Client -> SUBSET Entry]
    /\ limitStatus \in [Switch -> BOOLEAN]
    /\ alive \subseteq Limit
    /\ powerLimitBoost \in BOOLEAN /\ thermalLimitBoost \in BOOLEAN

Recorded(client) ==
    UNION {Limits(e.tag, e.value, TypeOf(client), CmdOf(client)) :
               e \in limitRequest[client]}

\* Once the tasks submitted so far are executed, the alive limits are those that
\* limitRequest_ records, however the calls of several threads interleave: every
\* limit replaced or withdrawn, by value or by level, has been taken back.
LimitsMatchRecord == queue = <<>> => alive = UNION {Recorded(k) : k \in Client}

\* At no time has a client two limits alive on one resource: the OFF of the
\* limit replaced is executed before the ON of the new one.
OneLimitPerClient ==
    \A a, b \in alive :
        a.res = b.res /\ a.type = b.type /\ a.cmdId = b.cmdId => a = b

\* Nothing of PowerLimitBoost is under way.
SwitchSettled == queue = <<>> /\ \A c \in Caller : switching[c] = Idle

\* When every PowerLimitBoost is done and executed, boosts are limited exactly
\* if one of the flags says so, however the calls of several threads interleave,
\* with one exception: a flag was changed by another call between the read of the
\* call that submitted last and its submission. A write before that read, or of a
\* call that submits later, does no harm, and the next call repairs what one that
\* was overtaken left behind.
PowerSwitchMatches ==
    SwitchSettled /\ ~overtaken =>
        (powerLimitBoost <=> \E s \in Switch : limitStatus[s])

\* What PowerLimitBoost is for (README_ZH.md): while the battery or the power
\* module asks for it, and no call is under way, boosts are limited.
BoostsLimitedWhenAsked ==
    SwitchSettled /\ (\E s \in Switch : limitStatus[s]) => powerLimitBoost

-----------------------------------------------------------------------------
(* Conditions on the callers, under which some of the properties hold *)

\* The values given to LimitRequest are int32_t: limitRequest_ loses nothing.
ValuesFit == Config \subseteq INVALID_VALUE .. -INVALID_VALUE - 1
=============================================================================
