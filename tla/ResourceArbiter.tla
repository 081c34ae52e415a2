-------------------------- MODULE ResourceArbiter --------------------------
(***************************************************************************)
(* What the users of SocPerfThreadWrap may rely on: there are alive requests *)
(* and two limit switches. They change while a task is under way, and the    *)
(* task ends by telling the executor, for every resource at once, what they  *)
(* call for. There is no queue, no timer, no winner kept from one change to  *)
(* the next, and no resource that is arbitrated before another.              *)
(***************************************************************************)
EXTENDS ResArbitration

VARIABLES
    alive,           \* [Res -> [ActionType -> set of requests]]
    power, thermal,  \* the limit switches
    busy,            \* a task is under way
    told             \* [Res -> [value, endTime]], as the executor knows it

vars == <<alive, power, thermal, busy, told>>

Init ==
    /\ alive = [r \in Res |-> [t \in ActionType |-> {}]]
    /\ power = FALSE /\ thermal = FALSE /\ busy = FALSE
    /\ told = [r \in Res |-> [value |-> NODE_DEFAULT_VALUE, endTime |-> MAX_INT_VALUE]]

\* The same wish of the same command, whenever it ends.
SameRequest(a, b) ==
    /\ a.value = b.value /\ a.duration = b.duration /\ a.type = b.type
    /\ a.cmdId = b.cmdId /\ a.onOff = b.onOff

BeginTask ==
    /\ ~busy /\ busy'
    /\ UNCHANGED <<alive, power, thermal, told>>

\* A request becomes alive, in the place of the one that is the same.
Accept(r, t) ==
    /\ busy
    /\ \E a \in alive'[r][t] :
          /\ a.type = t
          /\ alive' = [alive EXCEPT ![r][t] = {b \in @ : ~SameRequest(a, b)} \cup {a}]
    /\ UNCHANGED <<power, thermal, busy, told>>

\* One request ends: an OFF, or its time is over.
End(r, t) ==
    /\ busy
    /\ \E a \in alive[r][t] : alive' = [alive EXCEPT ![r][t] = @ \ {a}]
    /\ UNCHANGED <<power, thermal, busy, told>>

\* Every boost of a resource ends.
Clear(r) ==
    /\ busy
    /\ alive' = [alive EXCEPT ![r]["perf"] = {}]
    /\ UNCHANGED <<power, thermal, busy, told>>

\* A task of its own.
Switch ==
    /\ ~busy /\ busy'
    /\ \/ power' \in BOOLEAN /\ UNCHANGED thermal
       \/ thermal' \in BOOLEAN /\ UNCHANGED power
    /\ UNCHANGED <<alive, told>>

Winner(r) == [t \in ActionType |-> CandValue(t, alive[r][t])]
WinnerEnd(r) == [t \in ActionType |-> CandEndTime(t, alive[r][t])]

\* What may be told of the resources: each gets its candidate, and a pair the two
\* candidates brought in order. The thermal level (0 or not) is that of the
\* moment when this was worked out.
CalledFor(t) ==
    \E cand \in [Res -> Candidates] : \A r \in Res :
        /\ \E lvl \in {0, 1} : cand[r] = ArbitratedCandidate(Winner(r), power, thermal, lvl)
        /\ \E lvl \in {0, 1} :
              LET limit == \/ power \/ thermal
                           \/ PerfLvlLimit(r, [x \in Res |-> Winner(x)], lvl)
              IN  t[r].value = PairCurrent(r, cand, cand, limit)[r]
        /\ t[r].endTime = ArbitratedEndTime(WinnerEnd(r))
        /\ Pair[r] # NoRes /\ NODE_DEFAULT_VALUE \notin {t[r].value, t[Pair[r]].value}
              => t[Low(r)].value <= t[High(r)].value

Report ==
    /\ busy /\ ~busy'
    /\ CalledFor(told')
    /\ UNCHANGED <<alive, power, thermal>>

Next ==
    \/ \E r \in Res, t \in ActionType : Accept(r, t) \/ End(r, t)
    \/ \E r \in Res : Clear(r)
    \/ BeginTask \/ Switch \/ Report

Spec == Init /\ [][Next]_vars
=============================================================================
