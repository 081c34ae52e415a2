-------------------- MODULE SocPerfThreadWrapWeak_proofs --------------------
(* Interactive boosts and the weak interaction: the counter of the boosts, and *)
(* the limits that are lifted when a boost comes.                             *)
EXTENDS SocPerfThreadWrapTimers_proofs

-----------------------------------------------------------------------------
(* What a step does to the queue, to the request in hand and to those alive    *)

\* What a task will apply: the actions of its pack, or its limit.
Carried(t) == IF t.kind = "pack" THEN Range(t.items)
              ELSE IF t.kind = "freq" THEN {t.item}
              ELSE IF t.kind = "level" THEN Range(LevelItems(t.item))
              ELSE {}

\* A task that is submitted by a call, or whose delay is over.
CalledPack(t) == \E p \in Packs, n \in Nat, now \in Now : t = PackTask(MakePack(n, now, p))
CalledLimit(t) == \E l \in Limits : t = [kind |-> l.kind, item |-> MakeLimit(l.limit)]
CalledOther(t) == t.kind \notin {"pack", "freq", "level"}
Called(t) == t \in Task /\ (CalledPack(t) \/ CalledLimit(t) \/ CalledOther(t))

WeakOn(i) == MakeWeak(WeakActions(i), EVENT_ON)
WeakOff(i) == MakeWeak(WeakActions(i), EVENT_OFF)

SameAlive == UNCHANGED <<resActionList, boostResCnt, wiped>>
\* A weak interaction may begin or cease to wait, but is not switched.
SameInter == UNCHANGED unlifted
SameHand == UNCHANGED <<items, phase>>

\* A task is submitted or becomes ready.
Arrives == /\ SameAlive /\ SameInter /\ SameHand
           /\ \E t \in Task : Called(t) /\ queue' = Append(queue, t)

\* The timer of a weak interaction is taken out of the queue.
Cancels == /\ SameAlive /\ SameInter /\ SameHand
           /\ \E k \in 1 .. Len(queue) : /\ queue[k].kind = "weakTimer"
                                         /\ queue' = RemoveAt(queue, k)

\* Nothing of this changes, but the worker may come to the end of its task.
Rests == /\ SameAlive /\ SameInter
         /\ UNCHANGED <<queue, items>>
         /\ \/ phase' = phase
            \/ phase' \in {"idle", "inter"} /\ (phase = "items" => items = <<>>)

\* The OFF of a weak interaction is submitted.
Lifts == /\ SameAlive /\ SameHand
         /\ \E i \in InterId :
               /\ queue' = Submit(queue, WeakOff(i))
               /\ unlifted' = [unlifted EXCEPT ![i] = @ \ {WeakActions(i)}]

\* The ON of a weak interaction is submitted, by the task of its timer.
Comes == /\ SameAlive /\ SameHand
         /\ phase = "idle" /\ queue # <<>> /\ Head(queue).kind = "weakTimer"
         /\ \E i \in InterId :
               /\ queue' = Submit(Tail(queue), WeakOn(i))
               /\ unlifted' = [unlifted EXCEPT ![i] = @ \cup {WeakActions(i)}]

\* The worker takes any other task.
Takes == /\ SameAlive /\ SameInter
         /\ phase = "idle" /\ queue # <<>> /\ queue' = Tail(queue)
         /\ \/ phase' = "items" /\ Range(items') = Carried(Head(queue))
            \/ items' = items /\ Carried(Head(queue)) = {} /\ phase' # "items"
         /\ phase' = "clear" => Head(queue).kind = "clear"

\* The worker applies, ends or clears requests.
Applies == /\ StepItem \/ StepLate \/ StepClear
           /\ UNCHANGED queue /\ SameInter

\* A call submits one of these tasks.
LEMMA CallerArrives == TypeOK /\ Caller => Arrives \/ Rests
<1> SUFFICES ASSUME TypeOK, Caller PROVE Arrives \/ Rests
  OBVIOUS
<1>1. ASSUME NEW t \in Task, Called(t), SubmitTask(t) PROVE Arrives
  <2>1. /\ queue' = Append(queue, t)
        /\ UNCHANGED <<resActionList, boostResCnt, wiped, unlifted,
                       items, phase>>
    BY <1>1 DEF SubmitTask, lists, modes, work
  <2> QED BY <1>1, <2>1 DEF Arrives, SameAlive, SameInter, SameHand
<1>2. CASE DoFreqActionPack
  <2>1. PICK p \in Packs, now \in Now :
          queue' = Append(queue, PackTask(MakePack(calls + 1, now, p)))
    BY <1>2 DEF DoFreqActionPack
  <2> DEFINE t == PackTask(MakePack(calls + 1, now, p))
  <2>2. calls + 1 \in Nat
    BY DEF TypeOK
  <2>3. t \in Task
    BY <2>2, MakePackType, TaskKinds
  <2>4. Called(t)
    BY <2>2, <2>3 DEF Called, CalledPack
  <2>5. UNCHANGED <<resActionList, boostResCnt, wiped, unlifted,
                    items, phase>>
    BY <1>2 DEF DoFreqActionPack, lists, modes, work
  <2> QED BY <2>1, <2>3, <2>4, <2>5 DEF Arrives, SameAlive, SameInter, SameHand
<1>3. CASE UpdateLimitStatus
  <2>1. PICK l \in Limits : SubmitTask([kind |-> l.kind, item |-> MakeLimit(l.limit)])
    BY <1>3 DEF UpdateLimitStatus
  <2>2. Called([kind |-> l.kind, item |-> MakeLimit(l.limit)])
    BY TaskKinds DEF Called, CalledLimit
  <2> QED BY <1>1, <2>1, <2>2, TaskKinds
<1>4. ASSUME NEW kind \in FlagKind, SetFlag(kind) PROVE Arrives
  <2>1. PICK on \in BOOLEAN : SubmitTask([kind |-> kind, on |-> on])
    BY <1>4 DEF SetFlag
  <2>2. Called([kind |-> kind, on |-> on])
    BY <1>4, TaskKinds DEF Called, CalledOther, SetFlag, FlagKind
  <2> QED BY <1>1, <2>1, <2>2, TaskKinds
<1>5. CASE \/ UpdatePowerLimitBoostFreq \/ UpdateThermalLimitBoostFreq
           \/ SetWeakInteractionStatus \/ SetPerformanceModeStatus
  BY <1>4, <1>5
     DEF UpdatePowerLimitBoostFreq, UpdateThermalLimitBoostFreq,
         SetWeakInteractionStatus, SetPerformanceModeStatus, FlagKind
<1>6. CASE ClearAllAliveRequest
  <2>1. Called([kind |-> "clear"]) \/ "clear" \notin Ops
    BY TaskKinds DEF Called, CalledOther
  <2> QED BY <1>1, <1>6, <2>1, TaskKinds DEF ClearAllAliveRequest
<1>7. CASE SetThermalLevel
  BY <1>7 DEF SetThermalLevel, Rests, SameAlive, SameInter, lists, modes, work
<1> QED BY <1>2, <1>3, <1>5, <1>6, <1>7 DEF Caller

\* What the worker takes in hand is what the task carries.
LEMMA StartTakes ==
    ASSUME TypeOK,
           \/ StartPack \/ DoFreqAction \/ DoFreqActionLevel \/ StartDelayed
           \/ StartPower \/ StartThermal \/ StartClear
           \/ StartWeakMode \/ StartPerfMode \/ StartWeakTimer
    PROVE  Takes \/ Comes
<1> DEFINE t == Head(queue)
<1>1. PICK kind \in {"pack", "freq", "level", "delayed", "power", "thermal", "clear",
                     "weakmode", "perfmode", "weakTimer"} : Take(kind)
  BY DEF StartPack, DoFreqAction, DoFreqActionLevel, StartDelayed, StartPower,
         StartThermal, StartClear, StartWeakMode, StartPerfMode, StartWeakTimer
<1>2. phase = "idle" /\ queue # <<>> /\ SameAlive /\ t \in Task
  BY <1>1, QueueTypes DEF Take, SameAlive, lists, TypeOK
<1>3. CASE StartPack \/ DoFreqAction \/ DoFreqActionLevel
  <2>1. /\ queue' = Tail(queue) /\ phase' = "items"
        /\ UNCHANGED unlifted
    BY <1>3 DEF StartPack, DoFreqAction, DoFreqActionLevel, modes
  <2>2. Range(items') = Carried(t)
    <3>1. CASE StartPack
      BY <3>1 DEF StartPack, Take, Carried
    <3>2. CASE DoFreqAction
      <4>1. items' = <<t.item>> /\ t.kind = "freq"
        BY <3>2 DEF DoFreqAction, Take
      <4> QED BY <4>1 DEF Carried, Range
    <3>3. CASE DoFreqActionLevel
      BY <3>3 DEF DoFreqActionLevel, Take, Carried
    <3> QED BY <1>3, <3>1, <3>2, <3>3
  <2> QED BY <1>2, <2>1, <2>2 DEF Takes, SameInter
<1>4. CASE StartDelayed \/ StartPower \/ StartThermal \/ StartClear \/ StartWeakMode
  <2>1. /\ queue' = Tail(queue) /\ phase' # "items" /\ items' = items
        /\ phase' = "clear" => t.kind = "clear"
        /\ UNCHANGED unlifted
    BY <1>4 DEF StartDelayed, StartPower, StartThermal, StartClear, StartWeakMode, Take,
                modes
  <2>2. Carried(t) = {}
    BY <1>4 DEF StartDelayed, StartPower, StartThermal, StartClear, StartWeakMode, Take,
                Carried
  <2> QED BY <1>2, <2>1, <2>2 DEF Takes, SameInter
<1>5. CASE StartPerfMode
  <2>1. /\ queue' = Tail(queue) /\ phase' = phase /\ items' = items
        /\ t.kind = "perfmode" /\ UNCHANGED unlifted
    BY <1>5 DEF StartPerfMode, Take, work
  <2> QED BY <1>2, <2>1 DEF Takes, SameInter, Carried
<1>6. CASE StartWeakTimer
  <2>1. t.kind = "weakTimer" /\ t.inter \in InterId
    BY <1>2, <1>6, TaskFields DEF StartWeakTimer, Take
  <2>2. /\ queue' = Submit(Tail(queue), WeakOn(t.inter))
        /\ unlifted' = [unlifted EXCEPT ![t.inter] = @ \cup {WeakActions(t.inter)}]
        /\ UNCHANGED <<items, phase>>
    BY <1>6 DEF StartWeakTimer, WeakOn, work
  <2> QED BY <1>2, <2>1, <2>2 DEF Comes, SameHand
<1> QED BY <1>3, <1>4, <1>5, <1>6

\* The worker looks at a weak interaction.
LEMMA InterMoves == TypeOK /\ WeakInteraction => Rests \/ Lifts \/ Cancels
<1> SUFFICES ASSUME TypeOK, NEW i \in InterId,
                    BoostEnds(i) \/ LiftWeak(i) \/ CancelWeakTimer(i) \/ KeepInter(i)
             PROVE  Rests \/ Lifts \/ Cancels
  BY DEF WeakInteraction
<1>1. SameAlive /\ SameHand
  BY DEF BoostEnds, LiftWeak, CancelWeakTimer, KeepInter, Inter, SameAlive, SameHand, lists
<1>2. CASE BoostEnds(i) \/ KeepInter(i)
  BY <1>1, <1>2 DEF BoostEnds, KeepInter, Rests, SameInter, SameHand
<1>3. CASE LiftWeak(i)
  BY <1>1, <1>3 DEF LiftWeak, Lifts, WeakOff
<1>4. CASE CancelWeakTimer(i)
  <2>1. SameInter
    BY <1>4 DEF CancelWeakTimer, SameInter
  <2>2. CASE queue' = queue
    BY <1>1, <2>1, <2>2 DEF Rests, SameHand
  <2>3. CASE queue' # queue
    <3>1. PICK k \in 1 .. Len(queue) : /\ queue[k] = WeakTimer(i)
                                      /\ queue' = RemoveAt(queue, k)
      BY <1>4, <2>3 DEF CancelWeakTimer, CancelTask
    <3>2. queue[k].kind = "weakTimer"
      BY <3>1 DEF WeakTimer
    <3> QED BY <1>1, <2>1, <3>1, <3>2 DEF Cancels
  <2> QED BY <2>2, <2>3
<1> QED BY <1>2, <1>3, <1>4

\* Whatever happens, it is one of these.
LEMMA Moves ==
    ASSUME TypeOK, [Next]_vars
    PROVE  Arrives \/ Cancels \/ Rests \/ Lifts \/ Comes \/ Takes \/ Applies
<1>1. CASE PostSome \/ StepArbitrate \/ SendResStatus \/ FinishTask \/ UNCHANGED vars
  BY <1>1 DEF PostSome, PostDelayTask, StepArbitrate, Step, SendResStatus, FinishTask, vars,
              sched, work, lists, modes, Rests, SameAlive, SameInter
<1>2. CASE StepItem \/ StepLate \/ StepClear
  BY <1>2 DEF Applies, StepItem, StepLate, StepClear, Step, modes, SameInter
<1>3. CASE ElapseSome
  <2>1. PICK t \in timers : Elapse(t)
    BY <1>3 DEF ElapseSome
  <2>2. t \in Task /\ t.kind \in {"delayed", "weakTimer"}
    BY <2>1, TaskKinds DEF TypeOK, DelayedTaskSet, WeakTimerSet
  <2>3. Called(t)
    BY <2>2 DEF Called, CalledOther
  <2> QED BY <2>1, <2>2, <2>3 DEF Elapse, Arrives, SameAlive, SameInter, SameHand,
                                  lists, work, modes
<1>4. CASE WeakInteraction
  BY <1>4, InterMoves
<1>5. CASE Caller
  BY <1>5, CallerArrives
<1> QED BY <1>1, <1>2, <1>3, <1>4, <1>5, StartTakes DEF Next, Worker

-----------------------------------------------------------------------------
(* What the queue holds *)

\* Every place of q is in the set B.
Within(q, B) == \A k \in 1 .. Len(q) : q[k] \in B

LEMMA WithinKept ==
    ASSUME NEW q \in Seq(Task), NEW B, Within(q, B)
    PROVE  /\ \A t \in Task \cap B : Within(Append(q, t), B)
           /\ q # <<>> => Within(Tail(q), B) /\ Head(q) \in B
           /\ \A k \in 1 .. Len(q) : Within(RemoveAt(q, k), B)
<1>1. ASSUME NEW t \in Task \cap B PROVE Within(Append(q, t), B)
  <2> DEFINE p == Append(q, t)
  <2>1. /\ Len(q) \in Nat /\ Len(p) = Len(q) + 1 /\ p[Len(q) + 1] = t
        /\ \A k \in 1 .. Len(q) : p[k] = q[k]
    BY AppendProperties
  <2> HIDE DEF p
  <2>2. ASSUME NEW k \in 1 .. Len(p) PROVE p[k] \in B
    BY <2>1 DEF Within
  <2> QED BY <2>2 DEF Within, p
<1>2. ASSUME q # <<>> PROVE Within(Tail(q), B) /\ Head(q) \in B
  <2> DEFINE p == Tail(q)
  <2>1. /\ Len(q) \in Nat \ {0} /\ Len(p) = Len(q) - 1 /\ Head(q) = q[1]
        /\ \A k \in 1 .. Len(p) : p[k] = q[k + 1]
    BY <1>2, HeadTailProperties
  <2> HIDE DEF p
  <2>2. ASSUME NEW k \in 1 .. Len(p) PROVE p[k] \in B
    <3>1. k + 1 \in 1 .. Len(q)
      BY <2>1
    <3> QED BY <2>1, <3>1 DEF Within
  <2> QED BY <2>1, <2>2 DEF Within, p
<1>3. ASSUME NEW n \in 1 .. Len(q) PROVE Within(RemoveAt(q, n), B)
  <2> DEFINE p == RemoveAt(q, n)
  <2>1. /\ Len(q) \in Nat /\ Len(p) = Len(q) - 1
        /\ \A k \in 1 .. Len(q) - 1 : p[k] = IF k < n THEN q[k] ELSE q[k + 1]
    BY RemovedPlaces
  <2> HIDE DEF p
  <2>2. ASSUME NEW k \in 1 .. Len(p) PROVE p[k] \in B
    <3>1. k \in 1 .. Len(q) /\ k + 1 \in 1 .. Len(q)
      BY <2>1
    <3> QED BY <2>1, <3>1 DEF Within
  <2> QED BY <2>2 DEF Within, p
<1> QED BY <1>1, <1>2, <1>3

\* The tasks in the queue stay in B when those that arrive are in it.
LEMMA QueueWithin ==
    ASSUME TypeOK, [Next]_vars, NEW B, Within(queue, B),
           \A t \in Task : Called(t) => t \in B,
           \A i \in InterId : PackTask(WeakOn(i)) \in B /\ PackTask(WeakOff(i)) \in B
    PROVE  Within(queue', B)
<1>1. queue \in Seq(Task)
  BY DEF TypeOK
<1>2. \A i \in InterId : PackTask(WeakOn(i)) \in Task /\ PackTask(WeakOff(i)) \in Task
  BY WeakItemsType, TaskKinds DEF TypeOK, WeakActions, WeakOn, WeakOff
<1>3. CASE Arrives
  BY <1>1, <1>3, WithinKept DEF Arrives
<1>4. CASE Cancels
  BY <1>1, <1>4, WithinKept DEF Cancels
<1>5. CASE Rests \/ Applies
  BY <1>5 DEF Rests, Applies
<1>6. CASE Lifts
  <2>1. PICK i \in InterId : queue' = Submit(queue, WeakOff(i))
    BY <1>6 DEF Lifts
  <2> DEFINE p == WeakOff(i)
  <2>2. PackTask(p) \in Task \cap B /\ queue' = Submit(queue, p)
    BY <1>2, <2>1
  <2> HIDE DEF p
  <2>3. Within(Append(queue, PackTask(p)), B)
    BY <1>1, <2>2, WithinKept
  <2> QED BY <2>2, <2>3 DEF Submit
<1>7. CASE Comes
  <2>1. PICK i \in InterId : queue' = Submit(Tail(queue), WeakOn(i))
    BY <1>7 DEF Comes
  <2> DEFINE p == WeakOn(i)
             q == Tail(queue)
  <2>2. PackTask(p) \in Task \cap B /\ queue' = Submit(q, p)
    BY <1>2, <2>1
  <2>3. q \in Seq(Task) /\ Within(q, B)
    BY <1>1, <1>7, WithinKept, QueueTypes DEF Comes
  <2> HIDE DEF p, q
  <2>4. Within(Append(q, PackTask(p)), B)
    BY <2>2, <2>3, WithinKept
  <2> QED BY <2>2, <2>3, <2>4 DEF Submit
<1>8. CASE Takes
  BY <1>1, <1>8, WithinKept DEF Takes
<1> QED BY <1>3, <1>4, <1>5, <1>6, <1>7, <1>8, Moves

\* The worker has requests in hand only while it applies them.
HandInv == items # <<>> => phase = "items"

LEMMA HandNext == TypeOK /\ HandInv /\ [Next]_vars => HandInv'
<1> SUFFICES ASSUME TypeOK, HandInv, [Next]_vars PROVE HandInv'
  OBVIOUS
<1>1. CASE Applies
  BY <1>1 DEF Applies, StepItem, StepLate, StepClear, Step, HandInv
<1>2. CASE ~ Applies
  BY <1>2, Moves
     DEF Arrives, Cancels, Rests, Lifts, Comes, Takes, SameHand, HandInv
<1> QED BY <1>1, <1>2

-----------------------------------------------------------------------------
(* What becomes of the requests *)

\* The OFF y ends the alive request x.
Undoes(y, x) == /\ y.act.onOff = EVENT_OFF /\ x.act.onOff = EVENT_ON
                /\ y.res = x.res /\ PartSame(y.act, x.act)

\* An OFF makes nothing alive, and no request that it ends stays alive: there are
\* no two of them.
LEMMA OffUndoes ==
    ASSUME TypeOK, NoTwoTotalSame, NEW y \in Item, y.act.onOff = EVENT_OFF, NEW lvl2,
           ByInstantMsg(y.res, y.act, lvl2)
    PROVE  \A x \in Alive' : x \in Alive /\ ~ Undoes(y, x)
<1> DEFINE r == y.res
           a == y.act
           L == resActionList[r][a.type]
           same == {b \in L : PartSame(a, b) /\ b.onOff = EVENT_ON}
<1>1. r \in Res /\ a \in ResAction /\ a.type \in ActionType
  BY DEF Item, ResAction
<1>2. HandleOff(r, a, lvl2)
  BY DEF ByInstantMsg
<1>3. ASSUME NEW x \in Alive, Undoes(y, x)
      PROVE  x.act \in same /\ x.res = r /\ x.act.type = a.type
  BY <1>3 DEF Alive, Undoes, PartSame
<1>4. CASE same = {} /\ UNCHANGED lists
  <2>1. Alive' = Alive
    BY <1>4 DEF Alive, lists
  <2> QED BY <1>3, <1>4, <2>1
<1>5. CASE \E b \in same : UpdateCandidatesValue(r, a.type, L \ {b}, lvl2)
  <2>1. PICK b \in same : resActionList' = [resActionList EXCEPT ![r][a.type] = L \ {b}]
    BY <1>5 DEF UpdateCandidatesValue
  <2>2. ASSUME NEW x \in Alive' PROVE x \in Alive /\ ~ Undoes(y, x)
    <3>1. x \in Item /\ x.act \in resActionList'[x.res][x.act.type]
      BY <2>2 DEF Alive
    <3>2. x.res \in Res /\ x.act.type \in ActionType
      BY <3>1 DEF Item, ResAction
    <3>3. CASE x.res = r /\ x.act.type = a.type
      <4>1. x.act \in L /\ x.act # b
        BY <1>1, <2>1, <3>1, <3>3 DEF TypeOK
      <4>2. x \in Alive
        BY <3>1, <3>3, <4>1 DEF Alive
      <4>3. ASSUME Undoes(y, x) PROVE FALSE
        <5>1. TotalSame(x.act, b)
          BY <4>3 DEF Undoes, PartSame, TotalSame
        <5> QED BY <1>1, <4>1, <5>1 DEF NoTwoTotalSame
      <4> QED BY <4>2, <4>3
    <3>4. CASE ~ (x.res = r /\ x.act.type = a.type)
      <4>1. x \in Alive
        BY <1>1, <2>1, <3>1, <3>2, <3>4 DEF TypeOK, Alive
      <4> QED BY <1>3, <3>4, <4>1
    <3> QED BY <3>3, <3>4
  <2> QED BY <2>2
<1> QED BY <1>2, <1>4, <1>5 DEF HandleOff

\* Clearing makes nothing alive.
LEMMA ClearAlive == TypeOK /\ StepClear => Alive' \subseteq Alive
<1> SUFFICES ASSUME TypeOK, StepClear, NEW x \in Alive' PROVE x \in Alive
  OBVIOUS
<1>1. PICK r : resActionList' = [resActionList EXCEPT ![r]["perf"] = {}]
  BY DEF StepClear, UpdateCandidatesValue
<1>2. x \in Item /\ x.act \in resActionList'[x.res][x.act.type]
  BY DEF Alive
<1>3. x.res \in Res /\ x.act.type \in ActionType
  BY <1>2 DEF Item, ResAction
<1>4. x.act \in resActionList[x.res][x.act.type]
  BY <1>1, <1>2, <1>3 DEF TypeOK
<1> QED BY <1>2, <1>4 DEF Alive

\* What becomes alive was in hand, and is no OFF; what an OFF in hand ends is not
\* alive after it.
LEMMA AppliesAlive ==
    ASSUME TypeOK, NoTwoTotalSame, Applies
    PROVE  /\ Range(items') \subseteq Range(items)
           /\ \A x \in Alive' : \/ x \in Alive
                                \/ x \in Range(items) /\ x.act.onOff # EVENT_OFF
           /\ \A y \in Range(items) \ Range(items') :
                 y.act.onOff = EVENT_OFF => \A x \in Alive' : ~ Undoes(y, x)
<1>1. CASE StepItem
  <2> DEFINE h == Head(items)
  <2>1. PICK lvl2 : ByInstantMsg(h.res, h.act, lvl2)
    BY <1>1 DEF StepItem
  <2>2. items \in Seq(Item) /\ items # <<>> /\ items' = Tail(items)
    BY <1>1 DEF StepItem, TypeOK
  <2>3. h \in Item /\ h \in Range(items) /\ Range(items') \subseteq Range(items)
    BY <2>2, HeadTailProperties DEF Range
  <2>4. ASSUME NEW y \in Range(items) \ Range(items') PROVE y = h
    <3>1. PICK k \in 1 .. Len(items) : y = items[k]
      BY <2>2 DEF Range
    <3>2. CASE k = 1
      BY <2>2, <3>1, <3>2, HeadTailProperties
    <3>3. CASE k # 1
      <4>1. k - 1 \in 1 .. Len(items') /\ items'[k - 1] = items[k]
        BY <2>2, <3>1, <3>3, HeadTailProperties
      <4>2. DOMAIN items' = 1 .. Len(items')
        BY <2>2, HeadTailProperties
      <4> QED BY <2>4, <3>1, <4>1, <4>2 DEF Range
    <3> QED BY <3>2, <3>3
  <2>5. CASE h.act.onOff = EVENT_OFF
    <3>1. \A x \in Alive' : x \in Alive /\ ~ Undoes(h, x)
      BY <2>1, <2>3, <2>5, OffUndoes
    <3> QED BY <2>3, <2>4, <3>1
  <2>6. CASE h.act.onOff # EVENT_OFF
    <3>1. Alive' \subseteq Alive \cup {h}
      BY <2>1, <2>3, ByInstantMsgAlive
    <3> QED BY <2>3, <2>4, <2>6, <3>1
  <2> QED BY <2>5, <2>6
<1>2. CASE StepLate
  <2>1. PICK it \in late : \E lvl2 : ByDelayedMsg(it.res, it.act, lvl2)
    BY <1>2 DEF StepLate
  <2>2. it \in Item /\ items' = items
    BY <1>2, <2>1 DEF StepLate, TypeOK
  <2>3. Alive' = Alive \ {it}
    BY <2>1, <2>2, ByDelayedMsgAlive
  <2> QED BY <2>2, <2>3
<1>3. CASE StepClear
  <2>1. items' = items
    BY <1>3 DEF StepClear
  <2> QED BY <1>3, <2>1, ClearAlive
<1> QED BY <1>1, <1>2, <1>3 DEF Applies

\* Everything submitted, in hand or alive is in G, and no OFF is alive.
CarriedIn(G) == /\ Within(queue, {t \in Task : Carried(t) \subseteq G})
                /\ Range(items) \subseteq G
                /\ \A it \in Alive : it \in G /\ it.act.onOff # EVENT_OFF

\* Everything that calls, or the weak interactions, submit is.
CallsIn(G) ==
    /\ \A p \in Packs, n \in Nat, now \in Now : Range(MakePack(n, now, p)) \subseteq G
    /\ \A l \in Limits : Carried([kind |-> l.kind, item |-> MakeLimit(l.limit)]) \subseteq G
WeakIn(G) == \A i \in InterId : Range(WeakOn(i)) \subseteq G /\ Range(WeakOff(i)) \subseteq G

LEMMA CarriedNext ==
    ASSUME TypeOK, NoTwoTotalSame, [Next]_vars, NEW G, CallsIn(G), WeakIn(G), CarriedIn(G)
    PROVE  CarriedIn(G)'
<1> DEFINE B == {t \in Task : Carried(t) \subseteq G}
<1>1. ASSUME NEW t \in Task, Called(t) PROVE t \in B
  <2>1. CASE CalledPack(t)
    BY <2>1 DEF CalledPack, PackTask, Carried, CallsIn
  <2>2. CASE CalledLimit(t)
    BY <2>2 DEF CalledLimit, CallsIn
  <2>3. CASE CalledOther(t)
    BY <2>3 DEF CalledOther, Carried
  <2> QED BY <1>1, <2>1, <2>2, <2>3 DEF Called
<1>2. \A i \in InterId : PackTask(WeakOn(i)) \in B /\ PackTask(WeakOff(i)) \in B
  <2>1. \A i \in InterId : PackTask(WeakOn(i)) \in Task /\ PackTask(WeakOff(i)) \in Task
    BY WeakItemsType, TaskKinds DEF TypeOK, WeakActions, WeakOn, WeakOff
  <2> QED BY <2>1 DEF PackTask, Carried, WeakIn
<1>3. Within(queue, B)
  BY DEF CarriedIn
<1> HIDE DEF B
<1>4. Within(queue', B)
  BY <1>1, <1>2, <1>3, QueueWithin
<1>5. CASE Applies
  <2>1. Range(items') \subseteq G /\ \A it \in Alive' : it \in G /\ it.act.onOff # EVENT_OFF
    BY <1>5, AppliesAlive DEF CarriedIn
  <2> QED BY <1>4, <2>1 DEF CarriedIn, B
<1>6. CASE ~ Applies
  <2>1. SameAlive
    BY <1>6, Moves DEF Arrives, Cancels, Rests, Lifts, Comes, Takes
  <2>2. Alive' = Alive
    BY <2>1 DEF SameAlive, Alive
  <2>3. Range(items') \subseteq G
    <3>1. CASE Takes
      <4>1. Head(queue) \in B
        BY <1>3, <3>1, WithinKept DEF Takes, TypeOK
      <4> QED BY <3>1, <4>1 DEF Takes, CarriedIn, B
    <3>2. CASE ~ Takes
      BY <1>6, <3>2, Moves DEF Arrives, Cancels, Rests, Lifts, Comes, SameHand, CarriedIn
    <3> QED BY <3>1, <3>2
  <2> QED BY <1>4, <2>2, <2>3 DEF CarriedIn, B
<1> QED BY <1>5, <1>6

-----------------------------------------------------------------------------
(* The number of interactive requests alive                                    *)

Fits(it) == it.act.interaction <=> it.act.type = "perf" /\ it.act.cmdId \in InteractiveCmd
Fitting == {it \in Item : Fits(it)}

\* All that is submitted is marked by its command.
LEMMA CallsFit == InteractionByCommand => CallsIn(Fitting)
<1> SUFFICES ASSUME InteractionByCommand PROVE CallsIn(Fitting)
  OBVIOUS
<1>1. ASSUME NEW p \in Packs, NEW n \in Nat, NEW now \in Now,
             NEW it \in Range(MakePack(n, now, p))
      PROVE  it \in Fitting
  <2>1. MakePack(n, now, p) \in Seq(Item)
    BY MakePackType
  <2>2. PICK k \in 1 .. Len(p) : it = MakePack(n, now, p)[k]
    BY <1>1 DEF Range, MakePack
  <2>3. it \in Item
    BY <2>1, <1>1 DEF Range
  <2>4. p \in Seq(Template) /\ p[k] \in Template
    <3>1. p \in Seq(Template)
      BY WrapAssumption
    <3> QED BY <3>1
  <2>5. /\ it.act.interaction = (p[k].interaction /\ p[k].type = "perf")
        /\ it.act.type = p[k].type /\ it.act.cmdId = p[k].cmdId
    BY <2>2 DEF MakePack
  <2>6. p[k].interaction <=> p[k].cmdId \in InteractiveCmd
    BY <2>4 DEF InteractionByCommand, InteractiveCmd, Template
  <2> QED BY <2>3, <2>5, <2>6 DEF Fitting, Fits
<1>2. ASSUME NEW l \in Limits,
             NEW it \in Carried([kind |-> l.kind, item |-> MakeLimit(l.limit)])
      PROVE  it \in Fitting
  <2> DEFINE m == MakeLimit(l.limit)
             t == [kind |-> l.kind, item |-> m]
  <2>1. /\ m.act.interaction = FALSE /\ m.act.type = l.limit.type
        /\ m.act.cmdId = l.limit.cmdId
    BY DEF MakeLimit
  <2>2. t \in Task /\ t.kind = l.kind /\ t.item = m
    BY TaskKinds
  <2>3. CASE l.kind = "freq"
    <3>1. m \in Item /\ it = m
      BY <1>2, <2>2, <2>3, TaskFields, LimitItemIsItem DEF Carried
    <3> QED BY <2>1, <3>1 DEF Fitting, Fits, InteractionByCommand
  <2>4. CASE l.kind = "level"
    <3>1. m \in LimitItem(Level) /\ it \in Range(LevelItems(m))
      BY <1>2, <2>2, <2>4, TaskFields DEF Carried
    <3> DEFINE v == ValueByLevel(m.res, m.act.value)
               new == [m EXCEPT !.act.value = v]
    <3>2. it = new
      BY <3>1 DEF LevelItems, Range
    <3>3. new.act.interaction = FALSE /\ new.act.type = m.act.type
          /\ new.act.cmdId = m.act.cmdId
      <4> HIDE DEF v, m
      <4> QED BY <3>1 DEF LimitItem
    <3>4. it \in Item
      BY <3>1, LevelItemsType DEF Range
    <3> HIDE DEF new
    <3> QED BY <2>1, <3>2, <3>3, <3>4 DEF Fitting, Fits, InteractionByCommand
  <2> QED BY <2>3, <2>4, WrapAssumption DEF FreqLimit, LevelLimit
<1> QED BY <1>1, <1>2 DEF CallsIn

LEMMA WeakFits == InteractionByCommand /\ TypeOK => WeakIn(Fitting)
<1> SUFFICES ASSUME InteractionByCommand, TypeOK, NEW i \in InterId,
                    NEW onOff \in {EVENT_ON, EVENT_OFF},
                    NEW it \in Range(MakeWeak(WeakActions(i), onOff))
             PROVE  it \in Fitting
  BY DEF WeakIn, WeakOn, WeakOff
<1>1. PICK m \in BOOLEAN : WeakActions(i) = WeakTemplates[i][m]
  BY DEF TypeOK, WeakActions
<1> DEFINE p == WeakTemplates[i][m]
<1>2. it \in Item
  BY <1>1, WeakItemsType DEF Range
<1>3. PICK k \in 1 .. Len(p) : it = MakeWeak(p, onOff)[k]
  BY <1>1 DEF Range, MakeWeak
<1>4. /\ it.act.interaction = FALSE /\ it.act.type = p[k].type
      /\ it.act.cmdId = p[k].cmdId
  BY <1>3 DEF MakeWeak
<1> QED BY <1>2, <1>4 DEF Fitting, Fits, InteractionByCommand

\* The interactive ones of a set of requests.
Interactive(A) == {x \in A : x.act.interaction}

LEMMA CountOne ==
    ASSUME NEW A, NEW x, IsFiniteSet(Interactive(A)), x.act.interaction \in BOOLEAN
    PROVE  /\ IsFiniteSet(Interactive(A \ {x})) /\ IsFiniteSet(Interactive(A \cup {x}))
           /\ Cardinality(Interactive(A)) \in Nat
           /\ x \in A => Cardinality(Interactive(A \ {x}))
                            = Cardinality(Interactive(A)) - Cnt(x.act)
           /\ x \notin A => Cardinality(Interactive(A \cup {x}))
                               = Cardinality(Interactive(A)) + Cnt(x.act)
<1> DEFINE I == Interactive(A)
<1>1. CASE x.act.interaction = TRUE
  <2>1. Interactive(A \ {x}) = I \ {x} /\ Interactive(A \cup {x}) = I \cup {x}
        /\ (x \in I <=> x \in A)
    BY <1>1 DEF Interactive
  <2>2. Cnt(x.act) = 1
    BY <1>1 DEF Cnt
  <2> HIDE DEF I
  <2>3. /\ IsFiniteSet(I \cup {x}) /\ IsFiniteSet(I \ {x})
        /\ Cardinality(I \cup {x}) = IF x \in I THEN Cardinality(I) ELSE Cardinality(I) + 1
        /\ Cardinality(I \ {x}) = IF x \in I THEN Cardinality(I) - 1 ELSE Cardinality(I)
    BY FS_AddElement, FS_RemoveElement DEF I
  <2> QED BY <2>1, <2>2, <2>3, FS_CardinalityType DEF I
<1>2. CASE x.act.interaction = FALSE
  <2>1. Interactive(A \ {x}) = I /\ Interactive(A \cup {x}) = I
    BY <1>2 DEF Interactive
  <2>2. Cnt(x.act) = 0
    BY <1>2 DEF Cnt
  <2>3. Cardinality(I) \in Nat
    BY FS_CardinalityType
  <2> HIDE DEF I
  <2> QED BY <2>1, <2>2, <2>3 DEF I
<1> QED BY <1>1, <1>2

\* What is alive when one list has changed.
LEMMA ListAlive ==
    ASSUME TypeOK, NEW r \in Res, NEW t \in ActionType, NEW S,
           resActionList' = [resActionList EXCEPT ![r][t] = S]
    PROVE  \A x \in Item : x \in Alive' <=> IF x.res = r /\ x.act.type = t THEN x.act \in S
                                           ELSE x \in Alive
<1> SUFFICES ASSUME NEW x \in Item
             PROVE  x \in Alive' <=> IF x.res = r /\ x.act.type = t THEN x.act \in S
                                     ELSE x \in Alive
  OBVIOUS
<1>1. x.res \in Res /\ x.act.type \in ActionType
  BY DEF Item, ResAction
<1>2. x \in Alive' <=> x.act \in resActionList'[x.res][x.act.type]
  BY DEF Alive
<1>3. x \in Alive <=> x.act \in resActionList[x.res][x.act.type]
  BY DEF Alive
<1> QED BY <1>1, <1>2, <1>3 DEF TypeOK

\* The counter is too high by this much.
Surplus == boostResCnt - Cardinality(Interactive(Alive))
Counted == IsFiniteSet(Interactive(Alive)) /\ boostResCnt \in Int
SurplusKept == Counted' /\ Surplus' = Surplus

\* One request less, one more, or one in the place of another.
LEMMA OneLess ==
    ASSUME Counted, NEW x \in Alive, Alive' = Alive \ {x},
           boostResCnt' = boostResCnt - Cnt(x.act)
    PROVE  SurplusKept
<1>1. x.act.interaction \in BOOLEAN
  BY DEF Alive, Item, ResAction
<1> DEFINE A == Alive
<1>2. IsFiniteSet(Interactive(A)) /\ x \in A
  BY DEF Counted
<1> HIDE DEF A
<1>3. /\ IsFiniteSet(Interactive(A \ {x})) /\ Cardinality(Interactive(A)) \in Nat
      /\ Cardinality(Interactive(A \ {x})) = Cardinality(Interactive(A)) - Cnt(x.act)
  BY <1>1, <1>2, CountOne
<1>4. Cnt(x.act) \in Int
  BY DEF Cnt
<1>5. Counted'
  BY <1>3, <1>4 DEF Counted, A
<1>6. Surplus' = (boostResCnt - Cnt(x.act)) - (Cardinality(Interactive(A)) - Cnt(x.act))
  BY <1>3 DEF Surplus, A
<1>7. Surplus = boostResCnt - Cardinality(Interactive(A))
  BY DEF Surplus, A
<1> QED BY <1>3, <1>4, <1>5, <1>6, <1>7 DEF SurplusKept, Counted

LEMMA OneMore ==
    ASSUME Counted, NEW x \in Item, x \notin Alive, Alive' = Alive \cup {x},
           boostResCnt' = boostResCnt + Cnt(x.act)
    PROVE  SurplusKept
<1>1. x.act.interaction \in BOOLEAN
  BY DEF Item, ResAction
<1> DEFINE A == Alive
<1>2. IsFiniteSet(Interactive(A)) /\ x \notin A
  BY DEF Counted
<1> HIDE DEF A
<1>3. /\ IsFiniteSet(Interactive(A \cup {x})) /\ Cardinality(Interactive(A)) \in Nat
      /\ Cardinality(Interactive(A \cup {x})) = Cardinality(Interactive(A)) + Cnt(x.act)
  BY <1>1, <1>2, CountOne
<1>4. Cnt(x.act) \in Int
  BY DEF Cnt
<1>5. Counted'
  BY <1>3, <1>4 DEF Counted, A
<1>6. Surplus' = (boostResCnt + Cnt(x.act)) - (Cardinality(Interactive(A)) + Cnt(x.act))
  BY <1>3 DEF Surplus, A
<1>7. Surplus = boostResCnt - Cardinality(Interactive(A))
  BY DEF Surplus, A
<1> QED BY <1>3, <1>4, <1>5, <1>6, <1>7 DEF SurplusKept, Counted

LEMMA OneForAnother ==
    ASSUME Counted, NEW x \in Item, NEW y \in Alive, x \notin Alive \ {y},
           Alive' = (Alive \ {y}) \cup {x}, Cnt(x.act) = Cnt(y.act),
           boostResCnt' = boostResCnt
    PROVE  SurplusKept
<1>1. x.act.interaction \in BOOLEAN /\ y.act.interaction \in BOOLEAN
  BY DEF Alive, Item, ResAction
<1> DEFINE A == Alive
           C == Alive \ {y}
<1>2. IsFiniteSet(Interactive(A)) /\ y \in A /\ x \notin C /\ C = A \ {y}
  BY DEF Counted
<1> HIDE DEF A, C
<1>3. /\ IsFiniteSet(Interactive(C)) /\ Cardinality(Interactive(A)) \in Nat
      /\ Cardinality(Interactive(C)) = Cardinality(Interactive(A)) - Cnt(y.act)
  BY <1>1, <1>2, CountOne
<1>4. /\ IsFiniteSet(Interactive(C \cup {x}))
      /\ Cardinality(Interactive(C \cup {x})) = Cardinality(Interactive(C)) + Cnt(x.act)
  BY <1>1, <1>2, <1>3, CountOne
<1>5. Cnt(x.act) \in Int /\ Cnt(x.act) = Cnt(y.act)
  BY DEF Cnt
<1>6. Cardinality(Interactive(C \cup {x})) = Cardinality(Interactive(A))
  BY <1>3, <1>4, <1>5
<1>7. Alive' = C \cup {x}
  BY DEF C
<1>8. Counted' /\ Surplus' = Surplus
  BY <1>4, <1>6, <1>7 DEF Counted, Surplus, A
<1> QED BY <1>8 DEF SurplusKept

LEMMA SameCount ==
    ASSUME Counted, Alive' = Alive, boostResCnt' = boostResCnt PROVE SurplusKept
BY DEF Counted, Surplus, SurplusKept

\* Requests of one type and command are both interactive, or neither is.
LEMMA FitAlike ==
    ASSUME NEW x \in Fitting, NEW y \in Fitting, PartSame(x.act, y.act)
    PROVE  Cnt(x.act) = Cnt(y.act)
BY DEF Fitting, Fits, PartSame, Cnt, Item, ResAction

\* A request applied is counted.
LEMMA InstantCounts ==
    ASSUME TypeOK, NoTwoTotalSame, CarriedIn(Fitting), Counted, NEW x \in Fitting, NEW lvl2,
           ByInstantMsg(x.res, x.act, lvl2)
    PROVE  SurplusKept
<1> DEFINE r == x.res
           a == x.act
           L == resActionList[r][a.type]
           It(b) == [res |-> r, act |-> b]
<1>1. x \in Item /\ r \in Res /\ a \in ResAction /\ a.type \in ActionType /\ It(a) = x
  BY DEF Fitting, Item, ResAction
<1>2. L \subseteq ResAction
  BY <1>1 DEF TypeOK
<1>3. ASSUME NEW b \in L, b.type = a.type
      PROVE  It(b) \in Alive /\ It(b) \in Fitting /\ It(b).act = b /\ It(b).res = r
  BY <1>1, <1>2, <1>3 DEF Alive, Item, CarriedIn
<1>4. Alive \subseteq Item /\ Alive' \subseteq Item
  BY DEF Alive
<1>5. ASSUME NEW S, resActionList' = [resActionList EXCEPT ![r][a.type] = S], NEW z \in Item
      PROVE  z \in Alive' <=> IF z.res = r /\ z.act.type = a.type THEN z.act \in S
                              ELSE z \in Alive
  BY <1>1, <1>5, ListAlive
<1>6. ASSUME NEW z \in Item, z.res = r /\ z.act.type = a.type
      PROVE  (z \in Alive <=> z.act \in L) /\ z = It(z.act)
  BY <1>6 DEF Alive, Item
<1> HIDE DEF It
<1>7. CASE HandleOff(r, a, lvl2)
  <2> DEFINE same == {b \in L : PartSame(a, b) /\ b.onOff = EVENT_ON}
  <2>1. CASE UNCHANGED <<lists, results, boostResCnt>>
    <3>1. Alive' = Alive
      BY <2>1 DEF Alive, lists
    <3> QED BY <2>1, <3>1, SameCount
  <2>2. CASE \E b \in same : /\ UpdateCandidatesValue(r, a.type, L \ {b}, lvl2)
                             /\ boostResCnt' = boostResCnt - Cnt(a)
    <3>1. PICK b \in same : /\ resActionList' = [resActionList EXCEPT ![r][a.type] = L \ {b}]
                            /\ boostResCnt' = boostResCnt - Cnt(a)
      BY <2>2 DEF UpdateCandidatesValue
    <3>2. b \in L /\ b.type = a.type /\ PartSame(a, b)
      BY DEF PartSame
    <3>3. It(b) \in Alive /\ It(b) \in Fitting /\ It(b).act = b /\ It(b).res = r
      BY <1>3, <3>2
    <3>4. Cnt(a) = Cnt(It(b).act)
      BY <3>2, <3>3, FitAlike
    <3>5. ASSUME NEW z \in Item PROVE z \in Alive' <=> z \in Alive /\ z # It(b)
      <4>1. z \in Alive' <=> IF z.res = r /\ z.act.type = a.type THEN z.act \in L \ {b}
                             ELSE z \in Alive
        BY <1>5, <3>1
      <4>2. CASE z.res = r /\ z.act.type = a.type
        BY <1>6, <3>3, <4>1, <4>2
      <4>3. CASE ~ (z.res = r /\ z.act.type = a.type)
        BY <3>2, <3>3, <4>1, <4>3
      <4> QED BY <4>2, <4>3
    <3>6. Alive' = Alive \ {It(b)}
      BY <1>4, <3>5
    <3> QED BY <3>1, <3>3, <3>4, <3>6, OneLess
  <2> QED BY <1>7, <2>1, <2>2 DEF HandleOff
<1>8. CASE HandleResAction(r, a, lvl2)
  <2>1. CASE /\ Replaced(a, L) = {}
             /\ UpdateCandidatesValue(r, a.type, L \cup {a}, lvl2)
             /\ boostResCnt' = boostResCnt + Cnt(a)
    <3>1. resActionList' = [resActionList EXCEPT ![r][a.type] = L \cup {a}]
      BY <2>1 DEF UpdateCandidatesValue
    <3>2. a \notin L
      BY <2>1 DEF Replaced, TotalSame, PartSame
    <3>3. x \notin Alive
      BY <1>1, <1>6, <3>2
    <3>4. ASSUME NEW z \in Item PROVE z \in Alive' <=> z \in Alive \/ z = x
      <4>1. z \in Alive' <=> IF z.res = r /\ z.act.type = a.type THEN z.act \in L \cup {a}
                             ELSE z \in Alive
        BY <1>5, <3>1
      <4>2. CASE z.res = r /\ z.act.type = a.type
        BY <1>1, <1>6, <4>1, <4>2
      <4>3. CASE ~ (z.res = r /\ z.act.type = a.type)
        BY <4>1, <4>3
      <4> QED BY <4>2, <4>3
    <3>5. Alive' = Alive \cup {x}
      BY <1>1, <1>4, <3>4
    <3> QED BY <1>1, <2>1, <3>3, <3>5, OneMore
  <2>2. CASE \E b \in Replaced(a, L) :
               /\ UpdateCandidatesValue(r, a.type, (L \ {b}) \cup {a}, lvl2)
               /\ UNCHANGED boostResCnt
    <3>1. PICK b \in Replaced(a, L) :
            /\ resActionList' = [resActionList EXCEPT ![r][a.type] = (L \ {b}) \cup {a}]
            /\ UNCHANGED boostResCnt
      BY <2>2 DEF UpdateCandidatesValue
    <3>2. b \in L /\ b.type = a.type /\ PartSame(a, b) /\ TotalSame(a, b)
      BY DEF Replaced, TotalSame, PartSame
    <3>3. It(b) \in Alive /\ It(b) \in Fitting /\ It(b).act = b /\ It(b).res = r
      BY <1>3, <3>2
    <3>4. Cnt(x.act) = Cnt(It(b).act)
      BY <3>2, <3>3, FitAlike
    <3>5. x \notin Alive \ {It(b)}
      <4>1. SUFFICES ASSUME x \in Alive, x # It(b) PROVE FALSE
        OBVIOUS
      <4>2. a \in L /\ a # b
        BY <1>1, <1>6, <4>1
      <4> QED BY <1>1, <3>2, <4>2 DEF NoTwoTotalSame
    <3>6. ASSUME NEW z \in Item
          PROVE  z \in Alive' <=> (z \in Alive /\ z # It(b)) \/ z = x
      <4>1. z \in Alive' <=> IF z.res = r /\ z.act.type = a.type
                             THEN z.act \in (L \ {b}) \cup {a} ELSE z \in Alive
        BY <1>5, <3>1
      <4>2. CASE z.res = r /\ z.act.type = a.type
        BY <1>1, <1>6, <3>3, <4>1, <4>2
      <4>3. CASE ~ (z.res = r /\ z.act.type = a.type)
        BY <3>2, <3>3, <4>1, <4>3
      <4> QED BY <4>2, <4>3
    <3>7. Alive' = (Alive \ {It(b)}) \cup {x}
      BY <1>1, <1>4, <3>6
    <3> QED BY <1>1, <3>1, <3>3, <3>4, <3>5, <3>7, OneForAnother
  <2> QED BY <1>8, <2>1, <2>2 DEF HandleResAction
<1> QED BY <1>7, <1>8 DEF ByInstantMsg

\* The interactive requests alive are those of the PERF lists.
LEMMA InteractiveArePerf ==
    ASSUME TypeOK, CarriedIn(Fitting), ListsTyped
    PROVE  InteractiveAlive = Interactive(Alive)
<1>1. ASSUME NEW x \in InteractiveAlive PROVE x \in Interactive(Alive)
  <2>1. PICK r \in Res : \E a \in resActionList[r]["perf"] :
                             a.interaction /\ x = [res |-> r, act |-> a]
    BY <1>1 DEF InteractiveAlive
  <2>2. PICK a \in resActionList[r]["perf"] : a.interaction /\ x = [res |-> r, act |-> a]
    BY <2>1
  <2>3. "perf" \in ActionType
    BY DEF ActionType
  <2>4. a \in ResAction /\ a.type = "perf"
    BY <2>3 DEF TypeOK, ListsTyped
  <2> QED BY <2>2, <2>4 DEF Interactive, Alive, Item
<1>2. ASSUME NEW x \in Interactive(Alive) PROVE x \in InteractiveAlive
  <2>1. x \in Alive /\ x.act.interaction /\ x \in Fitting /\ x \in Item
    BY <1>2 DEF Interactive, CarriedIn, Fitting
  <2>2. x.act.type = "perf"
    BY <2>1 DEF Fitting, Fits
  <2>3. x.act \in resActionList[x.res]["perf"] /\ x.res \in Res
        /\ x = [res |-> x.res, act |-> x.act]
    BY <2>1, <2>2 DEF Alive, Item
  <2> DEFINE own(r) == {[res |-> r, act |-> a] :
                           a \in {b \in resActionList[r]["perf"] : b.interaction}}
  <2>4. x \in own(x.res)
    BY <2>1, <2>3
  <2>5. InteractiveAlive = UNION {own(r) : r \in Res}
    BY DEF InteractiveAlive
  <2> HIDE DEF own
  <2> QED BY <2>3, <2>4, <2>5
<1> QED BY <1>1, <1>2

\* So is one that expires; clearing leaves the counter too high.
LEMMA AppliesCounts ==
    ASSUME TypeOK, NoTwoTotalSame, ListsTyped, CarriedIn(Fitting), Counted, Applies
    PROVE  /\ ~ StepClear => SurplusKept
           /\ StepClear => /\ Counted'
                           /\ wiped \in Nat /\ Surplus = wiped
                                 => wiped' \in Nat /\ Surplus' = wiped'
<1>1. CASE StepItem
  <2>1. PICK lvl2 : ByInstantMsg(Head(items).res, Head(items).act, lvl2)
    BY <1>1 DEF StepItem
  <2>2. Head(items) \in Range(items)
    BY <1>1, HeadTailProperties DEF StepItem, TypeOK, Range
  <2>3. Head(items) \in Fitting
    BY <2>2 DEF CarriedIn
  <2> DEFINE h == Head(items)
  <2>4. h \in Fitting /\ ByInstantMsg(h.res, h.act, lvl2)
    BY <2>1, <2>3
  <2> HIDE DEF h
  <2>5. SurplusKept
    BY <2>4, InstantCounts
  <2>6. ~ StepClear
    BY <1>1 DEF StepItem, StepClear, Step
  <2> QED BY <2>5, <2>6
<1>2. CASE StepLate
  <2>1. PICK it \in late : \E lvl2 : ByDelayedMsg(it.res, it.act, lvl2)
    BY <1>2 DEF StepLate
  <2>2. PICK lvl2 : ByDelayedMsg(it.res, it.act, lvl2)
    BY <2>1
  <2>3. it \in Item
    BY <2>1 DEF TypeOK
  <2>4. Alive' = Alive \ {it}
    BY <2>2, <2>3, ByDelayedMsgAlive
  <2>5. it \in Alive <=> it.act \in resActionList[it.res][it.act.type]
    BY <2>3 DEF Alive
  <2>6. CASE it \in Alive
    <3>1. boostResCnt' = boostResCnt - Cnt(it.act)
      BY <2>2, <2>5, <2>6 DEF ByDelayedMsg, Expired
    <3> QED BY <1>2, <2>4, <2>6, <3>1, OneLess DEF StepLate, StepClear, Step
  <2>7. CASE it \notin Alive
    <3>1. boostResCnt' = boostResCnt
      BY <2>2, <2>5, <2>7 DEF ByDelayedMsg, Expired
    <3> QED BY <1>2, <2>4, <2>7, <3>1, SameCount DEF StepLate, StepClear, Step
  <2> QED BY <2>6, <2>7
<1>3. CASE StepClear
  <2>1. PICK r \in todo :
          /\ resActionList' = [resActionList EXCEPT ![r]["perf"] = {}]
          /\ wiped' = wiped + Cardinality({it \in InteractiveAlive : it.res = r})
    BY <1>3 DEF StepClear, UpdateCandidatesValue
  <2>2. r \in Res /\ "perf" \in ActionType /\ boostResCnt' = boostResCnt
    BY <1>3, <2>1 DEF StepClear, TypeOK, ActionType
  <2> DEFINE I == Interactive(Alive)
             J == Interactive(Alive')
             W == {it \in I : it.res = r}
  <2>3. ASSUME NEW z \in Item PROVE z \in J <=> z \in I \ W
    <3>1. z \in Alive' <=> IF z.res = r /\ z.act.type = "perf" THEN z.act \in {}
                           ELSE z \in Alive
      BY <2>1, <2>2, ListAlive
    <3>2. z \in Interactive(Alive) => z.act.type = "perf"
      BY DEF Interactive, CarriedIn, Fitting, Fits
    <3> QED BY <3>1, <3>2 DEF Interactive
  <2>4. I \subseteq Item /\ J \subseteq Item /\ W \subseteq I
    BY DEF Interactive, Alive
  <2>5. IsFiniteSet(I) /\ boostResCnt \in Int
    BY DEF Counted
  <2>6. wiped' = wiped + Cardinality(W)
    BY <2>1, InteractiveArePerf
  <2> HIDE DEF I, J, W
  <2>7. J = I \ W /\ I \cap W = W
    BY <2>3, <2>4
  <2>8. /\ IsFiniteSet(J) /\ Cardinality(J) = Cardinality(I) - Cardinality(W)
        /\ IsFiniteSet(W)
    <3>1. W \in SUBSET I
      BY <2>4
    <3>2. IsFiniteSet(I \ W) /\ Cardinality(I \ W) = Cardinality(I) - Cardinality(I \cap W)
      BY <2>5, FS_Difference
    <3>3. IsFiniteSet(W)
      BY <2>5, <3>1, FS_Subset
    <3> QED BY <2>7, <3>2, <3>3
  <2>9. Cardinality(I) \in Nat /\ Cardinality(J) \in Nat /\ Cardinality(W) \in Nat
    BY <2>5, <2>8, FS_CardinalityType
  <2>10. Counted' /\ Surplus' = Surplus + Cardinality(W)
    BY <2>2, <2>5, <2>8, <2>9 DEF Counted, Surplus, I, J
  <2>11. wiped \in Nat /\ Surplus = wiped => wiped' \in Nat /\ Surplus' = wiped'
    BY <2>6, <2>9, <2>10
  <2> QED BY <1>3, <2>10, <2>11
<1> QED BY <1>1, <1>2, <1>3 DEF Applies

\* Every step keeps the counter too high by what was cleared.
CountInv == Counted /\ wiped \in Nat /\ Surplus = wiped

LEMMA CountNext ==
    ASSUME TypeOK, NoTwoTotalSame, ListsTyped, CarriedIn(Fitting), CountInv, [Next]_vars
    PROVE  CountInv'
<1>1. CASE Applies
  <2>1. CASE StepClear
    BY <1>1, <2>1, AppliesCounts DEF CountInv
  <2>2. CASE ~ StepClear
    <3>1. wiped' = wiped
      BY <1>1, <2>2 DEF Applies, StepItem, StepLate
    <3> QED BY <1>1, <2>2, <3>1, AppliesCounts DEF CountInv, SurplusKept
  <2> QED BY <2>1, <2>2
<1>2. CASE ~ Applies
  <2>1. SameAlive
    BY <1>2, Moves DEF Arrives, Cancels, Rests, Lifts, Comes, Takes
  <2>2. Alive' = Alive /\ boostResCnt' = boostResCnt /\ wiped' = wiped
    BY <2>1 DEF SameAlive, Alive
  <2> QED BY <2>2, SameCount DEF CountInv, SurplusKept
<1> QED BY <1>1, <1>2

\* Initially nothing is alive and nothing counted.
LEMMA CountInit == Init => CarriedIn(Fitting) /\ CountInv
<1> SUFFICES ASSUME Init PROVE CarriedIn(Fitting) /\ CountInv
  OBVIOUS
<1>1. queue = <<>> /\ items = <<>> /\ boostResCnt = 0 /\ wiped = 0
      /\ resActionList = [r \in Res |-> [t \in ActionType |-> {}]]
  BY DEF Init
<1>2. Alive = {}
  BY <1>1 DEF Alive, Item, ResAction
<1>3. Interactive(Alive) = {}
  BY <1>2 DEF Interactive
<1>4. Counted /\ Surplus = 0
  BY <1>1, <1>3, FS_EmptySet DEF Counted, Surplus
<1>5. CarriedIn(Fitting)
  BY <1>1, <1>2 DEF CarriedIn, Within, Range
<1> QED BY <1>1, <1>4, <1>5 DEF CountInv

LEMMA FittingNext ==
    ASSUME InteractionByCommand
    PROVE  TypeOK /\ NoTwoTotalSame /\ CarriedIn(Fitting) /\ [Next]_vars => CarriedIn(Fitting)'
BY CarriedNext, CallsFit, WeakFits

\* The lists are typed in every reachable state.
LEMMA ListsTypedAlways == Spec => []ListsTyped
<1>1. Init => ListsTyped
  BY DEF Init, ListsTyped
<1> QED BY <1>1, ListsTypedNext, TypeCorrect, PTL DEF Spec

\* The exact count holds in every reachable state.
LEMMA CountAlways ==
    ASSUME InteractionByCommand
    PROVE  Spec => [](CountInv /\ InteractiveAlive = Interactive(Alive))
<1> DEFINE Inv == CarriedIn(Fitting) /\ CountInv
<1>1. Init => Inv
  BY CountInit
<1>2. TypeOK /\ NoTwoTotalSame /\ ListsTyped /\ Inv /\ [Next]_vars => Inv'
  BY CountNext, FittingNext
<1>3. TypeOK /\ ListsTyped /\ Inv => CountInv /\ InteractiveAlive = Interactive(Alive)
  BY InteractiveArePerf
<1> QED BY <1>1, <1>2, <1>3, TypeCorrect, NoDoubles, ListsTypedAlways, PTL DEF Spec

\* boostResCnt is the number of interactive requests alive, on all resources and whatever
\* is replaced, switched off or expires: the counter is raised, lowered and left alone at
\* three places by the mark of the request in hand, not of the one that is removed
\* (HandleResAction, the OFF of UpdateResActionListByInstantMsg,
\* UpdateResActionListByDelayedMsg). ClearAllAliveRequest does not lower it, and what it
\* removes is counted for ever.
THEOREM BoostsAreCounted ==
    ASSUME InteractionByCommand
    PROVE  Spec => []BoostCountMatchesAlive
<1>1. CountInv /\ InteractiveAlive = Interactive(Alive) => BoostCountMatchesAlive
  <2> SUFFICES ASSUME CountInv, InteractiveAlive = Interactive(Alive)
               PROVE  BoostCountMatchesAlive
    OBVIOUS
  <2>1. Cardinality(Interactive(Alive)) \in Nat /\ boostResCnt \in Int
    BY FS_CardinalityType DEF CountInv, Counted
  <2> QED BY <2>1 DEF CountInv, Surplus, BoostCountMatchesAlive
<1> QED BY <1>1, CountAlways, PTL

\* With clears the counter may be too high, but it is never too low: WeakInteraction never
\* takes the system for one without interactive boosts while one is alive.
THEOREM BoostsNeverMissed ==
    ASSUME InteractionByCommand
    PROVE  Spec => [](boostResCnt >= Cardinality(InteractiveAlive))
<1>1. CountInv /\ InteractiveAlive = Interactive(Alive)
         => boostResCnt >= Cardinality(InteractiveAlive)
  <2> SUFFICES ASSUME CountInv, InteractiveAlive = Interactive(Alive)
               PROVE  boostResCnt >= Cardinality(InteractiveAlive)
    OBVIOUS
  <2>1. Cardinality(Interactive(Alive)) \in Nat /\ boostResCnt \in Int
    BY FS_CardinalityType DEF CountInv, Counted
  <2> QED BY <2>1 DEF CountInv, Surplus
<1> QED BY <1>1, CountAlways, PTL

-----------------------------------------------------------------------------
(* The OFF of a weak interaction comes behind its ON                           *)

InQueue(q, x) == \E k \in 1 .. Len(q) : q[k] = x

\* Each task of B in q has the task x behind it.
Behind(q, B, x) ==
    \A k \in 1 .. Len(q) : q[k] \in B => \E j \in 1 .. Len(q) : j > k /\ q[j] = x

\* Another task arrives, or x itself does.
LEMMA AppendBehind ==
    ASSUME NEW q \in Seq(Task), NEW B, NEW x, NEW t \in Task, t \notin B
    PROVE  /\ Behind(q, B, x) => Behind(Append(q, t), B, x)
           /\ InQueue(q, x) => InQueue(Append(q, t), x)
           /\ t = x => Behind(Append(q, t), B, x) /\ InQueue(Append(q, t), x)
<1> DEFINE p == Append(q, t)
<1>1. /\ Len(q) \in Nat /\ Len(p) = Len(q) + 1 /\ p[Len(q) + 1] = t
      /\ \A k \in 1 .. Len(q) : p[k] = q[k] /\ k \in 1 .. Len(p)
  BY AppendProperties
<1> HIDE DEF p
<1>2. ASSUME NEW k \in 1 .. Len(p), p[k] \in B
      PROVE  k \in 1 .. Len(q) /\ q[k] \in B
  BY <1>1, <1>2
<1>3. ASSUME Behind(q, B, x) PROVE Behind(p, B, x)
  <2> SUFFICES ASSUME NEW k \in 1 .. Len(p), p[k] \in B
               PROVE  \E j \in 1 .. Len(p) : j > k /\ p[j] = x
    BY DEF Behind
  <2>1. PICK j \in 1 .. Len(q) : j > k /\ q[j] = x
    BY <1>2, <1>3 DEF Behind
  <2> QED BY <1>1, <2>1
<1>4. InQueue(q, x) => InQueue(p, x)
  BY <1>1 DEF InQueue
<1>5. ASSUME t = x PROVE Behind(p, B, x) /\ InQueue(p, x)
  <2>1. Len(p) \in 1 .. Len(p) /\ p[Len(p)] = x /\ \A k \in 1 .. Len(q) : Len(p) > k
    BY <1>1, <1>5
  <2> QED BY <1>2, <2>1 DEF Behind, InQueue
<1> QED BY <1>3, <1>4, <1>5 DEF p

\* The first task is taken.
LEMMA TailBehind ==
    ASSUME NEW q \in Seq(Task), q # <<>>, NEW B, NEW x
    PROVE  /\ Behind(q, B, x) => Behind(Tail(q), B, x)
           /\ Behind(q, B, x) /\ Head(q) \in B => InQueue(Tail(q), x)
           /\ InQueue(q, x) => Head(q) = x \/ InQueue(Tail(q), x)
<1> DEFINE p == Tail(q)
<1>1. /\ Len(q) \in Nat \ {0} /\ Len(p) = Len(q) - 1 /\ Head(q) = q[1]
      /\ \A k \in 1 .. Len(p) : p[k] = q[k + 1]
  BY HeadTailProperties
<1> HIDE DEF p
<1>2. ASSUME NEW j \in 1 .. Len(q), j # 1
      PROVE  j - 1 \in 1 .. Len(p) /\ p[j - 1] = q[j]
  <2>1. j - 1 \in 1 .. Len(p) /\ (j - 1) + 1 = j
    BY <1>1, <1>2
  <2> QED BY <1>1, <2>1
<1>3. ASSUME Behind(q, B, x) PROVE Behind(p, B, x)
  <2> SUFFICES ASSUME NEW k \in 1 .. Len(p), p[k] \in B
               PROVE  \E j \in 1 .. Len(p) : j > k /\ p[j] = x
    BY DEF Behind
  <2>1. k + 1 \in 1 .. Len(q) /\ q[k + 1] \in B
    BY <1>1
  <2>2. PICK j \in 1 .. Len(q) : j > k + 1 /\ q[j] = x
    BY <1>3, <2>1 DEF Behind
  <2>3. j # 1 /\ j - 1 > k
    BY <1>1, <2>2
  <2> QED BY <1>2, <2>2, <2>3
<1>4. ASSUME Behind(q, B, x), Head(q) \in B PROVE InQueue(p, x)
  <2>1. PICK j \in 1 .. Len(q) : j > 1 /\ q[j] = x
    BY <1>1, <1>4 DEF Behind
  <2>2. j # 1
    BY <2>1
  <2> QED BY <1>2, <2>1, <2>2 DEF InQueue
<1>5. ASSUME InQueue(q, x), Head(q) # x PROVE InQueue(p, x)
  <2>1. PICK j \in 1 .. Len(q) : q[j] = x
    BY <1>5 DEF InQueue
  <2>2. j # 1
    BY <1>1, <1>5, <2>1
  <2> QED BY <1>2, <2>1, <2>2 DEF InQueue
<1> QED BY <1>3, <1>4, <1>5 DEF p

\* Another task is cancelled.
LEMMA RemoveBehind ==
    ASSUME NEW q \in Seq(Task), NEW B, NEW x, NEW n \in 1 .. Len(q), q[n] # x
    PROVE  /\ Behind(q, B, x) => Behind(RemoveAt(q, n), B, x)
           /\ InQueue(q, x) => InQueue(RemoveAt(q, n), x)
<1> DEFINE p == RemoveAt(q, n)
           to(k) == IF k < n THEN k ELSE k - 1
           from(k) == IF k < n THEN k ELSE k + 1
<1>1. /\ Len(q) \in Nat /\ Len(p) = Len(q) - 1
      /\ \A k \in 1 .. Len(p) : p[k] = q[from(k)]
  <2>1. Len(q) \in Nat
    OBVIOUS
  <2>2. /\ Len(p) = Len(q) - 1
        /\ \A k \in 1 .. Len(q) - 1 : p[k] = IF k < n THEN q[k] ELSE q[k + 1]
    BY RemovedPlaces
  <2> HIDE DEF p
  <2> QED BY <2>1, <2>2
<1> HIDE DEF p
<1>2. ASSUME NEW j \in 1 .. Len(q), j # n
      PROVE  to(j) \in 1 .. Len(p) /\ p[to(j)] = q[j]
  <2>1. to(j) \in 1 .. Len(p) /\ from(to(j)) = j
    BY <1>1, <1>2
  <2> QED BY <1>1, <2>1
<1>3. ASSUME Behind(q, B, x) PROVE Behind(p, B, x)
  <2> SUFFICES ASSUME NEW k \in 1 .. Len(p), p[k] \in B
               PROVE  \E j \in 1 .. Len(p) : j > k /\ p[j] = x
    BY DEF Behind
  <2>1. from(k) \in 1 .. Len(q) /\ q[from(k)] \in B
    BY <1>1
  <2>2. PICK j \in 1 .. Len(q) : j > from(k) /\ q[j] = x
    BY <1>3, <2>1 DEF Behind
  <2>3. j # n /\ to(j) > k
    BY <1>1, <2>2
  <2> HIDE DEF to, from
  <2> QED BY <1>2, <2>2, <2>3
<1>4. ASSUME InQueue(q, x) PROVE InQueue(p, x)
  <2>1. PICK j \in 1 .. Len(q) : q[j] = x
    BY <1>4 DEF InQueue
  <2>2. j # n
    BY <2>1
  <2> HIDE DEF to, from
  <2> QED BY <1>2, <2>1, <2>2 DEF InQueue
<1> QED BY <1>3, <1>4 DEF p

-----------------------------------------------------------------------------
(* The limits of a weak interaction                                            *)

\* The actions of the commands of i, and what is made of some actions.
Actions(i) == {WeakTemplates[i][m] : m \in BOOLEAN}
On(p) == MakeWeak(p, EVENT_ON)
Off(p) == MakeWeak(p, EVENT_OFF)

\* Requests of other commands than those of p, and those the interactions make of theirs.
Strange(p) == {it \in Item : it.act.cmdId \notin Cmds(p)}
Owned == {it \in Item : \A i \in InterId : \A p \in Actions(i) :
                            it \in Strange(p) \/ it \in Range(On(p)) \cup Range(Off(p))}

LEMMA ActionsOf ==
    ASSUME NEW i \in InterId
    PROVE  /\ TypeOK => WeakActions(i) \in Actions(i)
           /\ \A p \in Actions(i) : p \in Seq(Template) /\ Cmds(p) \subseteq WeakCmds(i)
           /\ WeakCommandsApart =>
                 \A p, q \in Actions(i) : p # q => Cmds(p) \cap Cmds(q) = {}
<1>1. TypeOK => WeakActions(i) \in Actions(i)
  BY DEF TypeOK, WeakActions, Actions
<1>2. ASSUME NEW p \in Actions(i) PROVE p \in Seq(Template) /\ Cmds(p) \subseteq WeakCmds(i)
  <2>1. PICK m \in BOOLEAN : p = WeakTemplates[i][m]
    BY DEF Actions
  <2> DEFINE C(n) == Cmds(WeakTemplates[i][n])
  <2>2. WeakCmds(i) = UNION {C(n) : n \in BOOLEAN}
    BY DEF WeakCmds
  <2>3. Cmds(p) = C(m)
    BY <2>1
  <2> HIDE DEF C
  <2>4. Cmds(p) \subseteq WeakCmds(i)
    BY <2>2, <2>3
  <2> QED BY <2>1, <2>4, WrapAssumption
<1>3. ASSUME WeakCommandsApart, NEW p \in Actions(i), NEW q \in Actions(i), p # q
      PROVE  Cmds(p) \cap Cmds(q) = {}
  <2> DEFINE a == WeakTemplates[i][TRUE]
             b == WeakTemplates[i][FALSE]
  <2>1. (p = a \/ p = b) /\ (q = a \/ q = b)
    BY DEF Actions
  <2>2. a = b \/ Cmds(a) \cap Cmds(b) = {}
    BY <1>3 DEF WeakCommandsApart
  <2> HIDE DEF a, b
  <2> QED BY <1>3, <2>1, <2>2
<1> QED BY <1>1, <1>2, <1>3

\* What a weak interaction makes of its actions.
LEMMA WeakItems ==
    ASSUME NEW p \in Seq(Template)
    PROVE  /\ On(p) \in Seq(Item) /\ Off(p) \in Seq(Item)
           /\ \A it \in Range(On(p)) : it.act.onOff = EVENT_ON /\ it.act.cmdId \in Cmds(p)
           /\ \A it \in Range(Off(p)) : it.act.onOff = EVENT_OFF /\ it.act.cmdId \in Cmds(p)
           /\ \A x \in Range(On(p)) : \E y \in Range(Off(p)) : Undoes(y, x)
           /\ Off(p) = <<>> => Range(On(p)) = {}
<1>1. Len(p) \in Nat /\ DOMAIN p = 1 .. Len(p)
  OBVIOUS
<1>2. On(p) \in Seq(Item) /\ Off(p) \in Seq(Item)
  BY MakeWeakType DEF On, Off, EventType
<1>3. \A k \in 1 .. Len(p) : p[k].cmdId \in Cmds(p)
  BY DEF Cmds
<1> DEFINE new(k, onOff) ==
             [res |-> p[k].res,
              act |-> [id |-> NoId, value |-> p[k].value, duration |-> 0,
                       type |-> p[k].type, onOff |-> onOff, cmdId |-> p[k].cmdId,
                       endTime |-> MAX_INT_VALUE, interaction |-> FALSE]]
<1>4. /\ DOMAIN On(p) = 1 .. Len(p) /\ DOMAIN Off(p) = 1 .. Len(p)
      /\ \A k \in 1 .. Len(p) : /\ On(p)[k] = new(k, EVENT_ON)
                                /\ Off(p)[k] = new(k, EVENT_OFF)
  BY DEF On, Off, MakeWeak
<1>5. ASSUME NEW k \in 1 .. Len(p), NEW onOff
      PROVE  /\ new(k, onOff).act.onOff = onOff
             /\ new(k, onOff).act.cmdId = p[k].cmdId
  OBVIOUS
<1>6. ASSUME NEW k \in 1 .. Len(p) PROVE Undoes(new(k, EVENT_OFF), new(k, EVENT_ON))
  BY DEF Undoes, PartSame
<1> HIDE DEF new
<1>7. ASSUME NEW it \in Range(On(p))
      PROVE  /\ it.act.onOff = EVENT_ON /\ it.act.cmdId \in Cmds(p)
             /\ \E y \in Range(Off(p)) : Undoes(y, it)
  <2>1. PICK k \in 1 .. Len(p) : it = On(p)[k]
    BY <1>4, <1>7 DEF Range
  <2>2. Off(p)[k] \in Range(Off(p))
    BY <1>4 DEF Range
  <2> QED BY <1>3, <1>4, <1>5, <1>6, <2>1, <2>2
<1>8. ASSUME NEW it \in Range(Off(p))
      PROVE  it.act.onOff = EVENT_OFF /\ it.act.cmdId \in Cmds(p)
  <2>1. PICK k \in 1 .. Len(p) : it = Off(p)[k]
    BY <1>4, <1>8 DEF Range
  <2> QED BY <1>3, <1>4, <1>5, <2>1
<1>9. Off(p) = <<>> => Range(On(p)) = {}
  <2>1. DOMAIN On(p) = DOMAIN Off(p) /\ DOMAIN <<>> = {}
    BY <1>4
  <2> QED BY <2>1 DEF Range
<1> QED BY <1>2, <1>7, <1>8, <1>9

\* No call uses a command of a weak interaction.
LEMMA CallsApart ==
    ASSUME WeakCommandsApart, NEW i \in InterId, NEW s \in Actions(i)
    PROVE  CallsIn(Strange(s))
<1>0. Cmds(s) \subseteq WeakCmds(i)
  BY ActionsOf
<1>1. ASSUME NEW p \in Packs, NEW n \in Nat, NEW now \in Now,
             NEW it \in Range(MakePack(n, now, p))
      PROVE  it \in Strange(s)
  <2>1. it \in Item
    BY <1>1, MakePackType DEF Range
  <2>2. PICK k \in 1 .. Len(p) : it = MakePack(n, now, p)[k]
    BY <1>1 DEF Range, MakePack
  <2>3. it.act.cmdId = p[k].cmdId
    BY <2>2 DEF MakePack
  <2> QED BY <1>0, <2>1, <2>3 DEF Strange, WeakCommandsApart
<1>2. ASSUME NEW l \in Limits,
             NEW it \in Carried([kind |-> l.kind, item |-> MakeLimit(l.limit)])
      PROVE  it \in Strange(s)
  <2> DEFINE m == MakeLimit(l.limit)
             t == [kind |-> l.kind, item |-> m]
  <2>1. m.act.cmdId = l.limit.cmdId
    BY DEF MakeLimit
  <2>2. t \in Task /\ t.kind = l.kind /\ t.item = m
    BY TaskKinds
  <2>3. CASE l.kind = "freq"
    <3>1. m \in Item /\ it = m
      BY <1>2, <2>2, <2>3, TaskFields, LimitItemIsItem DEF Carried
    <3> QED BY <1>0, <2>1, <3>1 DEF Strange, WeakCommandsApart
  <2>4. CASE l.kind = "level"
    <3>1. m \in LimitItem(Level) /\ it \in Range(LevelItems(m))
      BY <1>2, <2>2, <2>4, TaskFields DEF Carried
    <3> DEFINE v == ValueByLevel(m.res, m.act.value)
               new == [m EXCEPT !.act.value = v]
    <3>2. it = new
      BY <3>1 DEF LevelItems, Range
    <3>3. new.act.cmdId = m.act.cmdId
      <4> HIDE DEF v, m
      <4> QED BY <3>1 DEF LimitItem
    <3>4. it \in Item
      BY <3>1, LevelItemsType DEF Range
    <3> HIDE DEF new
    <3> QED BY <1>0, <2>1, <3>2, <3>3, <3>4 DEF Strange, WeakCommandsApart
  <2> QED BY <2>3, <2>4, WrapAssumption DEF FreqLimit, LevelLimit
<1> QED BY <1>1, <1>2 DEF CallsIn

LEMMA CallsOwned == WeakCommandsApart => CallsIn(Owned)
<1> SUFFICES ASSUME WeakCommandsApart PROVE CallsIn(Owned)
  OBVIOUS
<1>1. \A i \in InterId : \A s \in Actions(i) : CallsIn(Strange(s))
  BY CallsApart
<1>2. ASSUME NEW p \in Packs, NEW n \in Nat, NEW now \in Now
      PROVE  Range(MakePack(n, now, p)) \subseteq Owned
  <2>1. Range(MakePack(n, now, p)) \subseteq Item
    BY MakePackType DEF Range
  <2>2. \A i \in InterId : \A s \in Actions(i) : Range(MakePack(n, now, p)) \subseteq Strange(s)
    BY <1>1 DEF CallsIn
  <2> QED BY <2>1, <2>2 DEF Owned
<1>3. ASSUME NEW l \in Limits
      PROVE  Carried([kind |-> l.kind, item |-> MakeLimit(l.limit)]) \subseteq Owned
  <2> DEFINE C == Carried([kind |-> l.kind, item |-> MakeLimit(l.limit)])
  <2>1. \A i \in InterId : \A s \in Actions(i) : C \subseteq Strange(s)
    BY <1>1 DEF CallsIn
  <2>2. C \subseteq Item
    <3> DEFINE t == [kind |-> l.kind, item |-> MakeLimit(l.limit)]
    <3>1. t \in Task /\ t.kind \in {"freq", "level"}
      BY TaskKinds, WrapAssumption DEF FreqLimit, LevelLimit
    <3> HIDE DEF t
    <3>2. CASE t.kind = "freq"
      <4>1. t.item \in Item
        BY <3>1, <3>2, TaskFields, LimitItemIsItem
      <4> QED BY <3>2, <4>1 DEF Carried, t
    <3>3. CASE t.kind = "level"
      <4>1. LevelItems(t.item) \in Seq(Item)
        BY <3>1, <3>3, TaskFields, LevelItemsType
      <4>2. Carried(t) = Range(LevelItems(t.item))
        BY <3>3 DEF Carried
      <4> QED BY <4>1, <4>2 DEF Range, t
    <3> QED BY <3>1, <3>2, <3>3
  <2> HIDE DEF C
  <2>3. C \subseteq Owned
    BY <2>1, <2>2 DEF Owned
  <2> QED BY <2>3 DEF C
<1> QED BY <1>2, <1>3 DEF CallsIn

LEMMA WeakOwned == WeakCommandsApart /\ TypeOK => WeakIn(Owned)
<1> SUFFICES ASSUME WeakCommandsApart, TypeOK, NEW j \in InterId,
                    NEW it \in Range(WeakOn(j)) \cup Range(WeakOff(j))
             PROVE  it \in Owned
  BY DEF WeakIn
<1> DEFINE q == WeakActions(j)
<1>1. q \in Actions(j) /\ q \in Seq(Template) /\ Cmds(q) \subseteq WeakCmds(j)
  BY ActionsOf
<1>2. it \in Range(On(q)) \cup Range(Off(q))
  BY DEF WeakOn, WeakOff, On, Off
<1> HIDE DEF q
<1>3. it \in Item /\ it.act.cmdId \in Cmds(q)
  BY <1>1, <1>2, WeakItems DEF Range
<1>4. ASSUME NEW i \in InterId, NEW p \in Actions(i), p # q PROVE it \in Strange(p)
  <2>1. Cmds(p) \subseteq WeakCmds(i)
    BY ActionsOf
  <2>2. Cmds(p) \cap Cmds(q) = {}
    BY <1>1, <1>4, <2>1, ActionsOf DEF WeakCommandsApart
  <2> QED BY <1>3, <2>2 DEF Strange
<1> QED BY <1>2, <1>3, <1>4 DEF Owned

-----------------------------------------------------------------------------
(* Of actions that are not switched on, whatever is submitted, in hand or alive *)
(* is followed by their OFF.                                                    *)

Begins(p) == {t \in Task : Carried(t) \cap Range(On(p)) # {}}
Ends(p) == PackTask(Off(p))

EndsInHand(x) == \E y \in Range(items) : Undoes(y, x)

LiftInv(i, p) ==
    p \notin unlifted[i] =>
        /\ Behind(queue, Begins(p), Ends(p))
        /\ Range(items) \cap Range(On(p)) # {} => InQueue(queue, Ends(p))
        /\ \A x \in Alive \cap Range(On(p)) : InQueue(queue, Ends(p)) \/ EndsInHand(x)

\* What others submit does not begin the actions p of i, nor does an OFF.
LEMMA OthersDoNotBegin ==
    ASSUME WeakCommandsApart, TypeOK, NEW i \in InterId, NEW p \in Actions(i)
    PROVE  /\ \A t \in Task : Called(t) => t \notin Begins(p)
           /\ \A j \in InterId : PackTask(WeakOff(j)) \notin Begins(p)
           /\ \A j \in InterId : j # i \/ WeakActions(j) # p
                                    => PackTask(WeakOn(j)) \notin Begins(p)
<1>0. p \in Seq(Template) /\ Cmds(p) \subseteq WeakCmds(i)
  BY ActionsOf
<1>1. ASSUME NEW t, Carried(t) \subseteq Strange(p) PROVE t \notin Begins(p)
  BY <1>0, <1>1, WeakItems DEF Begins, Strange
<1>2. ASSUME NEW t \in Task, Called(t) PROVE t \notin Begins(p)
  <2>1. CallsIn(Strange(p))
    BY CallsApart
  <2>2. CASE CalledPack(t)
    <3>1. Carried(t) \subseteq Strange(p)
      BY <2>1, <2>2 DEF CalledPack, PackTask, Carried, CallsIn
    <3> QED BY <1>1, <3>1
  <2>3. CASE CalledLimit(t)
    <3>1. Carried(t) \subseteq Strange(p)
      BY <2>1, <2>3 DEF CalledLimit, CallsIn
    <3> QED BY <1>1, <3>1
  <2>4. CASE CalledOther(t)
    <3>1. Carried(t) = {}
      BY <2>4 DEF CalledOther, Carried
    <3> QED BY <1>1, <3>1
  <2> QED BY <1>2, <2>2, <2>3, <2>4 DEF Called
<1>3. ASSUME NEW j \in InterId
      PROVE  /\ WeakActions(j) \in Actions(j) /\ WeakActions(j) \in Seq(Template)
             /\ Cmds(WeakActions(j)) \subseteq WeakCmds(j)
  BY ActionsOf
<1>4. ASSUME NEW j \in InterId PROVE PackTask(WeakOff(j)) \notin Begins(p)
  <2> DEFINE q == WeakActions(j)
  <2>1. Carried(PackTask(WeakOff(j))) = Range(Off(q))
    BY DEF Carried, PackTask, WeakOff, Off
  <2>2. q \in Seq(Template)
    BY <1>3
  <2> HIDE DEF q
  <2>3. \A it \in Range(Off(q)) : it \notin Range(On(p))
    <3>1. EVENT_ON # EVENT_OFF
      BY DEF EVENT_ON, EVENT_OFF
    <3> QED BY <1>0, <2>2, <3>1, WeakItems
  <2> QED BY <2>1, <2>3 DEF Begins
<1>5. ASSUME NEW j \in InterId, j # i \/ WeakActions(j) # p
      PROVE  PackTask(WeakOn(j)) \notin Begins(p)
  <2> DEFINE q == WeakActions(j)
  <2>1. Carried(PackTask(WeakOn(j))) = Range(On(q))
    BY DEF Carried, PackTask, WeakOn, On
  <2>2. q \in Actions(j) /\ q \in Seq(Template) /\ Cmds(q) \subseteq WeakCmds(j)
    BY <1>3
  <2>3. j # i \/ q # p
    BY <1>5
  <2> HIDE DEF q
  <2>4. Cmds(p) \cap Cmds(q) = {}
    <3>1. CASE j # i
      BY <1>0, <2>2, <3>1 DEF WeakCommandsApart
    <3>2. CASE j = i
      BY <2>2, <2>3, <3>2, ActionsOf
    <3> QED BY <3>1, <3>2
  <2>5. \A it \in Range(On(q)) : it \notin Range(On(p))
    BY <1>0, <2>2, <2>4, WeakItems
  <2> QED BY <2>1, <2>5 DEF Begins
<1> QED BY <1>2, <1>4, <1>5

LEMMA LiftNext ==
    ASSUME TypeOK, NoTwoTotalSame, HandInv, WeakCommandsApart, [Next]_vars,
           NEW i \in InterId, NEW p \in Actions(i), LiftInv(i, p)
    PROVE  LiftInv(i, p)'
<1> DEFINE B == Begins(p)
           x == Ends(p)
<1>0. p \in Seq(Template) /\ unlifted \in [InterId -> SUBSET Seq(Template)]
  BY ActionsOf DEF TypeOK
<1>1. queue \in Seq(Task) /\ x \in Task /\ x.kind = "pack" /\ x \notin B
  <2>1. x \in Task /\ x.kind = "pack"
    BY <1>0, WeakItems, TaskKinds DEF Ends, PackTask
  <2>2. Carried(x) = Range(Off(p))
    BY DEF Ends, PackTask, Carried
  <2>3. x \notin B
    BY <1>0, <2>2, WeakItems DEF Begins, EVENT_ON, EVENT_OFF
  <2> QED BY <2>1, <2>3 DEF TypeOK
<1>2. ASSUME p \notin unlifted[i]
      PROVE  /\ Behind(queue, B, x)
             /\ Range(items) \cap Range(On(p)) # {} => InQueue(queue, x)
             /\ \A a \in Alive \cap Range(On(p)) : InQueue(queue, x) \/ EndsInHand(a)
  BY <1>2 DEF LiftInv
<1> HIDE DEF B, x
\* The requests stay where they are, and so does what is behind them.
<1>3. ASSUME SameAlive, SameHand, NEW q \in Seq(Task), queue' = q,
             p \notin unlifted'[i]
                => p \notin unlifted[i],
             p \notin unlifted[i] /\ Behind(queue, B, x)
                => Behind(q, B, x),
             p \notin unlifted[i] /\ InQueue(queue, x)
                => InQueue(q, x)
      PROVE  LiftInv(i, p)'
  <2> SUFFICES ASSUME p \notin unlifted'[i]
               PROVE  /\ Behind(queue', B, x)
                      /\ Range(items') \cap Range(On(p)) # {} => InQueue(queue', x)
                      /\ \A a \in Alive' \cap Range(On(p)) :
                            InQueue(queue', x) \/ EndsInHand(a)'
    BY DEF LiftInv, B, x
  <2>1. Alive' = Alive /\ items' = items
    BY <1>3 DEF SameAlive, SameHand, Alive
  <2>2. \A a : EndsInHand(a)' <=> EndsInHand(a)
    BY <2>1 DEF EndsInHand
  <2> QED BY <1>2, <1>3, <2>1, <2>2
<1>4. SameInter => (p \notin unlifted'[i]
                       => p \notin unlifted[i])
  BY DEF SameInter
<1>5. CASE Arrives
  <2>1. PICK t \in Task : Called(t) /\ queue' = Append(queue, t)
    BY <1>5 DEF Arrives
  <2>2. t \notin B
    BY <2>1, OthersDoNotBegin DEF B
  <2> DEFINE q == Append(queue, t)
  <2>3. q \in Seq(Task) /\ queue' = q
    BY <1>1, <2>1, QueueTypes
  <2>4. /\ Behind(queue, B, x) => Behind(q, B, x)
        /\ InQueue(queue, x) => InQueue(q, x)
    BY <1>1, <2>2, AppendBehind
  <2> HIDE DEF q
  <2> QED BY <1>3, <1>4, <1>5, <2>3, <2>4 DEF Arrives
<1>6. CASE Cancels
  <2>1. PICK k \in 1 .. Len(queue) : /\ queue[k].kind = "weakTimer"
                                     /\ queue' = RemoveAt(queue, k)
    BY <1>6 DEF Cancels
  <2> DEFINE q == RemoveAt(queue, k)
  <2>2. q \in Seq(Task) /\ queue' = q
    BY <1>1, <2>1, QueueTypes
  <2>3. queue[k] # x
    BY <1>1, <2>1
  <2>4. /\ Behind(queue, B, x) => Behind(q, B, x)
        /\ InQueue(queue, x) => InQueue(q, x)
    BY <1>1, <2>3, RemoveBehind
  <2> HIDE DEF q
  <2> QED BY <1>3, <1>4, <1>6, <2>2, <2>4 DEF Cancels
<1>7. CASE Rests
  <2>1. UNCHANGED <<queue, items>> /\ SameAlive
    BY <1>7 DEF Rests
  <2>2. Alive' = Alive
    BY <2>1 DEF SameAlive, Alive
  <2>3. \A a : EndsInHand(a)' <=> EndsInHand(a)
    BY <2>1 DEF EndsInHand
  <2> QED BY <1>4, <1>7, <2>1, <2>2, <2>3 DEF Rests, LiftInv
<1>8. CASE Lifts
  <2>1. PICK j \in InterId : /\ queue' = Submit(queue, WeakOff(j))
                             /\ unlifted' = [unlifted EXCEPT ![j] = @ \ {WeakActions(j)}]
    BY <1>8 DEF Lifts
  <2> DEFINE w == WeakOff(j)
             q == Submit(queue, w)
             u == WeakActions(j)
  <2>2. w = Off(u) /\ queue' = q /\ unlifted' = [unlifted EXCEPT ![j] = @ \ {u}]
    BY <2>1 DEF WeakOff, Off
  <2>3. w \in Seq(Item) /\ PackTask(w) \notin B /\ PackTask(w) \in Task
    <3>1. u \in Seq(Template)
      BY ActionsOf
    <3>2. w \in Seq(Item)
      BY <2>2, <3>1, WeakItems
    <3> QED BY <3>2, OthersDoNotBegin, TaskKinds DEF B
  <2> HIDE DEF w, u
  <2>4. q \in Seq(Task)
    BY <1>1, <2>3, QueueTypes
  <2>5. CASE j # i \/ u # p
    <3>1. /\ Behind(queue, B, x) => Behind(q, B, x)
          /\ InQueue(queue, x) => InQueue(q, x)
      BY <1>1, <2>3, AppendBehind DEF Submit
    <3>2. p \notin unlifted'[i] => p \notin unlifted[i]
      BY <1>0, <2>2, <2>5
    <3> HIDE DEF q
    <3> QED BY <1>3, <1>8, <2>2, <2>4, <3>1, <3>2 DEF Lifts
  <2>6. CASE u = p /\ w = <<>>
    <3>1. Range(On(p)) = {}
      BY <1>0, <2>2, <2>6, WeakItems
    <3>2. \A t \in Task : t \notin B
      BY <3>1 DEF B, Begins
    <3>3. Behind(q, B, x)
      BY <2>4, <3>2 DEF Behind
    <3> QED BY <2>2, <3>1, <3>3 DEF LiftInv, B, x
  <2>7. CASE u = p /\ w # <<>>
    <3>1. x = PackTask(w)
      BY <2>2, <2>7 DEF x, Ends
    <3>2. Behind(q, B, x) /\ InQueue(q, x)
      BY <1>1, <2>3, <2>7, <3>1, AppendBehind DEF Submit
    <3> QED BY <2>2, <3>2 DEF LiftInv, B, x
  <2> QED BY <2>5, <2>6, <2>7
<1>9. CASE Comes
  <2>1. PICK j \in InterId :
          /\ queue' = Submit(Tail(queue), WeakOn(j))
          /\ unlifted' = [unlifted EXCEPT ![j] = @ \cup {WeakActions(j)}]
    BY <1>9 DEF Comes
  <2> DEFINE u == WeakActions(j)
  <2>2. CASE j = i /\ u = p
    <3>1. p \in unlifted'[i]
      BY <1>0, <2>1, <2>2
    <3> QED BY <3>1 DEF LiftInv
  <2>3. CASE j # i \/ u # p
    <3> DEFINE w == WeakOn(j)
               r == Tail(queue)
               q == Submit(r, w)
    <3>0. u \in Seq(Template) /\ w = On(u)
      BY ActionsOf DEF WeakOn, On
    <3>1. w \in Seq(Item) /\ queue' = q
      BY <2>1, <3>0, WeakItems
    <3>2. PackTask(w) \notin B /\ PackTask(w) \in Task
      BY <2>3, <3>1, OthersDoNotBegin, TaskKinds DEF B
    <3>3. queue # <<>> /\ Head(queue) # x
      BY <1>1, <1>9 DEF Comes
    <3>4. r \in Seq(Task)
      BY <1>1, <3>3, QueueTypes
    <3>5. /\ Behind(queue, B, x) => Behind(r, B, x)
          /\ InQueue(queue, x) => InQueue(r, x)
      BY <1>1, <3>3, TailBehind
    <3> HIDE DEF w, r
    <3>6. q \in Seq(Task)
      BY <3>1, <3>4, QueueTypes
    <3>7. /\ Behind(r, B, x) => Behind(q, B, x)
          /\ InQueue(r, x) => InQueue(q, x)
      BY <3>2, <3>4, AppendBehind DEF Submit
    <3>8. p \notin unlifted'[i] => p \notin unlifted[i]
      BY <1>0, <2>1
    <3> HIDE DEF q
    <3> QED BY <1>3, <1>9, <3>1, <3>5, <3>6, <3>7, <3>8 DEF Comes
  <2> QED BY <2>2, <2>3
<1>10. CASE Takes
  <2> SUFFICES ASSUME p \notin unlifted'[i]
               PROVE  /\ Behind(queue', B, x)
                      /\ Range(items') \cap Range(On(p)) # {} => InQueue(queue', x)
                      /\ \A a \in Alive' \cap Range(On(p)) :
                            InQueue(queue', x) \/ EndsInHand(a)'
    BY DEF LiftInv, B, x
  <2> DEFINE h == Head(queue)
             q == Tail(queue)
  <2>1. queue # <<>> /\ queue' = q /\ h \in Task
    BY <1>1, <1>10, QueueTypes DEF Takes
  <2>2. p \notin unlifted[i]
    BY <1>4, <1>10 DEF Takes
  <2>3. items = <<>> /\ Alive' = Alive
    BY <1>10 DEF Takes, HandInv, SameAlive, Alive
  <2>4. \A a \in Alive \cap Range(On(p)) : InQueue(queue, x)
    BY <1>2, <2>2, <2>3 DEF EndsInHand, Range
  <2>5. /\ Behind(q, B, x)
        /\ h \in B => InQueue(q, x)
        /\ InQueue(queue, x) => h = x \/ InQueue(q, x)
    BY <1>1, <1>2, <2>1, <2>2, TailBehind
  <2>6. h = x => Carried(h) = Range(Off(p))
    BY DEF x, Ends, PackTask, Carried
  <2> HIDE DEF h, q
  <2>7. CASE phase' = "items" /\ Range(items') = Carried(h)
    <3>1. Range(items') \cap Range(On(p)) # {} => InQueue(q, x)
      BY <2>1, <2>5, <2>7 DEF B, Begins
    <3>2. ASSUME h = x, NEW a \in Range(On(p)) PROVE EndsInHand(a)'
      <4>1. \E y \in Range(Off(p)) : Undoes(y, a)
        BY <1>0, <3>2, WeakItems
      <4>2. Range(items') = Range(Off(p))
        BY <2>6, <2>7, <3>2
      <4> QED BY <4>1, <4>2 DEF EndsInHand
    <3> QED BY <2>1, <2>3, <2>4, <2>5, <3>1, <3>2
  <2>8. CASE items' = items /\ Carried(h) = {}
    <3>1. Range(items') = {}
      BY <2>3, <2>8 DEF Range
    <3>2. h = x => Range(On(p)) = {}
      BY <1>0, <2>6, <2>8, WeakItems
    <3> QED BY <2>1, <2>3, <2>4, <2>5, <3>1, <3>2
  <2> QED BY <1>10, <2>7, <2>8 DEF Takes, h
<1>11. CASE Applies
  <2> SUFFICES ASSUME p \notin unlifted'[i]
               PROVE  /\ Behind(queue', B, x)
                      /\ Range(items') \cap Range(On(p)) # {} => InQueue(queue', x)
                      /\ \A a \in Alive' \cap Range(On(p)) :
                            InQueue(queue', x) \/ EndsInHand(a)'
    BY DEF LiftInv, B, x
  <2>1. p \notin unlifted[i] /\ queue' = queue
    BY <1>4, <1>11 DEF Applies
  <2>2. /\ Range(items') \subseteq Range(items)
        /\ \A a \in Alive' : a \in Alive \/ a \in Range(items)
        /\ \A y \in Range(items) \ Range(items') :
              y.act.onOff = EVENT_OFF => \A a \in Alive' : ~ Undoes(y, a)
    BY <1>11, AppliesAlive
  <2>3. ASSUME NEW a \in Alive' \cap Range(On(p)), ~ InQueue(queue, x)
        PROVE  EndsInHand(a)'
    <3>1. a \in Alive
      BY <1>2, <2>1, <2>2, <2>3
    <3>2. PICK y \in Range(items) : Undoes(y, a)
      BY <1>2, <2>1, <2>3, <3>1 DEF EndsInHand
    <3>3. y \in Range(items')
      BY <2>2, <2>3, <3>2 DEF Undoes
    <3> QED BY <3>2, <3>3 DEF EndsInHand
  <2> QED BY <1>2, <2>1, <2>2, <2>3
<1> QED BY <1>5, <1>6, <1>7, <1>8, <1>9, <1>10, <1>11, Moves

\* If the commands of the weak interactions are their own: with nothing left to do, a
\* limit of a weak interaction is in force only if its actions were switched on and their
\* OFF has not been sent since, for any number of interactions, wherever boosts, clears,
\* changes of the performance mode and switches fall (StartWeakTimer submits the ON behind
\* what is in the queue, LiftWeak the OFF behind that, each by a task of its own).
THEOREM WeakLimitsLifted ==
    ASSUME WeakCommandsApart
    PROVE  Spec => []WeakLimitLifted
<1> DEFINE Inv == /\ CarriedIn(Owned) /\ HandInv
                  /\ \A i \in InterId : \A p \in Actions(i) : LiftInv(i, p)
<1>1. Init => Inv
  <2> SUFFICES ASSUME Init PROVE Inv
    OBVIOUS
  <2>1. queue = <<>> /\ items = <<>>
        /\ resActionList = [r \in Res |-> [t \in ActionType |-> {}]]
    BY DEF Init
  <2>2. Alive = {} /\ Range(items) = {}
    BY <2>1 DEF Alive, Item, ResAction, Range
  <2>3. CarriedIn(Owned) /\ HandInv
    BY <2>1, <2>2 DEF CarriedIn, Within, HandInv
  <2>4. \A i \in InterId : \A p \in Actions(i) : LiftInv(i, p)
    BY <2>1, <2>2 DEF LiftInv, Behind
  <2> QED BY <2>3, <2>4
<1>2. TypeOK /\ NoTwoTotalSame /\ Inv /\ [Next]_vars => Inv'
  <2> SUFFICES ASSUME TypeOK, NoTwoTotalSame, Inv, [Next]_vars PROVE Inv'
    OBVIOUS
  <2>1. CarriedIn(Owned)'
    BY CarriedNext, CallsOwned, WeakOwned
  <2>2. ASSUME NEW i \in InterId, NEW p \in Actions(i) PROVE LiftInv(i, p)'
    BY LiftNext
  <2> QED BY <2>1, <2>2, HandNext DEF Actions
<1>3. TypeOK /\ ListsTyped /\ Inv => WeakLimitLifted
  <2> SUFFICES ASSUME TypeOK, ListsTyped, Inv, phase = "idle", queue = <<>>,
                      NEW i \in InterId, NEW r \in Res, NEW t \in ActionType,
                      NEW a \in resActionList[r][t], a.cmdId \in WeakCmds(i)
               PROVE  \E p \in unlifted[i] : a.cmdId \in Cmds(p)
    BY DEF WeakLimitLifted
  <2>1. PICK p \in Actions(i) : a.cmdId \in Cmds(p)
    <3> DEFINE C(m) == Cmds(WeakTemplates[i][m])
    <3>1. a.cmdId \in UNION {C(m) : m \in BOOLEAN}
      BY DEF WeakCmds
    <3> HIDE DEF C
    <3>2. PICK m \in BOOLEAN : a.cmdId \in C(m)
      BY <3>1
    <3> QED BY <3>2 DEF C, Actions
  <2> SUFFICES ASSUME p \notin unlifted[i] PROVE FALSE
    BY <2>1
  <2> DEFINE z == [res |-> r, act |-> a]
  <2>2. z \in Item /\ z.act = a /\ a.type = t /\ z.res = r
    BY DEF TypeOK, Item, ListsTyped
  <2> HIDE DEF z
  <2>3. z \in Alive
    BY <2>2 DEF Alive
  <2>4. z \in Owned /\ z.act.onOff # EVENT_OFF
    BY <2>3 DEF CarriedIn
  <2>5. p \in Seq(Template)
    BY ActionsOf
  <2>6. z \in Range(On(p))
    BY <2>1, <2>2, <2>4, <2>5, WeakItems DEF Owned, Strange
  <2>7. items = <<>>
    BY DEF HandInv
  <2>8. ~ EndsInHand(z)
    BY <2>7 DEF EndsInHand, Range
  <2>9. InQueue(queue, Ends(p))
    BY <2>3, <2>6, <2>8 DEF LiftInv
  <2> QED BY <2>9 DEF InQueue
<1> QED BY <1>1, <1>2, <1>3, TypeCorrect, NoDoubles, ListsTypedAlways, PTL DEF Spec
=============================================================================
