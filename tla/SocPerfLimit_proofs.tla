------------------------- MODULE SocPerfLimit_proofs -------------------------
(* For any number of threads, requests and calls: once the tasks are executed, *)
(* the alive limits are the recorded ones, and the power switch is what was    *)
(* asked for last.                                                             *)
EXTENDS SocPerfLimit, FiniteSetTheorems, TLAPS

-----------------------------------------------------------------------------
(* Types *)

LimitTasks == [kind : {"limit"}, tag : Tag, value : Int, on : BOOLEAN,
               type : {"power", "thermal", "perflvl"}, cmdId : {"battery", "none"}]
SwitchTasks == [kind : {"power", "thermal"}, on : BOOLEAN]

\* The maps limitRequest_[client] have one value for a tag.
OnePerTag ==
    \A k \in Client : \A e, f \in limitRequest[k] : e.tag = f.tag => e = f

TypeInv == TypeOK /\ queue \in Seq(LimitTasks \cup SwitchTasks) /\ OnePerTag

\* What is cut to the width of an int32_t is one.
LEMMA Int32Type ==
    ASSUME NEW v \in Config
    PROVE  Int32(v) \in INVALID_VALUE .. -INVALID_VALUE - 1
<1> DEFINE m == -2 * INVALID_VALUE
           w == v - INVALID_VALUE
<1>1. m \in Int /\ m > 0 /\ w \in Int
  BY LimitAssumption
<1>2. w % m \in 0 .. m - 1
  <2> HIDE DEF m, w
  <2> QED BY <1>1
<1> QED BY <1>2, LimitAssumption DEF Int32

\* What fits is what it was.
LEMMA Int32Fits ==
    ASSUME NEW v \in INVALID_VALUE .. -INVALID_VALUE - 1
    PROVE  Int32(v) = v
<1> DEFINE m == -2 * INVALID_VALUE
           w == v - INVALID_VALUE
<1>1. m \in Int /\ w \in Int /\ 0 <= w /\ w < m
  BY LimitAssumption
<1>2. w % m = w
  <2> HIDE DEF m, w
  <2> QED BY <1>1
<1> QED BY <1>2, LimitAssumption DEF Int32

\* A set of one element is listed in one way, and so is the empty one.
LEMMA SetToSeqOfFew ==
    /\ SetToSeq({}) = <<>>
    /\ \A t : SetToSeq({t}) = <<t>>
<1>1. SetToSeq({}) = <<>>
  <2>1. Cardinality({}) = 0
    BY FS_EmptySet
  <2>2. \A f : f \in [1 .. 0 -> {}] <=> f = <<>>
    <3>1. <<>> \in [1 .. 0 -> {}]
      OBVIOUS
    <3>2. ASSUME NEW f \in [1 .. 0 -> {}]
          PROVE  f = <<>>
      <4>1. f \in Seq({}) /\ Len(f) = 0
        <5>1. f \in Seq({})
          OBVIOUS
        <5> QED BY <5>1
      <4> QED BY <4>1
    <3> QED BY <3>1, <3>2
  <2>3. IsInjective(<<>>)
    BY DEF IsInjective
  <2> QED BY <2>1, <2>2, <2>3 DEF SetToSeq
<1>2. ASSUME NEW t
      PROVE  SetToSeq({t}) = <<t>>
  <2>1. Cardinality({t}) = 1
    BY FS_Singleton
  <2>2. \A f : f \in [1 .. 1 -> {t}] <=> f = <<t>>
    OBVIOUS
  <2>3. IsInjective(<<t>>)
    BY DEF IsInjective
  <2> QED BY <2>1, <2>2, <2>3 DEF SetToSeq
<1> QED BY <1>1, <1>2

\* The task with which a limit is set or withdrawn.
LEMMA LimitTaskType ==
    ASSUME NEW k \in Client, NEW tag \in Tag, NEW v \in Int, NEW on \in BOOLEAN
    PROVE  LimitTask(k, tag, v, on) \in LimitTasks
BY DEF LimitTask, LimitTasks, TypeOf, CmdOf, Client

\* SendLimitRequestEventOff submits nothing, or withdraws the value of the tag.
LEMMA OffTasksOfTag ==
    ASSUME TypeInv, NEW k \in Client, NEW tag \in Tag
    PROVE  \/ Sent(k, tag) = {} /\ OffTasks(k, tag) = <<>>
           \/ \E e \in limitRequest[k] :
                 /\ e.tag = tag /\ Sent(k, tag) = {e}
                 /\ OffTasks(k, tag) = <<LimitTask(k, tag, e.value, FALSE)>>
<1> DEFINE Off(S) == {LimitTask(k, tag, e.value, FALSE) : e \in S}
<1>1. OffTasks(k, tag) = SetToSeq(Off(Sent(k, tag)))
  BY DEF OffTasks
<1>2. CASE Sent(k, tag) = {}
  <2>1. Off({}) = {}
    OBVIOUS
  <2> QED BY <1>1, <1>2, <2>1, SetToSeqOfFew
<1>3. CASE Sent(k, tag) # {}
  <2>1. PICK e : e \in Sent(k, tag)
    BY <1>3
  <2>2. \A f \in Sent(k, tag) : f \in limitRequest[k] /\ f.tag = tag
    BY DEF Sent, Entries
  <2>3. Sent(k, tag) = {e}
    BY <2>1, <2>2 DEF TypeInv, OnePerTag
  <2>4. Off({e}) = {LimitTask(k, tag, e.value, FALSE)}
    OBVIOUS
  <2>5. SetToSeq(Off({e})) = <<LimitTask(k, tag, e.value, FALSE)>>
    BY <2>4, SetToSeqOfFew
  <2> QED BY <1>1, <2>1, <2>2, <2>3, <2>5
<1> QED BY <1>2, <1>3

\* A request has limits of its resource only.
LEMMA LimitsType ==
    ASSUME NEW t \in LimitTasks
    PROVE  Limits(t.tag, t.value, t.type, t.cmdId) \subseteq Limit
<1>1. \A k \in DOMAIN LevelValue : LevelValue[k] \in Int
  BY LimitAssumption
<1>2. Resolved(t.tag, t.value) \subseteq Int
  BY <1>1 DEF Resolved, LimitTasks
<1>3. t.tag.res \in Res /\ t.type \in {"power", "thermal", "perflvl"}
      /\ t.cmdId \in {"battery", "none"}
  BY DEF LimitTasks, Tag
<1> QED BY <1>2, <1>3 DEF Limits, Limit

\* A turn of the loop of LimitRequest has a tag, a value and the same client.
LEMMA TurnType ==
    ASSUME TypeInv, NEW c \in Caller, todo[c].configs # <<>>
    PROVE  /\ todo[c].client \in Client
           /\ todo[c].configs[1].tag \in Tag /\ todo[c].configs[1].value \in Config
           /\ [todo EXCEPT ![c].configs = Tail(@)] \in [Caller -> Request]
<1> DEFINE R == [tag : Tag, value : Config]
           q == todo[c].configs
<1>1. todo[c] \in Request /\ todo \in [Caller -> Request]
  BY DEF TypeInv, TypeOK
<1>2. todo[c].client \in Client /\ q \in Seq(R) /\ q # <<>>
  BY <1>1 DEF Request
<1>3. q[1] \in R /\ Tail(q) \in Seq(R)
  <2> HIDE DEF R, q
  <2> QED BY <1>2
<1>4. q[1].tag \in Tag /\ q[1].value \in Config
  <2> HIDE DEF q
  <2> QED BY <1>3
<1>5. [todo[c] EXCEPT !.configs = Tail(@)] \in Request
  BY <1>1, <1>3 DEF Request
<1> QED BY <1>1, <1>2, <1>4, <1>5

Task == LimitTasks \cup SwitchTasks

\* One element is a sequence.
LEMMA SeqOfOne ==
    ASSUME NEW S, NEW x \in S PROVE <<x>> \in Seq(S)
OBVIOUS

\* The withdrawals of a turn are tasks.
LEMMA OffTasksType ==
    ASSUME TypeInv, NEW k \in Client, NEW tag \in Tag
    PROVE  /\ Both(tag)[1] \in Tag /\ Both(tag)[2] \in Tag
           /\ OffTasks(k, Both(tag)[1]) \in Seq(Task)
           /\ OffTasks(k, Both(tag)[2]) \in Seq(Task)
<1>1. Both(tag)[1] \in Tag /\ Both(tag)[2] \in Tag
  BY DEF Both, Tag
<1>2. ASSUME NEW g \in Tag
      PROVE  OffTasks(k, g) \in Seq(Task)
  <2>1. CASE OffTasks(k, g) = <<>>
    BY <2>1
  <2>2. CASE \E e \in limitRequest[k] :
                OffTasks(k, g) = <<LimitTask(k, g, e.value, FALSE)>>
    <3>1. PICK e \in limitRequest[k] : OffTasks(k, g) = <<LimitTask(k, g, e.value, FALSE)>>
      BY <2>2
    <3>2. e.value \in Int
      BY LimitAssumption DEF TypeInv, TypeOK, Entry
    <3>3. LimitTask(k, g, e.value, FALSE) \in Task
      BY <3>2, LimitTaskType DEF Task
    <3> HIDE DEF Task
    <3> QED BY <3>1, <3>3, SeqOfOne
  <2> QED BY <2>1, <2>2, <1>2, OffTasksOfTag
<1> QED BY <1>1, <1>2

\* A turn of the loop of LimitRequest keeps the types.
LEMMA SendKeepsTypes ==
    ASSUME TypeInv, NEW c \in Caller, SendLimitRequestEvent(c)
    PROVE  TypeInv'
<1> DEFINE r == todo[c].configs[1]
           k == todo[c].client
           off == OffTasks(k, Both(r.tag)[1]) \o OffTasks(k, Both(r.tag)[2])
           kept == limitRequest[k]
                       \ (Sent(k, Both(r.tag)[1]) \cup Sent(k, Both(r.tag)[2]))
           on == r.value \notin {INVALID_VALUE, RESET_VALUE}
           new == [tag |-> r.tag, value |-> Int32(r.value)]
           ons == IF on THEN <<LimitTask(k, r.tag, r.value, TRUE)>> ELSE <<>>
           there == IF on /\ \A e \in kept : e.tag # r.tag THEN kept \cup {new} ELSE kept
<1>1. /\ k \in Client /\ r.tag \in Tag /\ r.value \in Config
      /\ todo' \in [Caller -> Request]
      /\ queue' = queue \o off \o ons
      /\ limitRequest' = [limitRequest EXCEPT ![k] = there]
      /\ UNCHANGED <<calls, switching, overtaken, limitStatus, worker>>
  BY TurnType DEF SendLimitRequestEvent, Slot
<1>2. queue' \in Seq(Task)
  <2>1. queue \in Seq(Task)
    BY DEF TypeInv, Task
  <2>2. off \in Seq(Task)
    <3>1. OffTasks(k, Both(r.tag)[1]) \in Seq(Task) /\ OffTasks(k, Both(r.tag)[2]) \in Seq(Task)
      BY <1>1, OffTasksType
    <3> HIDE DEF Task, k, r
    <3> QED BY <3>1
  <2>3. ons \in Seq(Task)
    <3>1. r.value \in Int
      BY <1>1, LimitAssumption
    <3>2. LimitTask(k, r.tag, r.value, TRUE) \in Task
      BY <1>1, <3>1, LimitTaskType DEF Task
    <3> HIDE DEF Task, k, r, on
    <3> DEFINE t == LimitTask(k, r.tag, r.value, TRUE)
    <3> HIDE DEF t
    <3>3. <<t>> \in Seq(Task)
      BY <3>2, SeqOfOne DEF t
    <3>4. <<>> \in Seq(Task)
      OBVIOUS
    <3> QED BY <3>3, <3>4 DEF t
  <2> HIDE DEF Task, off, ons
  <2> QED BY <1>1, <2>1, <2>2, <2>3
<1>3. kept \subseteq limitRequest[k] /\ limitRequest[k] \subseteq Entry
  BY <1>1 DEF TypeInv, TypeOK
<1>4. new \in Entry
  BY <1>1, Int32Type DEF Entry
<1>5. there \subseteq Entry /\ \A e, f \in there : e.tag = f.tag => e = f
  <2>1. \A e, f \in kept : e.tag = f.tag => e = f
    BY <1>1, <1>3 DEF TypeInv, OnePerTag
  <2>2. new.tag = r.tag
    OBVIOUS
  <2> HIDE DEF kept, new, on
  <2> QED BY <1>3, <1>4, <2>1, <2>2
<1>6. limitRequest' \in [Client -> SUBSET Entry] /\ OnePerTag'
  <2> HIDE DEF there, k
  <2>1. limitRequest \in [Client -> SUBSET Entry]
    BY DEF TypeInv, TypeOK
  <2>2. \A x \in Client : limitRequest'[x] = IF x = k THEN there ELSE limitRequest[x]
    BY <1>1, <2>1
  <2> QED BY <1>1, <1>5, <2>1, <2>2 DEF TypeInv, OnePerTag
<1> HIDE DEF off, ons, there, k, r
<1> QED BY <1>1, <1>2, <1>6 DEF TypeInv, TypeOK, Task, worker

Switching == [step : {"idle", "battery", "power", "submit"},
              on : BOOLEAN, stale : BOOLEAN]

\* What a call of PowerLimitBoost writes.
Written(c, s, on) ==
    /\ limitStatus' = [limitStatus EXCEPT ![s] = on]
    /\ switching' = [d \in Caller |->
          IF d = c THEN [Idle EXCEPT !.step = "battery"]
          ELSE IF limitStatus[s] # on /\ HasRead(d, s)
          THEN [switching[d] EXCEPT !.stale = TRUE] ELSE switching[d]]

\* The steps that leave limitRequest_ alone keep the types.
LEMMA OthersKeepTypes ==
    ASSUME TypeInv, [Next]_vars, \A c \in Caller : ~ SendLimitRequestEvent(c)
    PROVE  TypeInv'
<1> USE LimitAssumption DEF TypeInv, TypeOK, OnePerTag, callers, worker
<1>1. ASSUME NEW t \in SwitchTasks
      PROVE  Append(queue, t) \in Seq(LimitTasks \cup SwitchTasks)
  OBVIOUS
<1>2. ASSUME NEW c \in Caller, LimitRequest(c)
      PROVE  TypeInv'
  BY <1>2 DEF LimitRequest, Call
<1>3. ASSUME NEW c \in Caller, ThermalLimitBoost(c)
      PROVE  TypeInv'
  <2>1. PICK on \in BOOLEAN : queue' = Append(queue, [kind |-> "thermal", on |-> on])
    BY <1>3 DEF ThermalLimitBoost
  <2>2. [kind |-> "thermal", on |-> on] \in SwitchTasks
    BY DEF SwitchTasks
  <2> QED BY <1>1, <1>3, <2>1, <2>2 DEF ThermalLimitBoost, Call
<1>4. ASSUME NEW c \in Caller, PowerLimitBoost(c)
      PROVE  TypeInv'
  <2>1. PICK s \in Switch, on \in BOOLEAN : Written(c, s, on)
    BY <1>4 DEF PowerLimitBoost, Written
  <2>2. switching' \in [Caller -> Switching]
    BY <2>1 DEF Written, Idle, Switching
  <2> QED BY <1>4, <2>1, <2>2 DEF PowerLimitBoost, Written, Switching
<1>5. ASSUME NEW c \in Caller, ReadBatteryLimitStatus(c) \/ ReadPowerLimitStatus(c)
      PROVE  TypeInv'
  <2>1. AfterBattery \in Switching
    BY DEF AfterBattery, Idle, Switching
  <2>2. limitStatus["power"] \in BOOLEAN
    BY DEF Switch
  <2>3. switching \in [Caller -> Switching]
    BY DEF Switching
  <2>4. switching' \in [Caller -> Switching]
    <3>1. CASE ReadBatteryLimitStatus(c)
      <4> HIDE DEF TypeInv, TypeOK
      <4> QED BY <2>1, <2>3, <3>1 DEF ReadBatteryLimitStatus
    <3>2. CASE ReadPowerLimitStatus(c)
      <4>1. switching' = [switching EXCEPT ![c] =
               [switching[c] EXCEPT !.step = "submit", !.on = limitStatus["power"]]]
        BY <2>3, <3>2 DEF ReadPowerLimitStatus, Switching
      <4>2. [switching[c] EXCEPT !.step = "submit", !.on = limitStatus["power"]]
                \in Switching
        BY <2>2, <2>3 DEF Switching
      <4> HIDE DEF TypeInv, TypeOK
      <4> QED BY <2>3, <4>1, <4>2
    <3> QED BY <1>5, <3>1, <3>2
  <2> QED BY <1>5, <2>4 DEF ReadBatteryLimitStatus, ReadPowerLimitStatus, Switching
<1>6. ASSUME NEW c \in Caller, SubmitPowerLimitBoost(c)
      PROVE  TypeInv'
  <2>1. [kind |-> "power", on |-> switching[c].on] \in SwitchTasks
    BY DEF SwitchTasks
  <2>2. Idle \in Switching
    BY DEF Idle, Switching
  <2> QED BY <1>1, <1>6, <2>1, <2>2 DEF SubmitPowerLimitBoost, Switching
<1>7. ASSUME NEW kind, Take(kind)
      PROVE  /\ queue' \in Seq(LimitTasks \cup SwitchTasks)
             /\ Head(queue) \in LimitTasks \cup SwitchTasks /\ Head(queue).kind = kind
  BY <1>7 DEF Take
<1>8. CASE UpdateLimitStatus
  <2> DEFINE t == Head(queue)
             limits == Limits(t.tag, t.value, t.type, t.cmdId)
  <2>1. Take("limit") /\ queue' \in Seq(LimitTasks \cup SwitchTasks)
        /\ t \in LimitTasks
    BY <1>7, <1>8 DEF UpdateLimitStatus, SwitchTasks
  <2>2. limits \subseteq Limit
    BY <2>1, LimitsType
  <2>3. alive' \subseteq Limit
    BY <1>8, <2>2 DEF UpdateLimitStatus
  <2> QED BY <1>8, <2>1, <2>3 DEF UpdateLimitStatus, Take
<1>9. CASE UpdatePowerLimitBoostFreq
  <2>1. /\ Take("power") /\ queue' \in Seq(LimitTasks \cup SwitchTasks)
        /\ Head(queue).on \in BOOLEAN
    BY <1>7, <1>9 DEF UpdatePowerLimitBoostFreq, SwitchTasks, LimitTasks
  <2> QED BY <1>9, <2>1 DEF UpdatePowerLimitBoostFreq, Take
<1>10. CASE UpdateThermalLimitBoostFreq
  <2>1. /\ Take("thermal") /\ queue' \in Seq(LimitTasks \cup SwitchTasks)
        /\ Head(queue).on \in BOOLEAN
    BY <1>7, <1>10 DEF UpdateThermalLimitBoostFreq, SwitchTasks, LimitTasks
  <2> QED BY <1>10, <2>1 DEF UpdateThermalLimitBoostFreq, Take
<1>11. CASE UNCHANGED vars
  BY <1>11 DEF vars
<1> QED BY <1>2, <1>3, <1>4, <1>5, <1>6, <1>8, <1>9, <1>10, <1>11 DEF Next

LEMMA InitTypes ==
    ASSUME Init PROVE TypeInv
<1>1. Done \in Request
  BY DEF Done, Request, Client
<1>2. Idle \in Switching
  BY DEF Idle, Switching
<1>3. TypeOK
  <2>1. calls \in 0 .. MaxCalls
    BY LimitAssumption DEF Init
  <2>2. todo \in [Caller -> Request]
    BY <1>1 DEF Init
  <2>3. limitRequest \in [Client -> SUBSET Entry] /\ limitStatus \in [Switch -> BOOLEAN]
    BY DEF Init
  <2>4. switching \in [Caller -> Switching]
    BY <1>2 DEF Init
  <2> QED BY <2>1, <2>2, <2>3, <2>4 DEF Init, TypeOK, Switching
<1>4. queue \in Seq(LimitTasks \cup SwitchTasks) /\ OnePerTag
  BY DEF Init, OnePerTag
<1> QED BY <1>3, <1>4 DEF TypeInv

\* Every step keeps the types.
LEMMA NextTypes ==
    ASSUME TypeInv, [Next]_vars PROVE TypeInv'
BY SendKeepsTypes, OthersKeepTypes

LEMMA TypesAlways == Spec => []TypeInv
BY InitTypes, NextTypes, PTL DEF Spec

\* limitRequest_ holds int32_t values, one for a tag, and every task submitted is a
\* limit of a configured resource or a switch.
THEOREM LimitTypeCorrect == Spec => []TypeOK
<1>1. TypeInv => TypeOK
  BY DEF TypeInv
<1> QED BY <1>1, TypesAlways, PTL

-----------------------------------------------------------------------------
(* The queue is the difference between the record and the alive limits. *)

\* What the execution of a task makes of the alive limits.
Executed(t, S) ==
    IF t.kind # "limit" THEN S
    ELSE IF t.on THEN S \cup Limits(t.tag, t.value, t.type, t.cmdId)
                 ELSE S \ Limits(t.tag, t.value, t.type, t.cmdId)

\* No client has two limits of S on one resource.
OneEach(S) ==
    \A a, b \in S : a.res = b.res /\ a.type = b.type /\ a.cmdId = b.cmdId => a = b

\* f is what is alive after each task of q.
Run(q, f) ==
    /\ f \in [0 .. Len(q) -> SUBSET Limit]
    /\ \A i \in 1 .. Len(q) : f[i] = Executed(q[i], f[i - 1])
    /\ \A i \in 0 .. Len(q) : OneEach(f[i])

\* The tasks of q lead from S to T, with one limit of each client at all times.
Leads(q, S, T) == \E f : Run(q, f) /\ f[0] = S /\ f[Len(q)] = T

\* No task leads to where one is.
LEMMA LeadsNowhere ==
    ASSUME NEW S \in SUBSET Limit, OneEach(S)
    PROVE  Leads(<<>>, S, S)
<1> DEFINE f == [i \in 0 .. 0 |-> S]
<1>1. f \in [0 .. 0 -> SUBSET Limit] /\ f[0] = S
  OBVIOUS
<1>2. Run(<<>>, f)
  <2>1. \A i \in 0 .. 0 : OneEach(f[i])
    OBVIOUS
  <2> HIDE DEF f
  <2> QED BY <1>1, <2>1 DEF Run
<1> QED BY <1>1, <1>2 DEF Leads

\* When every task is executed, one is there.
LEMMA LeadsEmpty ==
    ASSUME NEW S, NEW T, Leads(<<>>, S, T) PROVE S = T
BY DEF Leads

\* One starts with one limit of each client, and ends so.
LEMMA LeadsOneEach ==
    ASSUME NEW q \in Seq(Task), NEW S, NEW T, Leads(q, S, T)
    PROVE  OneEach(S) /\ OneEach(T) /\ S \in SUBSET Limit /\ T \in SUBSET Limit
<1>1. PICK f : Run(q, f) /\ f[0] = S /\ f[Len(q)] = T
  BY DEF Leads
<1>2. Len(q) \in Nat
  OBVIOUS
<1>3. 0 \in 0 .. Len(q) /\ Len(q) \in 0 .. Len(q)
  BY <1>2
<1> QED BY <1>1, <1>3 DEF Run

\* A task more leads one task further.
LEMMA LeadsAppend ==
    ASSUME NEW q \in Seq(Task), NEW S, NEW T, Leads(q, S, T), NEW t \in Task,
           Executed(t, T) \in SUBSET Limit, OneEach(Executed(t, T))
    PROVE  Leads(Append(q, t), S, Executed(t, T))
<1> DEFINE n == Len(q)
           X == Executed(t, T)
           p == Append(q, t)
<1>1. PICK f : Run(q, f) /\ f[0] = S /\ f[n] = T
  BY DEF Leads
<1>2. n \in Nat /\ Len(p) = n + 1 /\ p[n + 1] = t /\ \A i \in 1 .. n : p[i] = q[i]
  OBVIOUS
<1> HIDE DEF n, p, X
<1> DEFINE g == [i \in 0 .. n + 1 |-> IF i = n + 1 THEN X ELSE f[i]]
<1>3. /\ \A i \in 0 .. n : g[i] = f[i] /\ f[i] \in SUBSET Limit /\ OneEach(f[i])
      /\ g[n + 1] = X
  <2>1. \A i \in 0 .. n : i \in 0 .. n + 1 /\ i # n + 1
    BY <1>2
  <2>2. n + 1 \in 0 .. n + 1
    BY <1>2
  <2>3. \A i \in 0 .. n : f[i] \in SUBSET Limit /\ OneEach(f[i])
    BY <1>1 DEF Run, n
  <2> QED BY <2>1, <2>2, <2>3
<1>4. \A i \in 0 .. n + 1 : i \in 0 .. n \/ i = n + 1
  BY <1>2
<1>5. g \in [0 .. n + 1 -> SUBSET Limit] /\ \A i \in 0 .. n + 1 : OneEach(g[i])
  <2>1. \A i \in 0 .. n + 1 : g[i] \in SUBSET Limit /\ OneEach(g[i])
    BY <1>3, <1>4 DEF X
  <2> QED BY <2>1
<1>6. ASSUME NEW i \in 1 .. n + 1
      PROVE  g[i] = Executed(p[i], g[i - 1])
  <2>1. CASE i = n + 1
    <3>1. i - 1 = n /\ n \in 0 .. n
      BY <2>1, <1>2
    <3>2. g[i - 1] = T
      BY <3>1, <1>1, <1>3
    <3> HIDE DEF g
    <3> QED BY <2>1, <3>2, <1>2, <1>3 DEF X
  <2>2. CASE i # n + 1
    <3>1. i \in 1 .. n /\ i \in 0 .. n /\ i - 1 \in 0 .. n
      BY <2>2, <1>2
    <3>2. f[i] = Executed(q[i], f[i - 1])
      BY <3>1, <1>1 DEF Run, n
    <3> HIDE DEF g
    <3> QED BY <3>1, <3>2, <1>2, <1>3
  <2> QED BY <2>1, <2>2
<1>7. 0 \in 0 .. n
  BY <1>2
<1>8. g[0] = S
  BY <1>1, <1>3, <1>7
<1> HIDE DEF g
<1>9. Run(p, g)
  BY <1>2, <1>5, <1>6 DEF Run
<1>10. Leads(p, S, X)
  BY <1>9, <1>8, <1>2, <1>3 DEF Leads
<1> QED BY <1>10 DEF p, X

\* The first task leads one task on the way.
LEMMA LeadsTail ==
    ASSUME NEW q \in Seq(Task), NEW S, NEW T, Leads(q, S, T), q # <<>>
    PROVE  Leads(Tail(q), Executed(Head(q), S), T)
<1> DEFINE n == Len(q)
           p == Tail(q)
<1>1. PICK f : Run(q, f) /\ f[0] = S /\ f[n] = T
  BY DEF Leads
<1>2. /\ n \in Nat \ {0} /\ Len(p) = n - 1 /\ Head(q) = q[1]
      /\ \A i \in 1 .. n - 1 : p[i] = q[i + 1]
  OBVIOUS
<1>3. f \in [0 .. n -> SUBSET Limit] /\ \A i \in 0 .. n : OneEach(f[i])
  BY <1>1 DEF Run
<1>4. \A i \in 1 .. n : f[i] = Executed(q[i], f[i - 1])
  BY <1>1 DEF Run
<1> HIDE DEF n, p
<1> DEFINE g == [i \in 0 .. n - 1 |-> f[i + 1]]
<1>5. \A i \in 0 .. n - 1 : i + 1 \in 0 .. n /\ i + 1 \in 1 .. n
  BY <1>2
<1>6. g \in [0 .. n - 1 -> SUBSET Limit] /\ \A i \in 0 .. n - 1 : OneEach(g[i])
  BY <1>3, <1>5
<1>7. ASSUME NEW i \in 1 .. n - 1
      PROVE  g[i] = Executed(p[i], g[i - 1])
  <2>1. i \in 0 .. n - 1 /\ i - 1 \in 0 .. n - 1 /\ i - 1 + 1 = i /\ i + 1 \in 1 .. n
        /\ i + 1 - 1 = i
    BY <1>2
  <2>2. g[i] = f[i + 1] /\ g[i - 1] = f[i]
    BY <2>1
  <2>3. f[i + 1] = Executed(q[i + 1], f[i])
    BY <2>1, <1>4
  <2> HIDE DEF g
  <2> QED BY <2>2, <2>3, <1>2
<1>8. g[0] = Executed(Head(q), S) /\ g[n - 1] = T
  <2>1. 0 \in 0 .. n - 1 /\ n - 1 \in 0 .. n - 1 /\ n - 1 + 1 = n /\ 1 \in 1 .. n
        /\ 1 - 1 = 0 /\ 0 + 1 = 1
    BY <1>2
  <2>2. g[0] = f[1] /\ g[n - 1] = f[n]
    BY <2>1
  <2>3. f[1] = Executed(q[1], f[0])
    BY <2>1, <1>4
  <2> HIDE DEF g
  <2> QED BY <2>2, <2>3, <1>1, <1>2
<1> HIDE DEF g
<1>9. Run(p, g)
  BY <1>2, <1>6, <1>7 DEF Run
<1>10. Leads(p, Executed(Head(q), S), T)
  BY <1>8, <1>9, <1>2 DEF Leads
<1> QED BY <1>10 DEF p

-----------------------------------------------------------------------------
(* The record *)

\* The limits of the entries E of a client, and of a whole record.
LimitsOf(k, E) == UNION {Limits(e.tag, e.value, TypeOf(k), CmdOf(k)) : e \in E}
AllLimits(record) == UNION {LimitsOf(k, record[k]) : k \in Client}

\* A client has one entry for a resource, by value or by level.
OneEntry(record) ==
    \A k \in Client : /\ \A e, f \in record[k] : e.tag.res = f.tag.res => e = f
                      /\ \A e \in record[k] : e.value # INVALID_VALUE

LimitInv ==
    /\ TypeInv
    /\ OneEntry(limitRequest)
    /\ Leads(queue, alive, AllLimits(limitRequest))

\* A limit tells its resource, and its client.
LEMMA LimitTells ==
    ASSUME NEW k \in Client, NEW tag, NEW v,
           NEW a \in Limits(tag, v, TypeOf(k), CmdOf(k))
    PROVE  a.res = tag.res /\ a.type = TypeOf(k) /\ a.cmdId = CmdOf(k)
BY DEF Limits

LEMMA ClientTold ==
    ASSUME NEW k \in Client, NEW j \in Client, TypeOf(k) = TypeOf(j), CmdOf(k) = CmdOf(j)
    PROVE  k = j
BY DEF TypeOf, CmdOf, Client

\* A value is one limit, a level one at most.
LEMMA LimitOfTag ==
    ASSUME NEW tag, NEW v, NEW type, NEW cmd, NEW a \in Limits(tag, v, type, cmd),
           NEW b \in Limits(tag, v, type, cmd)
    PROVE  a = b
BY DEF Limits, Resolved

\* What is recorded: a limit of an entry of a client.
LEMMA AllLimitsMembers ==
    ASSUME NEW record, NEW a
    PROVE  a \in AllLimits(record) <=>
             \E k \in Client : \E e \in record[k] :
                a \in Limits(e.tag, e.value, TypeOf(k), CmdOf(k))
BY DEF AllLimits, LimitsOf

\* A record with one entry for a resource has one limit for a client on it.
LEMMA OneEntryOneLimit ==
    ASSUME NEW record, OneEntry(record)
    PROVE  OneEach(AllLimits(record))
<1> SUFFICES ASSUME NEW a \in AllLimits(record), NEW b \in AllLimits(record),
                    a.res = b.res, a.type = b.type, a.cmdId = b.cmdId
             PROVE  a = b
  BY DEF OneEach
<1>1. PICK k \in Client : \E e \in record[k] :
              a \in Limits(e.tag, e.value, TypeOf(k), CmdOf(k))
  BY AllLimitsMembers
<1>2. PICK e \in record[k] : a \in Limits(e.tag, e.value, TypeOf(k), CmdOf(k))
  BY <1>1
<1>3. PICK j \in Client : \E f \in record[j] :
              b \in Limits(f.tag, f.value, TypeOf(j), CmdOf(j))
  BY AllLimitsMembers
<1>4. PICK f \in record[j] : b \in Limits(f.tag, f.value, TypeOf(j), CmdOf(j))
  BY <1>3
<1>5. k = j /\ e.tag.res = f.tag.res
  BY <1>2, <1>4, LimitTells, ClientTold
<1>6. e = f
  BY <1>5 DEF OneEntry
<1> QED BY <1>2, <1>4, <1>5, <1>6, LimitOfTag

\* An entry less, and what its withdrawal leaves: the limits of the others.
LEMMA WithdrawnLimits ==
    ASSUME NEW record \in [Client -> SUBSET Entry], OneEntry(record), NEW k \in Client,
           NEW e \in record[k]
    PROVE  /\ OneEntry([record EXCEPT ![k] = @ \ {e}])
           /\ Executed(LimitTask(k, e.tag, e.value, FALSE), AllLimits(record))
                = AllLimits([record EXCEPT ![k] = @ \ {e}])
<1> DEFINE t == LimitTask(k, e.tag, e.value, FALSE)
           less == [record EXCEPT ![k] = @ \ {e}]
           X == Limits(e.tag, e.value, TypeOf(k), CmdOf(k))
<1>1. \A j \in Client : less[j] = IF j = k THEN record[k] \ {e} ELSE record[j]
  OBVIOUS
<1>2. OneEntry(less)
  <2> HIDE DEF less
  <2> QED BY <1>1 DEF OneEntry
<1>3. Executed(t, AllLimits(record)) = AllLimits(record) \ X
  BY DEF Executed, LimitTask
<1> HIDE DEF less
<1>4. ASSUME NEW a
      PROVE  a \in AllLimits(less) <=> a \in AllLimits(record) /\ a \notin X
  <2>1. ASSUME a \in AllLimits(less)
        PROVE  a \in AllLimits(record) /\ a \notin X
    <3>1. PICK j \in Client : \E f \in less[j] :
                  a \in Limits(f.tag, f.value, TypeOf(j), CmdOf(j))
      BY <2>1, AllLimitsMembers
    <3>2. PICK f \in less[j] : a \in Limits(f.tag, f.value, TypeOf(j), CmdOf(j))
      BY <3>1
    <3>3. f \in record[j] /\ (j = k => f # e)
      BY <3>2, <1>1
    <3>4. a \in AllLimits(record)
      BY <3>2, <3>3, AllLimitsMembers
    <3>5. ASSUME a \in X PROVE FALSE
      <4>1. j = k /\ f.tag.res = e.tag.res
        BY <3>2, <3>5, LimitTells, ClientTold
      <4>2. f = e
        BY <4>1, <3>3 DEF OneEntry
      <4> QED BY <4>1, <4>2, <3>3
    <3> HIDE DEF X
    <3> QED BY <3>4, <3>5
  <2>2. ASSUME a \in AllLimits(record), a \notin X
        PROVE  a \in AllLimits(less)
    <3>1. PICK j \in Client : \E f \in record[j] :
                  a \in Limits(f.tag, f.value, TypeOf(j), CmdOf(j))
      BY <2>2, AllLimitsMembers
    <3>2. PICK f \in record[j] : a \in Limits(f.tag, f.value, TypeOf(j), CmdOf(j))
      BY <3>1
    <3>3. f \in less[j]
      BY <3>2, <2>2, <1>1
    <3> QED BY <3>2, <3>3, AllLimitsMembers
  <2> HIDE DEF X
  <2> QED BY <2>1, <2>2
<1> HIDE DEF X, t
<1>5. Executed(t, AllLimits(record)) = AllLimits(less)
  BY <1>3, <1>4
<1> QED BY <1>2, <1>5 DEF less, t

\* An entry more, for a resource without one, and what its limit adds.
LEMMA AddedLimits ==
    ASSUME NEW record \in [Client -> SUBSET Entry], OneEntry(record), NEW k \in Client,
           NEW e \in Entry, e.value # INVALID_VALUE,
           \A f \in record[k] : f.tag.res # e.tag.res
    PROVE  /\ OneEntry([record EXCEPT ![k] = @ \cup {e}])
           /\ Executed(LimitTask(k, e.tag, e.value, TRUE), AllLimits(record))
                = AllLimits([record EXCEPT ![k] = @ \cup {e}])
<1> DEFINE t == LimitTask(k, e.tag, e.value, TRUE)
           more == [record EXCEPT ![k] = @ \cup {e}]
           X == Limits(e.tag, e.value, TypeOf(k), CmdOf(k))
<1>1. \A j \in Client : more[j] = IF j = k THEN record[k] \cup {e} ELSE record[j]
  OBVIOUS
<1>2. OneEntry(more)
  <2> HIDE DEF more
  <2> QED BY <1>1 DEF OneEntry
<1>3. Executed(t, AllLimits(record)) = AllLimits(record) \cup X
  BY DEF Executed, LimitTask
<1> HIDE DEF more
<1>4. ASSUME NEW a
      PROVE  a \in AllLimits(more) <=> a \in AllLimits(record) \/ a \in X
  <2>1. ASSUME a \in AllLimits(more)
        PROVE  a \in AllLimits(record) \/ a \in X
    <3>1. PICK j \in Client : \E f \in more[j] :
                  a \in Limits(f.tag, f.value, TypeOf(j), CmdOf(j))
      BY <2>1, AllLimitsMembers
    <3>2. PICK f \in more[j] : a \in Limits(f.tag, f.value, TypeOf(j), CmdOf(j))
      BY <3>1
    <3>3. f \in record[j] \/ (j = k /\ f = e)
      BY <3>2, <1>1
    <3> QED BY <3>2, <3>3, AllLimitsMembers
  <2>2. ASSUME a \in AllLimits(record)
        PROVE  a \in AllLimits(more)
    <3>1. PICK j \in Client : \E f \in record[j] :
                  a \in Limits(f.tag, f.value, TypeOf(j), CmdOf(j))
      BY <2>2, AllLimitsMembers
    <3>2. PICK f \in record[j] : a \in Limits(f.tag, f.value, TypeOf(j), CmdOf(j))
      BY <3>1
    <3>3. f \in more[j]
      BY <3>2, <1>1
    <3> QED BY <3>2, <3>3, AllLimitsMembers
  <2>3. ASSUME a \in X
        PROVE  a \in AllLimits(more)
    <3>1. e \in more[k]
      BY <1>1
    <3> QED BY <2>3, <3>1, AllLimitsMembers
  <2> HIDE DEF X
  <2> QED BY <2>1, <2>2, <2>3
<1> HIDE DEF X, t
<1>5. Executed(t, AllLimits(record)) = AllLimits(more)
  BY <1>3, <1>4
<1> QED BY <1>2, <1>5 DEF more, t

\* What the off of a turn does to the record and to the queue.
Off(k, tag) == OffTasks(k, Both(tag)[1]) \o OffTasks(k, Both(tag)[2])
Kept(k, tag) == limitRequest[k] \ (Sent(k, Both(tag)[1]) \cup Sent(k, Both(tag)[2]))

\* A turn withdraws what its client has on the resource, in one task or none.
LEMMA OffWithdraws ==
    ASSUME TypeInv, OneEntry(limitRequest), NEW k \in Client, NEW tag \in Tag
    PROVE  /\ \A e \in Kept(k, tag) : e.tag.res # tag.res
           /\ \/ Off(k, tag) = <<>> /\ Kept(k, tag) = limitRequest[k]
              \/ \E e \in limitRequest[k] :
                    /\ Off(k, tag) = <<LimitTask(k, e.tag, e.value, FALSE)>>
                    /\ Kept(k, tag) = limitRequest[k] \ {e}
<1> DEFINE a == Both(tag)[1]
           b == Both(tag)[2]
<1>1. /\ a \in Tag /\ b \in Tag /\ a # b /\ a.res = tag.res /\ b.res = tag.res
      /\ \A g \in Tag : g.res = tag.res => g = a \/ g = b
  BY DEF Both, Tag
<1>2. \A e \in limitRequest[k] : e.tag \in Tag /\ e.value # INVALID_VALUE
  BY DEF TypeInv, TypeOK, Entry, OneEntry
<1>3. \A e, f \in limitRequest[k] : e.tag.res = f.tag.res => e = f
  BY DEF OneEntry
<1>4. ASSUME NEW g \in {a, b}
      PROVE  Sent(k, g) = {e \in limitRequest[k] : e.tag = g}
  BY <1>2 DEF Sent, Entries
<1>5. \A e \in Kept(k, tag) : e.tag.res # tag.res
  BY <1>1, <1>2, <1>4 DEF Kept
<1>6. ASSUME NEW g \in {a, b}
      PROVE  \/ Sent(k, g) = {} /\ OffTasks(k, g) = <<>>
             \/ \E e \in limitRequest[k] :
                   /\ e.tag = g /\ Sent(k, g) = {e}
                   /\ OffTasks(k, g) = <<LimitTask(k, e.tag, e.value, FALSE)>>
  <2>1. g \in Tag
    BY <1>1
  <2>2. \/ Sent(k, g) = {} /\ OffTasks(k, g) = <<>>
        \/ \E e \in limitRequest[k] :
              /\ e.tag = g /\ Sent(k, g) = {e}
              /\ OffTasks(k, g) = <<LimitTask(k, g, e.value, FALSE)>>
    <3> HIDE DEF a, b
    <3> QED BY <2>1, OffTasksOfTag
  <2> HIDE DEF a, b
  <2> QED BY <2>2
<1> HIDE DEF a, b
<1>7. CASE Sent(k, a) = {} /\ Sent(k, b) = {}
  <2>1. OffTasks(k, a) = <<>> /\ OffTasks(k, b) = <<>>
    BY <1>6, <1>7
  <2>2. Off(k, tag) = <<>>
    BY <2>1 DEF Off, a, b
  <2>3. Kept(k, tag) = limitRequest[k]
    BY <1>7 DEF Kept, a, b
  <2> QED BY <1>5, <2>2, <2>3
<1>8. CASE Sent(k, a) # {}
  <2>1. PICK e \in limitRequest[k] :
                /\ e.tag = a /\ Sent(k, a) = {e}
                /\ OffTasks(k, a) = <<LimitTask(k, e.tag, e.value, FALSE)>>
    BY <1>6, <1>8
  <2>2. Sent(k, b) = {}
    BY <1>1, <1>3, <1>4, <2>1
  <2>3. OffTasks(k, b) = <<>>
    BY <1>6, <2>2
  <2>4. Kept(k, tag) = limitRequest[k] \ {e}
    BY <2>1, <2>2 DEF Kept, a, b
  <2> DEFINE t == LimitTask(k, e.tag, e.value, FALSE)
  <2>5. Off(k, tag) = <<t>> \o <<>>
    BY <2>1, <2>3 DEF Off, a, b
  <2>6. <<t>> \o <<>> = <<t>>
    <3> HIDE DEF t
    <3> QED OBVIOUS
  <2> QED BY <1>5, <2>4, <2>5, <2>6
<1>9. CASE Sent(k, a) = {} /\ Sent(k, b) # {}
  <2>1. PICK e \in limitRequest[k] :
                /\ e.tag = b /\ Sent(k, b) = {e}
                /\ OffTasks(k, b) = <<LimitTask(k, e.tag, e.value, FALSE)>>
    BY <1>6, <1>9
  <2>2. OffTasks(k, a) = <<>>
    BY <1>6, <1>9
  <2>3. Kept(k, tag) = limitRequest[k] \ {e}
    BY <2>1, <1>9 DEF Kept, a, b
  <2> DEFINE t == LimitTask(k, e.tag, e.value, FALSE)
  <2>4. Off(k, tag) = <<>> \o <<t>>
    BY <2>1, <2>2 DEF Off, a, b
  <2>5. <<>> \o <<t>> = <<t>>
    <3> HIDE DEF t
    <3> QED OBVIOUS
  <2> QED BY <1>5, <2>3, <2>4, <2>5
<1> QED BY <1>7, <1>8, <1>9

\* A turn of the loop of LimitRequest: what it submits leads to what it records.
LEMMA SendKeepsRecord ==
    ASSUME ValuesFit, LimitInv, NEW c \in Caller, SendLimitRequestEvent(c)
    PROVE  OneEntry(limitRequest)' /\ Leads(queue, alive, AllLimits(limitRequest))'
<1> DEFINE r == todo[c].configs[1]
           k == todo[c].client
           kept == Kept(k, r.tag)
           off == Off(k, r.tag)
           on == r.value \notin {INVALID_VALUE, RESET_VALUE}
           new == [tag |-> r.tag, value |-> r.value]
           t == LimitTask(k, r.tag, r.value, TRUE)
           lr == limitRequest
           lr1 == [limitRequest EXCEPT ![k] = kept]
           lr2 == [lr1 EXCEPT ![k] = @ \cup {new}]
<1>1. /\ TypeInv /\ OneEntry(lr) /\ Leads(queue, alive, AllLimits(lr))
      /\ queue \in Seq(Task) /\ lr \in [Client -> SUBSET Entry]
  BY DEF LimitInv, TypeInv, TypeOK, Task
<1>2. /\ k \in Client /\ r.tag \in Tag /\ r.value \in Config
      /\ todo[c].configs # <<>> /\ alive' = alive
  BY <1>1, TurnType DEF SendLimitRequestEvent, worker
<1>3. /\ queue' = queue \o off \o (IF on THEN <<t>> ELSE <<>>)
      /\ limitRequest' = [lr EXCEPT ![k] =
            IF on /\ \A e \in kept : e.tag # r.tag
            THEN kept \cup {[tag |-> r.tag, value |-> Int32(r.value)]} ELSE kept]
  BY DEF SendLimitRequestEvent, Slot, Off, Kept
<1>4. Int32(r.value) = r.value /\ r.value \in Int /\ new \in Entry
  BY <1>2, Int32Fits, LimitAssumption DEF ValuesFit, Entry
<1>5. /\ \A e \in kept : e.tag.res # r.tag.res
      /\ \/ off = <<>> /\ kept = lr[k]
         \/ \E e \in lr[k] : /\ off = <<LimitTask(k, e.tag, e.value, FALSE)>>
                             /\ kept = lr[k] \ {e}
  BY <1>1, <1>2, OffWithdraws
<1>6. limitRequest' = IF on THEN lr2 ELSE lr1
  <2>1. \A e \in kept : e.tag # r.tag
    BY <1>5
  <2> HIDE DEF kept, on, k, r
  <2> QED BY <1>1, <1>2, <1>3, <1>4, <2>1
<1>7. /\ queue \o off \in Seq(Task) /\ OneEntry(lr1)
      /\ Leads(queue \o off, alive, AllLimits(lr1))
      /\ lr1 \in [Client -> SUBSET Entry]
  <2>1. CASE off = <<>> /\ kept = lr[k]
    <3>1. lr1 = lr
      BY <1>1, <1>2, <2>1
    <3>2. queue \o off = queue
      <4> HIDE DEF off
      <4> QED BY <1>1, <2>1
    <3> HIDE DEF lr1, off
    <3> QED BY <1>1, <3>1, <3>2
  <2>2. CASE \E e \in lr[k] : /\ off = <<LimitTask(k, e.tag, e.value, FALSE)>>
                              /\ kept = lr[k] \ {e}
    <3>1. PICK e \in lr[k] : /\ off = <<LimitTask(k, e.tag, e.value, FALSE)>>
                             /\ kept = lr[k] \ {e}
      BY <2>2
    <3> DEFINE u == LimitTask(k, e.tag, e.value, FALSE)
    <3>2. lr1 = [lr EXCEPT ![k] = @ \ {e}]
      BY <3>1
    <3>3. OneEntry(lr1) /\ Executed(u, AllLimits(lr)) = AllLimits(lr1)
      <4> HIDE DEF lr1, k, r, lr
      <4>1. /\ OneEntry([lr EXCEPT ![k] = @ \ {e}])
            /\ Executed(u, AllLimits(lr)) = AllLimits([lr EXCEPT ![k] = @ \ {e}])
        BY <1>1, <1>2, WithdrawnLimits
      <4> QED BY <3>2, <4>1
    <3>4. u \in Task
      <4>1. e.tag \in Tag /\ e.value \in Int
        BY <1>1, <1>2, LimitAssumption DEF Entry
      <4> QED BY <1>2, <4>1, LimitTaskType DEF Task
    <3>5. AllLimits(lr1) \subseteq AllLimits(lr)
      BY <3>3 DEF Executed, LimitTask
    <3>6. off = <<u>>
      BY <3>1
    <3>7. AllLimits(lr1) \in SUBSET Limit /\ OneEach(AllLimits(lr1))
      BY <1>1, <3>3, <3>5, LeadsOneEach, OneEntryOneLimit
    <3>8. lr1 \in [Client -> SUBSET Entry]
      BY <1>1, <1>2, <3>2
    <3> HIDE DEF u, lr1, off
    <3>9. Leads(Append(queue, u), alive, AllLimits(lr1))
      BY <1>1, <3>3, <3>4, <3>7, LeadsAppend
    <3>10. queue \o off = Append(queue, u) /\ Append(queue, u) \in Seq(Task)
      BY <1>1, <3>6, <3>4
    <3> QED BY <3>3, <3>8, <3>9, <3>10
  <2> QED BY <1>5, <2>1, <2>2
<1>8. CASE ~ on
  <2>1. limitRequest' = lr1
    BY <1>6, <1>8
  <2>2. queue' = queue \o off
    <3>1. queue' = (queue \o off) \o <<>>
      BY <1>3, <1>8
    <3> DEFINE q == queue \o off
    <3> HIDE DEF q, off
    <3> QED BY <1>7, <3>1 DEF q
  <2> HIDE DEF lr1, off
  <2> QED BY <1>2, <1>7, <2>1, <2>2
<1>9. CASE on
  <2>1. limitRequest' = lr2
    BY <1>6, <1>9
  <2>2. lr1[k] = kept
    BY <1>1, <1>2
  <2>3. \A f \in lr1[k] : f.tag.res # new.tag.res
    BY <1>5, <2>2
  <2>4. new.value # INVALID_VALUE /\ t = LimitTask(k, new.tag, new.value, TRUE)
    BY <1>9
  <2>5. OneEntry(lr2) /\ Executed(t, AllLimits(lr1)) = AllLimits(lr2)
    <3> HIDE DEF lr1, new, k
    <3>1. /\ OneEntry([lr1 EXCEPT ![k] = @ \cup {new}])
          /\ Executed(LimitTask(k, new.tag, new.value, TRUE), AllLimits(lr1))
                = AllLimits([lr1 EXCEPT ![k] = @ \cup {new}])
      BY <1>2, <1>4, <1>7, <2>3, <2>4, AddedLimits
    <3> HIDE DEF t
    <3> QED BY <2>4, <3>1
  <2>6. t \in LimitTasks
    BY <1>2, <1>4, LimitTaskType
  <2>7. AllLimits(lr2) \in SUBSET Limit /\ OneEach(AllLimits(lr2))
    <3>1. AllLimits(lr1) \in SUBSET Limit
      <4> HIDE DEF lr1, off
      <4> QED BY <1>7, LeadsOneEach
    <3>2. Limits(t.tag, t.value, t.type, t.cmdId) \subseteq Limit
      <4> HIDE DEF t
      <4> QED BY <2>6, LimitsType
    <3>3. Executed(t, AllLimits(lr1)) \in SUBSET Limit
      <4> HIDE DEF lr1, t
      <4> QED BY <3>1, <3>2 DEF Executed
    <3> HIDE DEF lr1, lr2, t
    <3> QED BY <2>5, <3>3, OneEntryOneLimit
  <2> DEFINE q == queue \o off
  <2>8. queue' = Append(q, t)
    <3>1. queue' = q \o <<t>>
      BY <1>3, <1>9
    <3>2. q \in Seq(Task) /\ t \in Task
      BY <1>7, <2>6 DEF Task
    <3> HIDE DEF q, t
    <3> QED BY <3>1, <3>2
  <2>9. Leads(Append(q, t), alive, AllLimits(lr2))
    <3>1. t \in Task
      BY <2>6 DEF Task
    <3>2. Leads(q, alive, AllLimits(lr1)) /\ q \in Seq(Task)
      BY <1>7
    <3> HIDE DEF q, t, lr1, lr2
    <3> QED BY <2>5, <2>7, <3>1, <3>2, LeadsAppend
  <2> HIDE DEF q, t, lr2
  <2> QED BY <1>2, <2>1, <2>5, <2>8, <2>9
<1> QED BY <1>8, <1>9

\* A task at the head that does not touch the limits.
LEMMA SwitchExecuted ==
    ASSUME NEW t \in SwitchTasks, NEW S PROVE Executed(t, S) = S
BY DEF SwitchTasks, Executed

\* Every other step keeps the record, and what the queue leads to.
LEMMA OthersKeepRecord ==
    ASSUME LimitInv, [Next]_vars, \A c \in Caller : ~ SendLimitRequestEvent(c)
    PROVE  OneEntry(limitRequest)' /\ Leads(queue, alive, AllLimits(limitRequest))'
<1> DEFINE T == AllLimits(limitRequest)
<1>1. queue \in Seq(Task) /\ OneEntry(limitRequest) /\ Leads(queue, alive, T)
  BY DEF LimitInv, TypeInv, Task
<1>2. T \in SUBSET Limit /\ OneEach(T)
  <2> HIDE DEF T
  <2> QED BY <1>1, LeadsOneEach
<1>3. limitRequest' = limitRequest
  BY DEF Next, LimitRequest, Call, ThermalLimitBoost, PowerLimitBoost,
         ReadBatteryLimitStatus, ReadPowerLimitStatus, SubmitPowerLimitBoost, UpdateLimitStatus, UpdatePowerLimitBoostFreq,
         UpdateThermalLimitBoostFreq, Take, vars
<1>4. T' = T /\ OneEntry(limitRequest)'
  BY <1>1, <1>3
<1> SUFFICES Leads(queue', alive', T)
  BY <1>4
<1>5. ASSUME NEW t \in SwitchTasks, queue' = Append(queue, t), alive' = alive
      PROVE  Leads(queue', alive', T)
  <2>1. t \in Task /\ Executed(t, T) = T
    BY SwitchExecuted DEF Task
  <2> HIDE DEF T
  <2> QED BY <1>1, <1>2, <1>5, <2>1, LeadsAppend
<1>6. ASSUME queue # <<>>, queue' = Tail(queue), alive' = Executed(Head(queue), alive)
      PROVE  Leads(queue', alive', T)
  <2> HIDE DEF T
  <2> QED BY <1>1, <1>6, LeadsTail
<1>7. ASSUME queue # <<>>
      PROVE  Head(queue) \in Task
  BY <1>1, <1>7
<1>8. ASSUME NEW c \in Caller,
             \/ LimitRequest(c) \/ PowerLimitBoost(c)
             \/ ReadBatteryLimitStatus(c) \/ ReadPowerLimitStatus(c)
      PROVE  Leads(queue', alive', T)
  <2>1. queue' = queue /\ alive' = alive
    BY <1>8 DEF LimitRequest, Call, PowerLimitBoost, ReadBatteryLimitStatus,
               ReadPowerLimitStatus, worker
  <2> QED BY <1>1, <2>1
<1>9. ASSUME NEW c \in Caller, ThermalLimitBoost(c)
      PROVE  Leads(queue', alive', T)
  <2>1. PICK on \in BOOLEAN : queue' = Append(queue, [kind |-> "thermal", on |-> on])
    BY <1>9 DEF ThermalLimitBoost
  <2>2. [kind |-> "thermal", on |-> on] \in SwitchTasks /\ alive' = alive
    BY <1>9 DEF SwitchTasks, ThermalLimitBoost, Call, worker
  <2> QED BY <1>5, <2>1, <2>2
<1>10. ASSUME NEW c \in Caller, SubmitPowerLimitBoost(c)
       PROVE  Leads(queue', alive', T)
  <2>1. switching[c].on \in BOOLEAN
    BY DEF LimitInv, TypeInv, TypeOK
  <2>2. [kind |-> "power", on |-> switching[c].on] \in SwitchTasks /\ alive' = alive
    BY <1>10, <2>1 DEF SwitchTasks, SubmitPowerLimitBoost, worker
  <2> QED BY <1>5, <1>10, <2>2 DEF SubmitPowerLimitBoost
<1>11. CASE UpdateLimitStatus
  <2>1. queue # <<>> /\ queue' = Tail(queue) /\ Head(queue).kind = "limit"
    BY <1>11 DEF UpdateLimitStatus, Take
  <2>2. alive' = Executed(Head(queue), alive)
    BY <1>11, <2>1 DEF UpdateLimitStatus, Executed
  <2> QED BY <1>6, <2>1, <2>2
<1>12. CASE UpdatePowerLimitBoostFreq \/ UpdateThermalLimitBoostFreq
  <2>1. queue # <<>> /\ queue' = Tail(queue) /\ Head(queue).kind # "limit" /\ alive' = alive
    BY <1>12 DEF UpdatePowerLimitBoostFreq, UpdateThermalLimitBoostFreq, Take
  <2>2. alive' = Executed(Head(queue), alive)
    BY <2>1 DEF Executed
  <2> QED BY <1>6, <2>1, <2>2
<1>13. CASE UNCHANGED vars
  BY <1>1, <1>13 DEF vars, worker
<1> HIDE DEF T
<1> QED BY <1>8, <1>9, <1>10, <1>11, <1>12, <1>13 DEF Next

LEMMA RecordAlways ==
    ASSUME ValuesFit PROVE Spec => []LimitInv
<1>1. Init => LimitInv
  <2> SUFFICES ASSUME Init PROVE LimitInv
    OBVIOUS
  <2>1. TypeInv
    BY InitTypes
  <2>2. OneEntry(limitRequest) /\ AllLimits(limitRequest) = {}
    BY DEF Init, OneEntry, AllLimits, LimitsOf
  <2>3. Leads(<<>>, {}, {})
    BY LeadsNowhere DEF OneEach
  <2> QED BY <2>1, <2>2, <2>3 DEF Init, LimitInv
<1>2. LimitInv /\ [Next]_vars => LimitInv'
  BY NextTypes, SendKeepsRecord, OthersKeepRecord DEF LimitInv
<1> QED BY <1>1, <1>2, PTL DEF Spec

\* If the values fit, whatever threads set and withdraw limits in whatever order, the
\* alive limits are the recorded ones once the submitted tasks are executed.
THEOREM RecordMatches ==
    ASSUME ValuesFit PROVE Spec => []LimitsMatchRecord
<1>1. ASSUME LimitInv PROVE LimitsMatchRecord
  <2>1. AllLimits(limitRequest) = UNION {Recorded(k) : k \in Client}
    BY DEF AllLimits, LimitsOf, Recorded
  <2> QED BY <1>1, <2>1, LeadsEmpty DEF LimitInv, LimitsMatchRecord
<1> QED BY <1>1, RecordAlways, PTL

\* If the values fit, a client never has two limits alive on one resource, not even
\* between the tasks of one turn.
THEOREM LimitsAreReplaced ==
    ASSUME ValuesFit PROVE Spec => []OneLimitPerClient
<1>1. ASSUME LimitInv PROVE OneLimitPerClient
  <2>1. queue \in Seq(Task)
    BY <1>1 DEF LimitInv, TypeInv, Task
  <2>2. OneEach(alive)
    BY <1>1, <2>1, LeadsOneEach DEF LimitInv
  <2> QED BY <2>2 DEF OneEach, OneLimitPerClient
<1> QED BY <1>1, RecordAlways, PTL

-----------------------------------------------------------------------------
(* The power switch *)

IsPower(q, i) == i \in DOMAIN q /\ q[i].kind = "power"

\* With switch b now, the tasks of q leave it at s.
LeavesAt(q, b, s) ==
    /\ (\A i \in DOMAIN q : ~ IsPower(q, i)) => b = s
    /\ \A i \in DOMAIN q :
          IsPower(q, i) /\ (\A j \in DOMAIN q : IsPower(q, j) => j <= i) => q[i].on = s

\* Boosts are to be limited: one of the flags is set.
Either == \E s \in Switch : limitStatus[s]

\* Unless a flag changed behind it, a thread that goes on to the power flag does so
\* because the battery does not limit, and what a thread will submit is what the two
\* flags say; when all have submitted, the last task says so, unless its thread was
\* overtaken.
SwitchInv ==
    /\ \A c \in Caller : ~ switching[c].stale =>
          /\ switching[c].step = "power" => ~ limitStatus["battery"]
          /\ switching[c].step = "submit" => switching[c].on = Either
    /\ (\A c \in Caller : switching[c] = Idle) =>
           overtaken \/ LeavesAt(queue, powerLimitBoost, Either)

\* A task that is no power switch changes nothing of what is left.
LEMMA LeavesOther ==
    ASSUME NEW q \in Seq(Task), NEW b, NEW s, LeavesAt(q, b, s),
           NEW t \in Task, t.kind # "power"
    PROVE  LeavesAt(Append(q, t), b, s)
<1> DEFINE p == Append(q, t)
<1>1. /\ DOMAIN p = 1 .. Len(q) + 1 /\ DOMAIN q = 1 .. Len(q) /\ Len(q) \in Nat
      /\ p[Len(q) + 1] = t /\ \A i \in DOMAIN q : p[i] = q[i]
  OBVIOUS
<1> HIDE DEF p
<1>2. \A i \in DOMAIN p : IsPower(p, i) <=> i \in DOMAIN q /\ IsPower(q, i)
  BY <1>1 DEF IsPower
<1>3. \A i \in DOMAIN q : i \in DOMAIN p
  BY <1>1
<1>4. LeavesAt(p, b, s)
  BY <1>1, <1>2, <1>3 DEF LeavesAt
<1> QED BY <1>4 DEF p

\* A power switch at the end decides.
LEMMA LeavesSwitch ==
    ASSUME NEW q \in Seq(Task), NEW b, NEW t \in Task, t.kind = "power"
    PROVE  LeavesAt(Append(q, t), b, t.on)
<1> DEFINE p == Append(q, t)
<1>1. /\ DOMAIN p = 1 .. Len(q) + 1 /\ Len(q) \in Nat /\ p[Len(q) + 1] = t
      /\ Len(q) + 1 \in DOMAIN p
  OBVIOUS
<1> HIDE DEF p
<1>2. IsPower(p, Len(q) + 1)
  BY <1>1 DEF IsPower
<1>3. ASSUME NEW i \in DOMAIN p, \A j \in DOMAIN p : IsPower(p, j) => j <= i
      PROVE  i = Len(q) + 1
  <2>1. Len(q) + 1 <= i
    BY <1>1, <1>2, <1>3
  <2> QED BY <1>1, <2>1
<1>4. LeavesAt(p, b, t.on)
  BY <1>1, <1>2, <1>3 DEF LeavesAt
<1> QED BY <1>4 DEF p

\* Taking the first task leaves at the same, the switch having its value.
LEMMA LeavesTail ==
    ASSUME NEW q \in Seq(Task), NEW b, NEW s, LeavesAt(q, b, s), q # <<>>
    PROVE  LeavesAt(Tail(q), IF Head(q).kind = "power" THEN Head(q).on ELSE b, s)
<1> DEFINE p == Tail(q)
           n == Len(q)
           d == IF Head(q).kind = "power" THEN Head(q).on ELSE b
<1>1. /\ n \in Nat \ {0} /\ DOMAIN q = 1 .. n /\ DOMAIN p = 1 .. n - 1 /\ Head(q) = q[1]
      /\ \A i \in 1 .. n - 1 : p[i] = q[i + 1]
  OBVIOUS
<1> HIDE DEF p, n
<1>2. \A i \in 1 .. n - 1 : i + 1 \in 1 .. n /\ (IsPower(p, i) <=> IsPower(q, i + 1))
  BY <1>1 DEF IsPower
<1>3. \A j \in 1 .. n : j = 1 \/ (j - 1 \in 1 .. n - 1 /\ j - 1 + 1 = j)
  BY <1>1
<1>4. 1 \in 1 .. n /\ (IsPower(q, 1) <=> Head(q).kind = "power")
  BY <1>1 DEF IsPower
<1>5. ASSUME \A i \in DOMAIN p : ~ IsPower(p, i)
      PROVE  d = s
  <2>1. \A j \in 1 .. n : IsPower(q, j) => j = 1
    <3> SUFFICES ASSUME NEW j \in 1 .. n, j # 1 PROVE ~ IsPower(q, j)
      OBVIOUS
    <3>1. j - 1 \in DOMAIN p /\ j - 1 \in 1 .. n - 1 /\ j - 1 + 1 = j
      BY <1>1, <1>3
    <3>2. ~ IsPower(p, j - 1)
      BY <1>5, <3>1
    <3> QED BY <1>2, <3>1, <3>2
  <2>2. CASE IsPower(q, 1)
    <3>1. \A j \in DOMAIN q : IsPower(q, j) => j <= 1
      BY <1>1, <2>1
    <3> QED BY <1>1, <1>4, <2>2, <3>1 DEF LeavesAt
  <2>3. CASE ~ IsPower(q, 1)
    <3>1. \A j \in DOMAIN q : ~ IsPower(q, j)
      BY <1>1, <2>1, <2>3
    <3> QED BY <1>4, <2>3, <3>1 DEF LeavesAt
  <2> QED BY <2>2, <2>3
<1>6. ASSUME NEW i \in DOMAIN p, IsPower(p, i),
             \A j \in DOMAIN p : IsPower(p, j) => j <= i
      PROVE  p[i].on = s
  <2>1. i + 1 \in DOMAIN q /\ IsPower(q, i + 1) /\ p[i] = q[i + 1]
    BY <1>1, <1>2, <1>6
  <2>2. ASSUME NEW j \in DOMAIN q, IsPower(q, j) PROVE j <= i + 1
    <3>1. CASE j = 1
      BY <1>1, <3>1
    <3>2. CASE j # 1
      <4>1. j - 1 \in DOMAIN p /\ IsPower(p, j - 1)
        BY <1>1, <1>2, <1>3, <2>2, <3>2
      <4>2. j - 1 <= i
        BY <1>6, <4>1
      <4> QED BY <1>1, <4>1, <4>2
    <3> QED BY <3>1, <3>2
  <2> QED BY <2>1, <2>2 DEF LeavesAt
<1> HIDE DEF d
<1>7. LeavesAt(p, d, s)
  BY <1>5, <1>6 DEF LeavesAt
<1> QED BY <1>7 DEF p, d

\* A turn of the loop of LimitRequest submits limits, and does not touch the switch.
LEMMA SendKeepsSwitch ==
    ASSUME TypeInv, SwitchInv, NEW c \in Caller, SendLimitRequestEvent(c)
    PROVE  SwitchInv'
<1> DEFINE s == Either
           r == todo[c].configs[1]
           k == todo[c].client
           A(q) == q \in Seq(Task) /\ LeavesAt(q, powerLimitBoost, s)
<1>1. /\ switching' = switching /\ powerLimitBoost' = powerLimitBoost
      /\ limitStatus' = limitStatus /\ overtaken' = overtaken
      /\ queue' = queue \o Off(k, r.tag)
            \o (IF r.value \notin {INVALID_VALUE, RESET_VALUE}
                THEN <<LimitTask(k, r.tag, r.value, TRUE)>> ELSE <<>>)
      /\ k \in Client /\ r.tag \in Tag /\ r.value \in Int
  BY TurnType, LimitAssumption DEF SendLimitRequestEvent, Slot, Off, worker
<1>2. ASSUME NEW q, A(q), NEW t \in LimitTasks
      PROVE  A(q \o <<t>>) /\ A(q \o <<>>)
  <2>1. q \o <<t>> = Append(q, t) /\ q \o <<>> = q /\ Append(q, t) \in Seq(Task)
    BY <1>2 DEF Task
  <2>2. t \in Task /\ t.kind # "power"
    BY DEF Task, LimitTasks
  <2> QED BY <1>2, <2>1, <2>2, LeavesOther
<1>3. ASSUME A(queue)
      PROVE  A(queue')
  <2>1. LimitTask(k, r.tag, r.value, TRUE) \in LimitTasks
    BY <1>1, LimitTaskType
  <2>2. ASSUME NEW q, A(q), NEW g \in Tag
        PROVE  A(q \o OffTasks(k, g))
    <3>1. CASE OffTasks(k, g) = <<>>
      <4> HIDE DEF A
      <4> QED BY <1>2, <2>1, <2>2, <3>1
    <3>2. CASE OffTasks(k, g) # <<>>
      <4>1. PICK e \in limitRequest[k] :
                    OffTasks(k, g) = <<LimitTask(k, g, e.value, FALSE)>>
        BY <1>1, <3>2, OffTasksOfTag
      <4>2. e.value \in Int
        BY <1>1, LimitAssumption DEF TypeInv, TypeOK, Entry
      <4>3. LimitTask(k, g, e.value, FALSE) \in LimitTasks
        BY <1>1, <4>2, LimitTaskType
      <4> HIDE DEF A
      <4> QED BY <1>2, <2>2, <4>1, <4>3
    <3> QED BY <3>1, <3>2
  <2>3. Both(r.tag)[1] \in Tag /\ Both(r.tag)[2] \in Tag
        /\ OffTasks(k, Both(r.tag)[1]) \in Seq(Task)
        /\ OffTasks(k, Both(r.tag)[2]) \in Seq(Task)
    BY <1>1, OffTasksType
  <2>4. queue \o Off(k, r.tag)
          = (queue \o OffTasks(k, Both(r.tag)[1])) \o OffTasks(k, Both(r.tag)[2])
    <3> DEFINE x == OffTasks(k, Both(r.tag)[1])
               y == OffTasks(k, Both(r.tag)[2])
    <3> HIDE DEF x, y
    <3>1. x \in Seq(Task) /\ y \in Seq(Task) /\ queue \in Seq(Task)
      BY <2>3, <1>3 DEF x, y
    <3>2. queue \o (x \o y) = (queue \o x) \o y
      <4> HIDE DEF k, r
      <4> QED BY <3>1
    <3> QED BY <3>2 DEF Off, x, y
  <2>5. A(queue \o Off(k, r.tag))
    <3> HIDE DEF A, k, r
    <3> QED BY <1>3, <2>2, <2>3, <2>4
  <2>6. CASE r.value \notin {INVALID_VALUE, RESET_VALUE}
    <3>1. queue' = queue \o Off(k, r.tag) \o <<LimitTask(k, r.tag, r.value, TRUE)>>
      BY <1>1, <2>6
    <3> HIDE DEF A, k, r
    <3> QED BY <1>2, <2>1, <2>5, <3>1
  <2>7. CASE r.value \in {INVALID_VALUE, RESET_VALUE}
    <3>1. queue' = queue \o Off(k, r.tag) \o <<>>
      BY <1>1, <2>7
    <3> HIDE DEF A, k, r
    <3> QED BY <1>2, <2>1, <2>5, <3>1
  <2> QED BY <2>6, <2>7
<1>4. queue \in Seq(Task) /\ Either' = Either
  BY <1>1 DEF TypeInv, Task, Either
<1> HIDE DEF k, r
<1> QED BY <1>1, <1>3, <1>4 DEF SwitchInv

\* Every other step.
LEMMA OthersKeepSwitch ==
    ASSUME TypeInv, SwitchInv, [Next]_vars,
           \A c \in Caller : ~ SendLimitRequestEvent(c)
    PROVE  SwitchInv'
<1>1. queue \in Seq(Task)
  BY DEF TypeInv, Task
<1>2. /\ switching \in [Caller -> Switching] /\ limitStatus \in [Switch -> BOOLEAN]
      /\ "battery" \in Switch /\ "power" \in Switch
      /\ (Either <=> limitStatus["battery"] \/ limitStatus["power"])
      /\ Either \in BOOLEAN
  BY DEF TypeInv, TypeOK, Switching, Switch, Either
<1>3. ASSUME UNCHANGED <<switching, overtaken, limitStatus, powerLimitBoost, queue>>
      PROVE  SwitchInv'
  <2>1. Either' = Either
    BY <1>3 DEF Either
  <2> QED BY <1>3, <2>1 DEF SwitchInv
<1>4. ASSUME NEW c \in Caller, LimitRequest(c)
      PROVE  SwitchInv'
  BY <1>3, <1>4 DEF LimitRequest, Call, worker
<1>5. ASSUME NEW c \in Caller, ThermalLimitBoost(c)
      PROVE  SwitchInv'
  <2>1. PICK on \in BOOLEAN : queue' = Append(queue, [kind |-> "thermal", on |-> on])
    BY <1>5 DEF ThermalLimitBoost
  <2>2. [kind |-> "thermal", on |-> on] \in Task
    BY DEF Task, SwitchTasks
  <2>3. UNCHANGED <<switching, limitStatus, powerLimitBoost>>
    BY <1>5 DEF ThermalLimitBoost, Call, worker
  <2> overtaken' = overtaken
    BY <1>5 DEF ThermalLimitBoost, Call
  <2>4. Either' = Either
    BY <2>3 DEF Either
  <2>5. ASSUME LeavesAt(queue, powerLimitBoost, Either)
        PROVE  LeavesAt(queue', powerLimitBoost, Either)
    BY <1>1, <2>1, <2>2, <2>5, LeavesOther
  <2> QED BY <2>3, <2>4, <2>5 DEF SwitchInv
<1>6. ASSUME NEW c \in Caller, PowerLimitBoost(c)
      PROVE  SwitchInv'
  <2>1. PICK s \in Switch, on \in BOOLEAN : Written(c, s, on)
    BY <1>6 DEF PowerLimitBoost, Written
  <2>2. switching'[c].step = "battery" /\ switching'[c] # Idle
    BY <2>1 DEF Written, Idle
  <2>3. ASSUME NEW d \in Caller, d # c, ~ switching'[d].stale
        PROVE  /\ switching'[d] = switching[d] /\ ~ switching[d].stale
               /\ limitStatus[s] = on \/ ~ HasRead(d, s)
    BY <1>2, <2>1, <2>3 DEF Written, Switching
  <2>4. limitStatus[s] = on => limitStatus' = limitStatus
    BY <1>2, <2>1 DEF Written
  <2>5. s # "battery" => limitStatus'["battery"] = limitStatus["battery"]
    BY <1>2, <2>1 DEF Written
  <2>6. limitStatus' = limitStatus => Either' = Either
    BY DEF Either
  <2>7. ASSUME NEW d \in Caller, ~ switching'[d].stale
        PROVE  /\ switching'[d].step = "power" => ~ limitStatus'["battery"]
               /\ switching'[d].step = "submit" => switching'[d].on = Either'
    <3>1. CASE d = c
      BY <2>2, <3>1
    <3>2. CASE d # c
      <4>1. /\ switching'[d] = switching[d] /\ ~ switching[d].stale
            /\ limitStatus[s] = on \/ ~ HasRead(d, s)
        BY <2>3, <2>7, <3>2
      <4> QED BY <2>4, <2>5, <2>6, <4>1 DEF SwitchInv, HasRead
    <3> QED BY <3>1, <3>2
  <2> QED BY <2>2, <2>7 DEF SwitchInv
<1>7. ASSUME NEW c \in Caller, ReadBatteryLimitStatus(c)
      PROVE  SwitchInv'
  <2>1. /\ switching[c].step = "battery"
        /\ switching' = [switching EXCEPT ![c] = AfterBattery]
        /\ limitStatus' = limitStatus
    BY <1>7 DEF ReadBatteryLimitStatus
  <2>2. Either' = Either
    BY <2>1 DEF Either
  <2>3. \A d \in Caller : switching'[d] = IF d = c THEN AfterBattery ELSE switching[d]
    BY <1>2, <2>1
  <2>4. /\ AfterBattery # Idle
        /\ AfterBattery.step = "power" => ~ limitStatus["battery"]
        /\ AfterBattery.step = "submit" => limitStatus["battery"] /\ AfterBattery.on = TRUE
    BY DEF AfterBattery, Idle
  <2>5. AfterBattery.step = "submit" => AfterBattery.on = Either
    BY <1>2, <2>4
  <2> HIDE DEF AfterBattery
  <2> QED BY <2>1, <2>2, <2>3, <2>4, <2>5 DEF SwitchInv
<1>11. ASSUME NEW c \in Caller, ReadPowerLimitStatus(c)
       PROVE  SwitchInv'
  <2>1. /\ switching[c].step = "power" /\ limitStatus' = limitStatus
        /\ switching' = [switching EXCEPT ![c].step = "submit",
                                          ![c].on = limitStatus["power"]]
    BY <1>11 DEF ReadPowerLimitStatus
  <2>2. Either' = Either
    BY <2>1 DEF Either
  <2>3. \A d \in Caller \ {c} : switching'[d] = switching[d]
    BY <1>2, <2>1
  <2>4. /\ switching'[c].step = "submit" /\ switching'[c].on = limitStatus["power"]
        /\ switching'[c].stale = switching[c].stale
    BY <1>2, <2>1 DEF Switching
  <2>5. ~ switching[c].stale => switching'[c].on = Either
    <3>1. ~ switching[c].stale => ~ limitStatus["battery"]
      BY <2>1 DEF SwitchInv
    <3>2. limitStatus["power"] \in BOOLEAN
      BY <1>2
    <3>3. ~ switching[c].stale => limitStatus["power"] = Either
      BY <1>2, <3>1, <3>2
    <3> QED BY <2>4, <3>3
  <2>6. switching'[c] # Idle
    BY <2>4 DEF Idle
  <2>7. ASSUME NEW d \in Caller, ~ switching'[d].stale
        PROVE  /\ switching'[d].step = "power" => ~ limitStatus'["battery"]
               /\ switching'[d].step = "submit" => switching'[d].on = Either'
    <3>1. CASE d = c
      BY <2>2, <2>4, <2>5, <2>7, <3>1
    <3>2. CASE d # c
      BY <2>1, <2>2, <2>3, <2>7, <3>2 DEF SwitchInv
    <3> QED BY <3>1, <3>2
  <2> QED BY <2>6, <2>7 DEF SwitchInv
<1>8. ASSUME NEW c \in Caller, SubmitPowerLimitBoost(c)
      PROVE  SwitchInv'
  <2> DEFINE t == [kind |-> "power", on |-> switching[c].on]
  <2>1. /\ switching[c].step = "submit" /\ switching' = [switching EXCEPT ![c] = Idle]
        /\ queue' = Append(queue, t) /\ limitStatus' = limitStatus
        /\ powerLimitBoost' = powerLimitBoost /\ overtaken' = switching[c].stale
    BY <1>8 DEF SubmitPowerLimitBoost, worker
  <2>2. (~ switching[c].stale => t.on = Either) /\ t.kind = "power"
    BY <2>1 DEF SwitchInv
  <2>3. t \in Task
    BY <1>2 DEF Task, SwitchTasks, Switching
  <2>4. Either' = Either
    BY <2>1 DEF Either
  <2>5. ~ switching[c].stale => LeavesAt(queue', powerLimitBoost, Either)
    <3> HIDE DEF t
    <3>1. LeavesAt(queue', powerLimitBoost, t.on)
      BY <1>1, <2>1, <2>2, <2>3, LeavesSwitch
    <3> QED BY <2>2, <3>1
  <2>6. \A d \in Caller : switching'[d] = IF d = c THEN Idle ELSE switching[d]
    BY <1>2, <2>1
  <2>7. Idle.step = "idle"
    BY DEF Idle
  <2> HIDE DEF t
  <2> QED BY <2>1, <2>4, <2>5, <2>6, <2>7 DEF SwitchInv
<1>9. CASE UpdateLimitStatus \/ UpdatePowerLimitBoostFreq \/ UpdateThermalLimitBoostFreq
  <2>1. /\ queue # <<>> /\ queue' = Tail(queue)
        /\ switching' = switching /\ limitStatus' = limitStatus /\ overtaken' = overtaken
        /\ powerLimitBoost' = IF Head(queue).kind = "power" THEN Head(queue).on
                              ELSE powerLimitBoost
    BY <1>9 DEF UpdateLimitStatus, UpdatePowerLimitBoostFreq, UpdateThermalLimitBoostFreq,
                Take, callers
  <2>2. Either' = Either
    BY <2>1 DEF Either
  <2>3. ASSUME LeavesAt(queue, powerLimitBoost, Either)
        PROVE  LeavesAt(queue', powerLimitBoost', Either)
    BY <1>1, <2>1, <2>3, LeavesTail
  <2> QED BY <2>1, <2>2, <2>3 DEF SwitchInv
<1>10. CASE UNCHANGED vars
  BY <1>3, <1>10 DEF vars, callers, worker
<1> QED BY <1>4, <1>5, <1>6, <1>7, <1>8, <1>9, <1>10, <1>11 DEF Next

\* Whatever threads call PowerLimitBoost, and however their calls interleave: when
\* they are done and executed, boosts are limited exactly if the battery or the power
\* module asked for it last, unless the call that submitted last had been overtaken,
\* that is, a flag it was past was changed before it submitted.
THEOREM SwitchMatches == Spec => []PowerSwitchMatches
<1>1. Init => SwitchInv
  <2> SUFFICES ASSUME Init PROVE SwitchInv
    OBVIOUS
  <2>1. \A c \in Caller : switching[c] = Idle /\ switching[c].step = "idle"
    BY DEF Init, Idle
  <2>2. Either = FALSE
    BY DEF Init, Either
  <2>3. LeavesAt(<<>>, FALSE, FALSE)
    BY DEF LeavesAt
  <2>4. queue = <<>> /\ powerLimitBoost = FALSE
    BY DEF Init
  <2> QED BY <2>1, <2>2, <2>3, <2>4 DEF SwitchInv
<1>2. TypeInv /\ SwitchInv /\ [Next]_vars => SwitchInv'
  BY SendKeepsSwitch, OthersKeepSwitch
<1>3. SwitchInv => PowerSwitchMatches
  <2> SUFFICES ASSUME SwitchInv, queue = <<>>, \A c \in Caller : switching[c] = Idle,
                      ~ overtaken
               PROVE  powerLimitBoost <=> \E s \in Switch : limitStatus[s]
    BY DEF PowerSwitchMatches, SwitchSettled
  <2>1. LeavesAt(<<>>, powerLimitBoost, Either)
    BY DEF SwitchInv
  <2>2. \A i \in DOMAIN <<>> : ~ IsPower(<<>>, i)
    OBVIOUS
  <2>3. powerLimitBoost = Either
    BY <2>1, <2>2 DEF LeavesAt
  <2> QED BY <2>3 DEF Either
<1> QED BY <1>1, <1>2, <1>3, TypesAlways, PTL DEF Spec
=============================================================================
