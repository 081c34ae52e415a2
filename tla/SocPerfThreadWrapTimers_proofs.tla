------------------- MODULE SocPerfThreadWrapTimers_proofs -------------------
(* Every timed request that is alive will be ended by its own delayed task,   *)
(* and by no other.                                                           *)
EXTENDS SocPerfThreadWrap_proofs, FiniteSetTheorems

-----------------------------------------------------------------------------
(* Why a timed request has its delayed task: it is posted, or becomes ready,  *)
(* behind the pack that makes the request alive.                              *)

DelayedFor(t, it) == t.kind = "delayed" /\ it \in t.items

\* Requests whose delayed task is still to be posted or not yet ready.
Unready ==
    {it \in Item : \/ \E p \in posting : it \in Range(p)
                   \/ \E t \in timers : DelayedFor(t, it)}

\* The delayed task of it is in U, or in the queue q after the place k.
Awaited(q, U, it, k) ==
    it \in U \/ \E j \in 1 .. Len(q) : j > k /\ DelayedFor(q[j], it)

\* So it is for the timed requests of every pack in the queue.
PacksIn(q, U) ==
    \A k \in 1 .. Len(q) : q[k].kind = "pack" =>
        \A it \in Range(q[k].items) : it.act.duration # 0 => Awaited(q, U, it, k)

\* ... of the pack the worker has in hand ...
HandArmed ==
    phase = "items" => \A it \in Range(items) :
        it.act.duration # 0 => Awaited(queue, Unready, it, 0)

\* ... and for those that are alive, if the worker is not at their task.
Alive == {it \in Item : it.act \in resActionList[it.res][it.act.type]}
Ending == IF phase = "late" THEN late ELSE {}

AliveArmed ==
    \A it \in Alive : it.act.duration # 0 => \/ Awaited(queue, Unready, it, 0)
                                            \/ it \in Ending

ExpiryInv == PacksIn(queue, Unready) /\ HandArmed /\ AliveArmed

\* A list holds requests of its own type.
ListsTyped == \A r \in Res : \A t \in ActionType : \A a \in resActionList[r][t] : a.type = t

-----------------------------------------------------------------------------
(* What happens to the queue *)

\* What is awaited in q is awaited in p.
Keeps(q, U, p, V) ==
    \A it : it.act.duration # 0 /\ Awaited(q, U, it, 0) => Awaited(p, V, it, 0)

\* A task is submitted or becomes ready.
LEMMA AppendKeepsArmed ==
    ASSUME NEW q \in Seq(Task), NEW x \in Task, NEW U, NEW V, PacksIn(q, U),
           \A it \in U : it.act.duration # 0 => it \in V \/ DelayedFor(x, it),
           x.kind = "pack" => \A it \in Range(x.items) : it.act.duration # 0 => it \in V
    PROVE  /\ PacksIn(Append(q, x), V)
           /\ Keeps(q, U, Append(q, x), V)
<1> DEFINE p == Append(q, x)
<1>1. /\ Len(q) \in Nat /\ Len(p) = Len(q) + 1
      /\ \A k \in 1 .. Len(q) : p[k] = q[k]
      /\ p[Len(q) + 1] = x
  BY AppendProperties
<1> HIDE DEF p
<1>2. ASSUME NEW it, it.act.duration # 0, NEW k \in 0 .. Len(q), Awaited(q, U, it, k)
      PROVE  Awaited(p, V, it, k)
  <2>1. CASE it \in V
    BY <2>1 DEF Awaited
  <2>2. CASE DelayedFor(x, it)
    <3>1. Len(q) + 1 \in 1 .. Len(p) /\ Len(q) + 1 > k
      BY <1>1
    <3>2. DelayedFor(p[Len(q) + 1], it)
      BY <1>1, <2>2
    <3> QED BY <3>1, <3>2 DEF Awaited
  <2>3. CASE \E j \in 1 .. Len(q) : j > k /\ DelayedFor(q[j], it)
    <3>1. PICK j \in 1 .. Len(q) : j > k /\ DelayedFor(q[j], it)
      BY <2>3
    <3>2. j \in 1 .. Len(p) /\ DelayedFor(p[j], it)
      BY <1>1, <3>1
    <3> QED BY <3>1, <3>2 DEF Awaited
  <2> QED BY <1>2, <2>1, <2>2, <2>3 DEF Awaited
<1>3. ASSUME NEW k \in 1 .. Len(p), p[k].kind = "pack", NEW it \in Range(p[k].items),
             it.act.duration # 0
      PROVE  Awaited(p, V, it, k)
  <2>1. CASE k \in 1 .. Len(q)
    <3>1. p[k] = q[k] /\ k \in 0 .. Len(q)
      BY <1>1, <2>1
    <3>2. Awaited(q, U, it, k)
      BY <1>3, <2>1, <3>1 DEF PacksIn
    <3> QED BY <1>2, <1>3, <3>1, <3>2
  <2>2. CASE k = Len(q) + 1
    BY <1>1, <1>3, <2>2 DEF Awaited
  <2> QED BY <1>1, <2>1, <2>2
<1>4. 0 \in 0 .. Len(q)
  BY <1>1
<1>5. PacksIn(p, V)
  BY <1>3 DEF PacksIn
<1>6. Keeps(q, U, p, V)
  BY <1>2, <1>4 DEF Keeps
<1> QED BY <1>5, <1>6 DEF p

\* The worker takes a task.
LEMMA TailKeepsArmed ==
    ASSUME NEW q \in Seq(Task), q # <<>>, NEW U, PacksIn(q, U)
    PROVE  /\ PacksIn(Tail(q), U)
           /\ Head(q).kind = "pack" => \A it \in Range(Head(q).items) :
                 it.act.duration # 0 => Awaited(Tail(q), U, it, 0)
           /\ \A it : Awaited(q, U, it, 0)
                 => DelayedFor(Head(q), it) \/ Awaited(Tail(q), U, it, 0)
<1> DEFINE p == Tail(q)
<1>1. /\ Len(q) \in Nat \ {0} /\ Len(p) = Len(q) - 1
      /\ \A k \in 1 .. Len(p) : p[k] = q[k + 1]
      /\ Head(q) = q[1]
  BY HeadTailProperties
<1> HIDE DEF p
<1>2. ASSUME NEW it, NEW k \in 0 .. Len(p), Awaited(q, U, it, k + 1)
      PROVE  Awaited(p, U, it, k)
  <2>1. CASE it \in U
    BY <2>1 DEF Awaited
  <2>2. CASE \E j \in 1 .. Len(q) : j > k + 1 /\ DelayedFor(q[j], it)
    <3>1. PICK j \in 1 .. Len(q) : j > k + 1 /\ DelayedFor(q[j], it)
      BY <2>2
    <3>2. j - 1 \in 1 .. Len(p) /\ j - 1 > k /\ (j - 1) + 1 = j
      BY <1>1, <3>1
    <3>3. p[j - 1] = q[j]
      BY <1>1, <3>2
    <3> QED BY <3>1, <3>2, <3>3 DEF Awaited
  <2> QED BY <1>2, <2>1, <2>2 DEF Awaited
<1>3. PacksIn(p, U)
  <2> SUFFICES ASSUME NEW k \in 1 .. Len(p), p[k].kind = "pack",
                      NEW it \in Range(p[k].items), it.act.duration # 0
               PROVE  Awaited(p, U, it, k)
    BY DEF PacksIn
  <2>1. k + 1 \in 1 .. Len(q) /\ p[k] = q[k + 1] /\ k \in 0 .. Len(p)
    BY <1>1
  <2>2. Awaited(q, U, it, k + 1)
    BY <2>1 DEF PacksIn
  <2> QED BY <1>2, <2>1, <2>2
<1>4. ASSUME Head(q).kind = "pack", NEW it \in Range(Head(q).items), it.act.duration # 0
      PROVE  Awaited(p, U, it, 0)
  <2>1. 1 \in 1 .. Len(q) /\ 0 \in 0 .. Len(p) /\ 0 + 1 = 1
    BY <1>1
  <2>2. Awaited(q, U, it, 1)
    BY <1>1, <1>4, <2>1 DEF PacksIn
  <2> QED BY <1>2, <2>1, <2>2
<1>5. ASSUME NEW it, Awaited(q, U, it, 0), ~ DelayedFor(Head(q), it)
      PROVE  Awaited(p, U, it, 0)
  <2>1. CASE it \in U
    BY <2>1 DEF Awaited
  <2>2. CASE it \notin U
    <3>1. PICK j \in 1 .. Len(q) : DelayedFor(q[j], it)
      BY <1>5, <2>2 DEF Awaited
    <3>2. j # 1
      BY <1>1, <1>5, <3>1
    <3>3. j > 0 + 1 /\ 0 \in 0 .. Len(p)
      BY <1>1, <3>2
    <3>4. Awaited(q, U, it, 0 + 1)
      BY <3>1, <3>3 DEF Awaited
    <3> QED BY <1>2, <3>3, <3>4
  <2> QED BY <2>1, <2>2
<1> QED BY <1>3, <1>4, <1>5 DEF p

\* What is left when one place of a queue is taken out.
LEMMA RemovedPlaces ==
    ASSUME NEW q \in Seq(Task), NEW n \in 1 .. Len(q)
    PROVE  /\ Len(RemoveAt(q, n)) = Len(q) - 1
           /\ \A k \in 1 .. Len(q) - 1 :
                 RemoveAt(q, n)[k] = IF k < n THEN q[k] ELSE q[k + 1]
<1>1. Len(q) \in Nat /\ \A i \in 1 .. Len(q) : q[i] \in Task
  OBVIOUS
<1> DEFINE s == SubSeq(q, 1, n - 1)
           t == SubSeq(q, n + 1, Len(q))
<1>2. s \in Seq(Task) /\ Len(s) = n - 1 /\ \A i \in 1 .. n - 1 : s[i] = q[1 + i - 1]
  <2>1. \A i \in 1 .. n - 1 : q[i] \in Task
    BY <1>1
  <2> QED BY <1>1, <2>1, SubSeqProperties
<1>3. /\ t \in Seq(Task) /\ Len(t) = Len(q) - n
      /\ \A i \in 1 .. Len(q) - n : t[i] = q[n + 1 + i - 1]
  <2>1. \A i \in n + 1 .. Len(q) : q[i] \in Task
    BY <1>1
  <2> QED BY <1>1, <2>1, SubSeqProperties
<1> HIDE DEF s, t
<1>4. /\ Len(s \o t) = Len(s) + Len(t)
      /\ \A i \in 1 .. Len(s) + Len(t) :
            (s \o t)[i] = IF i <= Len(s) THEN s[i] ELSE t[i - Len(s)]
  BY <1>2, <1>3, ConcatProperties
<1>5. RemoveAt(q, n) = s \o t
  BY DEF RemoveAt, s, t
<1>6. ASSUME NEW k \in 1 .. Len(q) - 1
      PROVE  (s \o t)[k] = IF k < n THEN q[k] ELSE q[k + 1]
  <2>1. CASE k < n
    <3>1. k \in 1 .. n - 1 /\ k <= Len(s) /\ 1 + k - 1 = k
      BY <1>2, <2>1
    <3> QED BY <1>1, <1>2, <1>3, <1>4, <2>1, <3>1
  <2>2. CASE ~ (k < n)
    <3> DEFINE i == k - Len(s)
    <3>1. i \in 1 .. Len(q) - n /\ ~ (k <= Len(s)) /\ n + 1 + i - 1 = k + 1
      BY <1>1, <1>2, <2>2
    <3>2. (s \o t)[k] = t[i]
      BY <1>1, <1>2, <1>3, <1>4, <3>1
    <3>3. t[i] = q[n + 1 + i - 1]
      BY <1>3, <3>1
    <3> QED BY <2>2, <3>1, <3>2, <3>3
  <2> QED BY <2>1, <2>2
<1>7. Len(s \o t) = Len(q) - 1
  BY <1>1, <1>2, <1>3, <1>4
<1> QED BY <1>5, <1>6, <1>7

\* A task that is not a delayed one is cancelled.
LEMMA RemoveKeepsArmed ==
    ASSUME NEW q \in Seq(Task), NEW n \in 1 .. Len(q), q[n].kind = "weakTimer",
           NEW U, PacksIn(q, U)
    PROVE  /\ PacksIn(RemoveAt(q, n), U)
           /\ Keeps(q, U, RemoveAt(q, n), U)
<1> DEFINE p == RemoveAt(q, n)
<1>1. /\ Len(q) \in Nat /\ Len(p) = Len(q) - 1
      /\ \A k \in 1 .. Len(p) : p[k] = IF k < n THEN q[k] ELSE q[k + 1]
  BY RemovedPlaces
<1> HIDE DEF p
<1> DEFINE place(j) == IF j < n THEN j ELSE j - 1
<1>2. \A j \in 1 .. Len(q) : j # n => place(j) \in 1 .. Len(p) /\ p[place(j)] = q[j]
  <2> TAKE j \in 1 .. Len(q)
  <2>1. CASE j < n
    BY <1>1, <2>1
  <2>2. CASE j > n
    <3>1. j - 1 \in 1 .. Len(p) /\ ~ (j - 1 < n) /\ (j - 1) + 1 = j
      BY <1>1, <2>2
    <3> QED BY <1>1, <2>2, <3>1
  <2> QED BY <2>1, <2>2
<1>3. ASSUME NEW it, NEW k \in 0 .. Len(q), NEW l \in 0 .. Len(q),
             l = IF k >= n THEN k - 1 ELSE k, Awaited(q, U, it, k)
      PROVE  Awaited(p, U, it, l)
  <2>1. CASE it \in U
    BY <2>1 DEF Awaited
  <2>2. CASE it \notin U
    <3>1. PICK j \in 1 .. Len(q) : j > k /\ DelayedFor(q[j], it)
      BY <1>3, <2>2 DEF Awaited
    <3>2. j # n
      BY <3>1 DEF DelayedFor
    <3>3. place(j) \in 1 .. Len(p) /\ DelayedFor(p[place(j)], it)
      BY <1>2, <3>1, <3>2
    <3>4. place(j) > l
      BY <1>1, <1>3, <3>1, <3>2
    <3> HIDE DEF place
    <3> QED BY <3>3, <3>4 DEF Awaited
  <2> QED BY <2>1, <2>2
<1>4. PacksIn(p, U)
  <2> SUFFICES ASSUME NEW k \in 1 .. Len(p), p[k].kind = "pack",
                      NEW it \in Range(p[k].items), it.act.duration # 0
               PROVE  Awaited(p, U, it, k)
    BY DEF PacksIn
  <2>1. PICK j \in 1 .. Len(q) : j # n /\ p[k] = q[j] /\ k = IF j >= n THEN j - 1 ELSE j
    <3>1. CASE k < n
      BY <1>1, <3>1
    <3>2. CASE k >= n
      <4>1. k + 1 \in 1 .. Len(q) /\ k + 1 >= n /\ k + 1 # n /\ (k + 1) - 1 = k
        BY <1>1, <3>2
      <4> QED BY <1>1, <3>2, <4>1
    <3> QED BY <1>1, <3>1, <3>2
  <2>2. Awaited(q, U, it, j)
    BY <2>1 DEF PacksIn
  <2>3. k \in 0 .. Len(q) /\ j \in 0 .. Len(q)
    BY <1>1, <2>1
  <2> QED BY <1>3, <2>1, <2>2, <2>3
<1>5. 0 \in 0 .. Len(q) /\ ~ (0 >= n)
  BY <1>1
<1>6. Keeps(q, U, p, U)
  BY <1>3, <1>5 DEF Keeps
<1> QED BY <1>4, <1>6 DEF p

-----------------------------------------------------------------------------
(* What a step does to the requests that are alive *)

\* A step that makes no request alive, while what was awaited still is.
LEMMA StillAwaited ==
    ASSUME ExpiryInv, Alive' \subseteq Alive, PacksIn(queue', Unready'),
           Keeps(queue, Unready, queue', Unready'),
           UNCHANGED <<phase, items, late>>
    PROVE  ExpiryInv'
<1>1. HandArmed'
  <2> SUFFICES ASSUME phase' = "items", NEW it \in Range(items'), it.act.duration # 0
               PROVE  Awaited(queue', Unready', it, 0)
    BY DEF HandArmed
  <2>1. Awaited(queue, Unready, it, 0)
    BY DEF ExpiryInv, HandArmed
  <2> QED BY <2>1 DEF Keeps
<1>2. AliveArmed'
  <2> SUFFICES ASSUME NEW it \in Alive', it.act.duration # 0
               PROVE  Awaited(queue', Unready', it, 0) \/ it \in Ending'
    BY DEF AliveArmed
  <2>1. Awaited(queue, Unready, it, 0) \/ it \in Ending
    BY DEF ExpiryInv, AliveArmed
  <2>2. Ending' = Ending
    BY DEF Ending
  <2> QED BY <2>1, <2>2 DEF Keeps
<1> QED BY <1>1, <1>2 DEF ExpiryInv

\* What is submitted, or becomes ready, goes to the end of the queue.
LEMMA AppendExpiry ==
    ASSUME TypeOK, ExpiryInv, NEW x \in Task, queue' = Append(queue, x),
           UNCHANGED <<resActionList, phase, items, late>>,
           \A it \in Unready : it.act.duration # 0 => it \in Unready' \/ DelayedFor(x, it),
           x.kind = "pack" => \A it \in Range(x.items) :
                                 it.act.duration # 0 => it \in Unready'
    PROVE  ExpiryInv'
<1>1. queue \in Seq(Task) /\ PacksIn(queue, Unready)
  BY DEF TypeOK, ExpiryInv
<1> DEFINE U == Unready
           V == Unready'
<1>2. /\ \A it \in U : it.act.duration # 0 => it \in V \/ DelayedFor(x, it)
      /\ x.kind = "pack" => \A it \in Range(x.items) : it.act.duration # 0 => it \in V
  OBVIOUS
<1> HIDE DEF U, V
<1>3. PacksIn(Append(queue, x), V) /\ Keeps(queue, U, Append(queue, x), V)
  BY <1>1, <1>2, AppendKeepsArmed DEF U
<1>4. Alive' \subseteq Alive
  BY DEF Alive
<1> QED BY <1>3, <1>4, StillAwaited DEF U, V

\* Requests without a duration need no task.
NoneTimed(p) == \A it \in Range(p) : it.act.duration = 0

\* The worker submits what a weak interaction calls for.
LEMMA SubmitKeepsArmed ==
    ASSUME NEW q \in Seq(Task), NEW U, PacksIn(q, U), NEW p \in Seq(Item), NoneTimed(p)
    PROVE  PacksIn(Submit(q, p), U) /\ Keeps(q, U, Submit(q, p), U)
<1>1. PackTask(p) \in Task /\ PackTask(p).items = p
  BY TaskKinds DEF PackTask
<1>2. \A it \in Range(PackTask(p).items) : it.act.duration # 0 => it \in U
  BY <1>1 DEF NoneTimed
<1>3. PacksIn(Append(q, PackTask(p)), U) /\ Keeps(q, U, Append(q, PackTask(p)), U)
  BY <1>1, <1>2, AppendKeepsArmed
<1> QED BY <1>3 DEF Submit, Keeps

\* What a weak interaction and a limit call for has no duration.
LEMMA WeakNotTimed ==
    ASSUME NEW p \in Seq(Template), NEW onOff PROVE NoneTimed(MakeWeak(p, onOff))
BY DEF NoneTimed, MakeWeak, Range

\* A queue in which nothing moves, while the delayed tasks to come are the same.
LEMMA SameQueueArmed ==
    ASSUME NEW q, NEW U, NEW V, PacksIn(q, U), \A it \in U : it.act.duration # 0 => it \in V
    PROVE  PacksIn(q, V) /\ Keeps(q, U, q, V)
<1>1. ASSUME NEW it, it.act.duration # 0, NEW k, Awaited(q, U, it, k)
      PROVE  Awaited(q, V, it, k)
  BY <1>1 DEF Awaited
<1> QED BY <1>1 DEF PacksIn, Keeps

\* A step that touches neither the queue and its delayed tasks nor the requests.
LEMMA UntouchedExpiry ==
    ASSUME ExpiryInv,
           UNCHANGED <<queue, timers, posting, resActionList, phase, items, late>>
    PROVE  ExpiryInv'
<1>1. Unready' = Unready /\ Alive' = Alive
  BY DEF Unready, Alive
<1>2. PacksIn(queue', Unready')
  BY <1>1 DEF ExpiryInv
<1>3. Keeps(queue, Unready, queue', Unready')
  BY <1>1 DEF Keeps
<1> QED BY <1>1, <1>2, <1>3, StillAwaited

\* Every timed request of a pack has a delayed task.
LEMMA TimedHasTask ==
    ASSUME NEW p, NEW it \in Timed(p)
    PROVE  \E x \in DelayTasks(p) : DelayedFor(x, it)
<1> DEFINE S == {y \in Timed(p) : y.act.duration = it.act.duration}
           x == DelayedTask(S)
<1>1. it \in S
  OBVIOUS
<1>2. it.act.duration \in {y.act.duration : y \in Timed(p)}
  OBVIOUS
<1>3. x \in DelayTasks(p)
  BY <1>2 DEF DelayTasks
<1> HIDE DEF S
<1>4. DelayedFor(x, it)
  BY <1>1 DEF DelayedFor, DelayedTask
<1> QED BY <1>3, <1>4

\* A call.
LEMMA ExpiryCaller == TypeOK /\ ExpiryInv /\ Caller => ExpiryInv'
<1> SUFFICES ASSUME TypeOK, ExpiryInv, Caller PROVE ExpiryInv'
  OBVIOUS
<1>1. ASSUME NEW t \in Task, t.kind # "pack", SubmitTask(t) PROVE ExpiryInv'
  <2>1. /\ queue' = Append(queue, t)
        /\ UNCHANGED <<resActionList, phase, items, late, posting, timers>>
    BY <1>1 DEF SubmitTask, work, lists
  <2>2. Unready' = Unready
    BY <2>1 DEF Unready
  <2> QED BY <1>1, <2>1, <2>2, AppendExpiry
<1>2. CASE DoFreqActionPack
  <2>1. PICK p \in Packs, now \in Now :
          LET pack == MakePack(calls + 1, now, p)
          IN  /\ queue' = Append(queue, PackTask(pack))
              /\ posting' = IF DelayTasks(pack) = {} THEN posting
                                                    ELSE posting \cup {pack}
    BY <1>2 DEF DoFreqActionPack
  <2> DEFINE pack == MakePack(calls + 1, now, p)
  <2>2. pack \in Seq(Item)
    BY MakePackType DEF TypeOK
  <2> HIDE DEF pack
  <2>3. UNCHANGED <<resActionList, phase, items, late, timers>>
    BY <1>2 DEF DoFreqActionPack, work, lists
  <2>4. queue' = Append(queue, PackTask(pack)) /\ PackTask(pack).items = pack
    BY <2>1 DEF pack, PackTask
  <2>5. posting \subseteq posting' /\ (DelayTasks(pack) # {} => pack \in posting')
    BY <2>1 DEF pack
  <2>6. Range(pack) \subseteq Item
    BY <2>2 DEF Range
  <2>7. Unready \subseteq Unready'
    BY <2>3, <2>5 DEF Unready
  <2>8. ASSUME NEW it \in Range(pack), it.act.duration # 0 PROVE it \in Unready'
    <3>1. it \in Timed(pack)
      BY <2>8 DEF Timed
    <3>2. DelayTasks(pack) # {}
      BY <3>1, TimedHasTask
    <3> QED BY <2>5, <2>6, <2>8, <3>2 DEF Unready
  <2>9. PackTask(pack) \in Task
    BY <2>2, TaskKinds
  <2> QED BY <2>3, <2>4, <2>7, <2>8, <2>9, AppendExpiry
<1>3. CASE UpdateLimitStatus
  <2>1. PICK l \in Limits : SubmitTask([kind |-> l.kind, item |-> MakeLimit(l.limit)])
    BY <1>3 DEF UpdateLimitStatus
  <2>2. l.kind # "pack"
    BY WrapAssumption DEF FreqLimit, LevelLimit
  <2> QED BY <1>1, <2>1, <2>2, TaskKinds
<1>4. ASSUME NEW kind \in FlagKind, SetFlag(kind) PROVE ExpiryInv'
  <2>1. PICK on \in BOOLEAN : SubmitTask([kind |-> kind, on |-> on])
    BY <1>4 DEF SetFlag
  <2> QED BY <1>1, <2>1, TaskKinds DEF FlagKind
<1>5. CASE \/ UpdatePowerLimitBoostFreq \/ UpdateThermalLimitBoostFreq
           \/ SetWeakInteractionStatus \/ SetPerformanceModeStatus
  BY <1>4, <1>5
     DEF UpdatePowerLimitBoostFreq, UpdateThermalLimitBoostFreq,
         SetWeakInteractionStatus, SetPerformanceModeStatus, FlagKind
<1>6. CASE ClearAllAliveRequest
  BY <1>1, <1>6, TaskKinds DEF ClearAllAliveRequest
<1>7. CASE SetThermalLevel
  BY <1>7, UntouchedExpiry DEF SetThermalLevel, work, lists
<1> QED BY <1>2, <1>3, <1>5, <1>6, <1>7 DEF Caller

\* A delayed task is posted, or its delay ends.
LEMMA ExpiryTimers ==
    ASSUME TypeOK, ExpiryInv, PostSome \/ ElapseSome PROVE ExpiryInv'
<1>1. CASE PostSome
  <2>1. PICK p \in posting : PostDelayTask(p)
    BY <1>1 DEF PostSome
  <2>2. /\ posting' = posting \ {p} /\ timers' = timers \cup DelayTasks(p)
        /\ UNCHANGED <<queue, resActionList, phase, items, late>>
    BY <2>1 DEF PostDelayTask, work, lists
  <2>3. ASSUME NEW it \in Unready, it.act.duration # 0 PROVE it \in Unready'
    <3>1. CASE it \in Range(p)
      <4>1. it \in Timed(p)
        BY <2>3, <3>1 DEF Timed
      <4>2. PICK x \in DelayTasks(p) : DelayedFor(x, it)
        BY <4>1, TimedHasTask
      <4> QED BY <2>2, <2>3, <4>2 DEF Unready
    <3>2. CASE it \notin Range(p)
      BY <2>2, <2>3, <3>2 DEF Unready
    <3> QED BY <3>1, <3>2
  <2>4. PacksIn(queue', Unready') /\ Keeps(queue, Unready, queue', Unready')
    <3> DEFINE U == Unready
               V == Unready'
    <3>1. PacksIn(queue, U) /\ \A it \in U : it.act.duration # 0 => it \in V
      BY <2>3 DEF ExpiryInv
    <3> HIDE DEF U, V
    <3>2. PacksIn(queue, V) /\ Keeps(queue, U, queue, V)
      BY <3>1, SameQueueArmed
    <3> QED BY <2>2, <3>2 DEF U, V
  <2>5. Alive' = Alive
    BY <2>2 DEF Alive
  <2> QED BY <2>2, <2>4, <2>5, StillAwaited
<1>2. CASE ElapseSome
  <2>1. PICK t \in timers : Elapse(t)
    BY <1>2 DEF ElapseSome
  <2>2. /\ timers' = timers \ {t} /\ queue' = Append(queue, t)
        /\ UNCHANGED <<posting, resActionList, phase, items, late>>
    BY <2>1 DEF Elapse, work, lists
  <2>3. t \in Task /\ t.kind # "pack"
    BY <2>1, TaskKinds DEF TypeOK, DelayedTaskSet, WeakTimerSet
  <2>4. \A it \in Unready : it \in Unready' \/ DelayedFor(t, it)
    BY <2>2 DEF Unready
  <2> QED BY <2>2, <2>3, <2>4, AppendExpiry
<1> QED BY <1>1, <1>2

\* The worker takes a task.
LEMMA ExpiryStart ==
    ASSUME TypeOK, ExpiryInv,
           \/ StartPack \/ DoFreqAction \/ DoFreqActionLevel \/ StartDelayed
           \/ StartPower \/ StartThermal \/ StartClear
           \/ StartWeakMode \/ StartPerfMode \/ StartWeakTimer
    PROVE  ExpiryInv'
<1> DEFINE t == Head(queue)
           q == Tail(queue)
<1>1. PICK kind \in {"pack", "freq", "level", "delayed", "power", "thermal", "clear",
                     "weakmode", "perfmode", "weakTimer"} : Take(kind)
  BY DEF StartPack, DoFreqAction, DoFreqActionLevel, StartDelayed, StartPower,
         StartThermal, StartClear, StartWeakMode, StartPerfMode, StartWeakTimer
<1>2. queue \in Seq(Task) /\ queue # <<>> /\ PacksIn(queue, Unready)
  BY <1>1 DEF TypeOK, Take, ExpiryInv
<1>3. t \in Task /\ q \in Seq(Task)
  BY <1>2, QueueTypes
<1>4. phase = "idle" /\ UNCHANGED <<timers, posting, resActionList>>
  BY <1>1 DEF Take, lists
<1>5. Alive' = Alive /\ Unready' = Unready
  BY <1>4 DEF Alive, Unready
<1>6. /\ PacksIn(q, Unready)
      /\ t.kind = "pack" => \A it \in Range(t.items) :
            it.act.duration # 0 => Awaited(q, Unready, it, 0)
      /\ \A it : Awaited(queue, Unready, it, 0)
                    => DelayedFor(t, it) \/ Awaited(q, Unready, it, 0)
  <2> DEFINE U == Unready
  <2>1. PacksIn(queue, U)
    BY <1>2
  <2> HIDE DEF U
  <2>2. /\ PacksIn(q, U)
        /\ t.kind = "pack" => \A it \in Range(t.items) :
              it.act.duration # 0 => Awaited(q, U, it, 0)
        /\ \A it : Awaited(queue, U, it, 0) => DelayedFor(t, it) \/ Awaited(q, U, it, 0)
    BY <1>2, <2>1, TailKeepsArmed
  <2> QED BY <2>2 DEF U
<1>7. ASSUME NEW it \in Alive, it.act.duration # 0
      PROVE  DelayedFor(t, it) \/ Awaited(q, Unready, it, 0)
  <2>1. Awaited(queue, Unready, it, 0)
    BY <1>4, <1>7 DEF ExpiryInv, AliveArmed, Ending
  <2> QED BY <1>6, <2>1
<1> HIDE DEF q
\* A task that is not a delayed one.
<1>8. ASSUME queue' = q, t.kind # "delayed",
             phase' = "items" => \A it \in Range(items') :
                it.act.duration # 0 => Awaited(q, Unready, it, 0)
      PROVE  ExpiryInv'
  <2>1. PacksIn(queue', Unready') /\ HandArmed'
    BY <1>5, <1>6, <1>8 DEF HandArmed
  <2>2. AliveArmed'
    BY <1>5, <1>7, <1>8 DEF AliveArmed, DelayedFor
  <2> QED BY <2>1, <2>2 DEF ExpiryInv
<1>9. CASE StartPack
  BY <1>6, <1>8, <1>9 DEF StartPack, Take, q
<1>10. CASE DoFreqAction \/ DoFreqActionLevel
  <2>1. queue' = q /\ t.kind # "delayed"
    BY <1>10 DEF DoFreqAction, DoFreqActionLevel, Take, q
  <2>2. NoneTimed(items')
    <3>1. CASE DoFreqAction
      <4>1. t.item.act.duration = 0 /\ items' = <<t.item>>
        BY <1>3, <3>1, TaskFields DEF DoFreqAction, Take, LimitItem
      <4> QED BY <4>1 DEF NoneTimed, Range
    <3>2. CASE DoFreqActionLevel
      <4> DEFINE v == ValueByLevel(t.item.res, t.item.act.value)
                 x == [t.item EXCEPT !.act.value = v]
      <4>1. t.item \in LimitItem(Level)
        BY <1>3, <3>2, TaskFields DEF DoFreqActionLevel, Take
      <4>2. x.act.duration = 0
        <5> HIDE DEF v
        <5> QED BY <4>1 DEF LimitItem
      <4>3. items' = <<x>> \/ items' = <<>>
        BY <3>2 DEF DoFreqActionLevel, LevelItems
      <4> HIDE DEF v, x
      <4> QED BY <4>2, <4>3 DEF NoneTimed, Range
    <3> QED BY <1>10, <3>1, <3>2
  <2> QED BY <1>8, <2>1, <2>2 DEF NoneTimed
<1>11. CASE StartDelayed
  <2>1. /\ queue' = q /\ t.kind = "delayed"
        /\ phase' = "late" /\ late' = t.items
    BY <1>11 DEF StartDelayed, Take, q
  <2>2. PacksIn(queue', Unready') /\ HandArmed'
    BY <1>5, <1>6, <2>1 DEF HandArmed
  <2>3. AliveArmed'
    BY <1>5, <1>7, <2>1 DEF AliveArmed, DelayedFor, Ending
  <2> QED BY <2>2, <2>3 DEF ExpiryInv
<1>12. CASE StartPower \/ StartThermal \/ StartClear \/ StartWeakMode
  BY <1>8, <1>12 DEF StartPower, StartThermal, StartClear, StartWeakMode, Take, q
<1>13. CASE StartPerfMode
  BY <1>4, <1>8, <1>13 DEF StartPerfMode, Take, work, q
<1>14. CASE StartWeakTimer
  <2> DEFINE p == MakeWeak(WeakTemplates[t.inter][performanceModeStatus], EVENT_ON)
  <2>1. /\ t.kind = "weakTimer" /\ t.inter \in InterId
        /\ queue' = Submit(q, p) /\ phase' = "idle"
    BY <1>3, <1>4, <1>14, TaskFields DEF StartWeakTimer, WeakActions, Take, work, q
  <2>2. p \in Seq(Item) /\ NoneTimed(p)
    <3>1. performanceModeStatus \in BOOLEAN
      BY DEF TypeOK
    <3>2. WeakTemplates[t.inter][performanceModeStatus] \in Seq(Template)
      BY <2>1, <3>1, WrapAssumption
    <3> QED BY <2>1, <3>1, <3>2, WeakItemsType, WeakNotTimed
  <2> HIDE DEF p
  <2>3. PacksIn(Submit(q, p), Unready) /\ Keeps(q, Unready, Submit(q, p), Unready)
    <3> DEFINE U == Unready
    <3>1. PacksIn(q, U)
      BY <1>6
    <3> HIDE DEF U
    <3>2. PacksIn(Submit(q, p), U) /\ Keeps(q, U, Submit(q, p), U)
      BY <1>3, <2>2, <3>1, SubmitKeepsArmed DEF q
    <3> QED BY <3>2 DEF U
  <2>4. HandArmed' /\ PacksIn(queue', Unready')
    BY <1>5, <2>1, <2>3 DEF HandArmed
  <2>5. AliveArmed'
    BY <1>5, <1>7, <2>1, <2>3 DEF AliveArmed, DelayedFor, Keeps
  <2> QED BY <2>4, <2>5 DEF ExpiryInv
<1> QED BY <1>9, <1>10, <1>11, <1>12, <1>13, <1>14

\* What a request that is applied makes alive, and what one that expires ends.
LEMMA ByInstantMsgAlive ==
    ASSUME TypeOK, NEW it \in Item, NEW lvl2, ByInstantMsg(it.res, it.act, lvl2)
    PROVE  Alive' \subseteq Alive \cup {it}
<1> DEFINE r == it.res
           a == it.act
           L == resActionList[r][a.type]
<1>1. r \in Res /\ a \in ResAction /\ a.type \in ActionType
  BY DEF Item, ResAction
<1>2. PICK S : /\ S \subseteq L \cup {a}
               /\ resActionList' = [resActionList EXCEPT ![r][a.type] = S]
  <2>1. CASE resActionList' = resActionList
    <3>1. resActionList' = [resActionList EXCEPT ![r][a.type] = L]
      BY <1>1, <2>1 DEF TypeOK
    <3> QED BY <3>1
  <2>2. CASE \E S : S \subseteq L \cup {a} /\ UpdateCandidatesValue(r, a.type, S, lvl2)
    BY <2>2 DEF UpdateCandidatesValue
  <2>3. CASE HandleOff(r, a, lvl2)
    BY <2>1, <2>2, <2>3 DEF HandleOff, lists
  <2>4. CASE HandleResAction(r, a, lvl2)
    BY <2>2, <2>4 DEF HandleResAction
  <2> QED BY <2>3, <2>4 DEF ByInstantMsg
<1>3. ASSUME NEW x \in Alive', x \notin Alive PROVE x = it
  <2>1. x \in Item /\ x.act \in resActionList'[x.res][x.act.type]
    BY <1>3 DEF Alive
  <2>2. x.act \notin resActionList[x.res][x.act.type]
    BY <1>3, <2>1 DEF Alive
  <2>3. x.res = r /\ x.act = a
    BY <1>1, <1>2, <2>1, <2>2 DEF TypeOK, Item, ResAction
  <2> QED BY <2>1, <2>3 DEF Item
<1> QED BY <1>3

LEMMA ByDelayedMsgAlive ==
    ASSUME TypeOK, NEW it \in Item, NEW lvl2, ByDelayedMsg(it.res, it.act, lvl2)
    PROVE  Alive' = Alive \ {it}
<1> DEFINE r == it.res
           a == it.act
           L == resActionList[r][a.type]
<1>1. r \in Res /\ a \in ResAction /\ a.type \in ActionType
  BY DEF Item, ResAction
<1>2. resActionList' = [resActionList EXCEPT ![r][a.type] = L \ {a}]
  <2>1. CASE a \notin L /\ resActionList' = resActionList
    <3>1. resActionList' = [resActionList EXCEPT ![r][a.type] = L]
      BY <1>1, <2>1 DEF TypeOK
    <3>2. L \ {a} = L
      BY <2>1
    <3> QED BY <3>1, <3>2
  <2>2. CASE UpdateCandidatesValue(r, a.type, L \ {a}, lvl2)
    BY <2>2 DEF UpdateCandidatesValue
  <2> QED BY <2>1, <2>2 DEF ByDelayedMsg, Expired, lists
<1>3. ASSUME NEW x \in Item
      PROVE  x.act \in resActionList'[x.res][x.act.type]
                <=> x.act \in resActionList[x.res][x.act.type] /\ x # it
  <2>1. x = it <=> x.res = r /\ x.act = a
    BY DEF Item
  <2>2. x.res \in Res /\ x.act.type \in ActionType
    BY DEF Item, ResAction
  <2>3. CASE x.res = r /\ x.act.type = a.type
    BY <1>1, <1>2, <2>1, <2>2, <2>3 DEF TypeOK
  <2>4. CASE ~ (x.res = r /\ x.act.type = a.type)
    BY <1>1, <1>2, <2>1, <2>2, <2>4 DEF TypeOK
  <2> QED BY <2>3, <2>4
<1> QED BY <1>3 DEF Alive

\* The worker applies or ends a request, arbitrates a resource or clears a list.
LEMMA ExpiryStep ==
    ASSUME TypeOK, ExpiryInv, StepItem \/ StepLate \/ StepArbitrate \/ StepClear
    PROVE  ExpiryInv'
<1>1. /\ UNCHANGED <<queue, timers, posting, phase>>
      /\ Unready' = Unready
  BY DEF StepItem, StepLate, StepArbitrate, StepClear, Step, Unready
<1>2. PacksIn(queue', Unready') /\ Keeps(queue, Unready, queue', Unready')
  BY <1>1 DEF ExpiryInv, Keeps
<1>3. CASE StepItem
  <2>1. PICK lvl2 : ByInstantMsg(Head(items).res, Head(items).act, lvl2)
    BY <1>3 DEF StepItem
  <2>2. /\ phase = "items" /\ items \in Seq(Item) /\ items # <<>>
        /\ items' = Tail(items)
    BY <1>3 DEF StepItem, Step, TypeOK
  <2>3. Head(items) \in Item /\ Head(items) \in Range(items)
        /\ Range(Tail(items)) \subseteq Range(items)
    BY <2>2, HeadTailProperties DEF Range
  <2>4. Alive' \subseteq Alive \cup {Head(items)}
    BY <2>1, <2>3, ByInstantMsgAlive
  <2>5. HandArmed'
    BY <1>1, <2>2, <2>3 DEF ExpiryInv, HandArmed
  <2>6. AliveArmed'
    BY <1>1, <2>2, <2>3, <2>4 DEF ExpiryInv, HandArmed, AliveArmed, Ending
  <2> QED BY <1>2, <2>5, <2>6 DEF ExpiryInv
<1>4. CASE StepLate
  <2>1. PICK it \in late : \E lvl2 :
          late' = late \ {it} /\ ByDelayedMsg(it.res, it.act, lvl2)
    BY <1>4 DEF StepLate
  <2>2. phase = "late" /\ it \in Item
    BY <1>4, <2>1 DEF StepLate, Step, TypeOK
  <2>3. Alive' = Alive \ {it}
    BY <2>1, <2>2, ByDelayedMsgAlive
  <2>4. HandArmed' /\ AliveArmed'
    BY <1>1, <2>1, <2>2, <2>3 DEF ExpiryInv, HandArmed, AliveArmed, Ending
  <2> QED BY <1>2, <2>4 DEF ExpiryInv
<1>5. CASE StepArbitrate
  <2>1. UNCHANGED <<items, late, resActionList>>
    BY <1>5 DEF StepArbitrate, lists
  <2> QED BY <1>1, <2>1, UntouchedExpiry
<1>6. CASE StepClear
  <2>1. UNCHANGED <<items, late>>
    BY <1>6 DEF StepClear
  <2>2. PICK r : resActionList' = [resActionList EXCEPT ![r]["perf"] = {}]
    BY <1>6 DEF StepClear, UpdateCandidatesValue
  <2>3. Alive' \subseteq Alive
    <3> SUFFICES ASSUME NEW x \in Alive' PROVE x \in Alive
      OBVIOUS
    <3>1. x \in Item /\ x.act \in resActionList'[x.res][x.act.type]
      BY DEF Alive
    <3>2. x.res \in Res /\ x.act.type \in ActionType
      BY <3>1 DEF Item, ResAction
    <3>3. x.act \in resActionList[x.res][x.act.type]
      BY <2>2, <3>1, <3>2 DEF TypeOK
    <3> QED BY <3>1, <3>3 DEF Alive
  <2> QED BY <1>1, <1>2, <2>1, <2>3, StillAwaited
<1> QED BY <1>3, <1>4, <1>5, <1>6

\* The worker reports, looks at an interaction, or is done with its task.
LEMMA ExpiryFinish ==
    ASSUME TypeOK, ExpiryInv, SendResStatus \/ WeakInteraction \/ FinishTask
    PROVE  ExpiryInv'
<1>1. CASE SendResStatus \/ FinishTask
  <2>1. /\ UNCHANGED <<queue, timers, posting, resActionList, items, late>>
        /\ phase' # "items" /\ phase' # "late" /\ (phase = "late" => late = {})
    BY <1>1 DEF SendResStatus, FinishTask, sched, lists
  <2>2. Unready' = Unready /\ Alive' = Alive
    BY <2>1 DEF Unready, Alive
  <2>3. PacksIn(queue', Unready') /\ HandArmed'
    BY <2>1, <2>2 DEF ExpiryInv, HandArmed
  <2>4. AliveArmed'
    BY <2>1, <2>2 DEF ExpiryInv, AliveArmed, Ending
  <2> QED BY <2>3, <2>4 DEF ExpiryInv
<1>2. ASSUME NEW i \in InterId, Inter(i), PacksIn(queue', Unready),
             Keeps(queue, Unready, queue', Unready), Unready' = Unready
      PROVE  ExpiryInv'
  <2>1. UNCHANGED <<resActionList, phase, items, late>>
    BY <1>2 DEF Inter, lists
  <2>2. Alive' = Alive
    BY <2>1 DEF Alive
  <2>3. PacksIn(queue', Unready') /\ Keeps(queue, Unready, queue', Unready')
    BY <1>2
  <2> QED BY <2>1, <2>2, <2>3, StillAwaited
<1>3. queue \in Seq(Task) /\ PacksIn(queue, Unready)
      /\ Keeps(queue, Unready, queue, Unready)
  BY DEF TypeOK, ExpiryInv, Keeps
<1> DEFINE U == Unready
<1>4. PacksIn(queue, U)
  BY <1>3
<1>5. ASSUME NEW i \in InterId, BoostEnds(i) PROVE ExpiryInv'
  <2>1. queue' = queue /\ timers' = timers \cup {WeakTimer(i)} /\ posting' = posting
    BY <1>5 DEF BoostEnds, Inter
  <2>2. Unready' = Unready
    BY <2>1 DEF Unready, WeakTimer, DelayedFor
  <2> QED BY <1>2, <1>3, <1>5, <2>1, <2>2 DEF BoostEnds
<1>6. ASSUME NEW i \in InterId, LiftWeak(i) PROVE ExpiryInv'
  <2> DEFINE p == MakeWeak(WeakTemplates[i][performanceModeStatus], EVENT_OFF)
  <2>1. queue' = Submit(queue, p) /\ UNCHANGED <<timers, posting>>
    BY <1>6 DEF LiftWeak, WeakActions, Inter
  <2>2. p \in Seq(Item) /\ NoneTimed(p)
    <3>1. performanceModeStatus \in BOOLEAN
      BY DEF TypeOK
    <3>2. WeakTemplates[i][performanceModeStatus] \in Seq(Template)
      BY <3>1, WrapAssumption
    <3> QED BY <3>1, <3>2, WeakItemsType, WeakNotTimed
  <2> HIDE DEF p, U
  <2>3. PacksIn(Submit(queue, p), U) /\ Keeps(queue, U, Submit(queue, p), U)
    BY <1>3, <1>4, <2>2, SubmitKeepsArmed
  <2>4. Unready' = Unready
    BY <2>1 DEF Unready
  <2> QED BY <1>2, <1>6, <2>1, <2>3, <2>4 DEF LiftWeak, U
<1>7. ASSUME NEW i \in InterId, CancelWeakTimer(i) PROVE ExpiryInv'
  <2>1. /\ timers' = timers \ {WeakTimer(i)} /\ posting' = posting
        /\ \/ queue' = queue
           \/ \E k \in 1 .. Len(queue) : /\ queue[k] = WeakTimer(i)
                                        /\ queue' = RemoveAt(queue, k)
    BY <1>7 DEF CancelWeakTimer, CancelTask, Inter
  <2>2. Unready' = Unready
    BY <2>1 DEF Unready, WeakTimer, DelayedFor
  <2>3. CASE queue' = queue
    BY <1>2, <1>3, <1>7, <2>2, <2>3 DEF CancelWeakTimer
  <2>4. CASE queue' # queue
    <3>1. PICK k \in 1 .. Len(queue) : /\ queue[k] = WeakTimer(i)
                                      /\ queue' = RemoveAt(queue, k)
      BY <2>1, <2>4
    <3>2. queue[k].kind = "weakTimer"
      BY <3>1 DEF WeakTimer
    <3> HIDE DEF U
    <3>3. PacksIn(RemoveAt(queue, k), U) /\ Keeps(queue, U, RemoveAt(queue, k), U)
      BY <1>3, <1>4, <3>2, RemoveKeepsArmed
    <3> QED BY <1>2, <1>7, <2>2, <3>1, <3>3 DEF CancelWeakTimer, U
  <2> QED BY <2>3, <2>4
<1>8. ASSUME NEW i \in InterId, KeepInter(i) PROVE ExpiryInv'
  <2>1. UNCHANGED <<queue, timers, posting>>
    BY <1>8 DEF KeepInter, Inter
  <2>2. Unready' = Unready
    BY <2>1 DEF Unready
  <2> QED BY <1>2, <1>3, <1>8, <2>1, <2>2 DEF KeepInter
<1> QED BY <1>1, <1>5, <1>6, <1>7, <1>8 DEF WeakInteraction

\* Every step keeps a delayed task to come for every timed request.
LEMMA ExpiryNext == TypeOK /\ ExpiryInv /\ [Next]_vars => ExpiryInv'
<1> SUFFICES ASSUME TypeOK, ExpiryInv, [Next]_vars PROVE ExpiryInv'
  OBVIOUS
<1>1. CASE Caller
  BY <1>1, ExpiryCaller
<1>2. CASE Worker
  BY <1>2, ExpiryStart, ExpiryStep, ExpiryFinish DEF Worker
<1>3. CASE PostSome \/ ElapseSome
  BY <1>3, ExpiryTimers
<1>4. CASE UNCHANGED vars
  BY <1>4, UntouchedExpiry DEF vars, sched, work, lists
<1> QED BY <1>1, <1>2, <1>3, <1>4 DEF Next

\* Every step keeps each list to its type.
LEMMA ListsTypedNext == TypeOK /\ ListsTyped /\ [Next]_vars => ListsTyped'
<1> SUFFICES ASSUME TypeOK, ListsTyped, [Next]_vars PROVE ListsTyped'
  OBVIOUS
<1>1. CASE resActionList' = resActionList
  BY <1>1 DEF ListsTyped
<1>2. ASSUME NEW r \in Res, NEW t \in ActionType, NEW S,
             ListChange(resActionList[r][t], t, S),
             resActionList' = [resActionList EXCEPT ![r][t] = S]
      PROVE  ListsTyped'
  <2>1. \A a \in S : a \in resActionList[r][t] \/ a.type = t
    BY <1>2 DEF ListChange
  <2>2. ASSUME NEW x \in Res, NEW u \in ActionType, NEW a \in resActionList'[x][u]
        PROVE  a.type = u
    <3>1. CASE x = r /\ u = t
      <4>1. a \in S
        BY <1>2, <2>2, <3>1 DEF TypeOK
      <4> QED BY <2>1, <3>1, <4>1 DEF ListsTyped
    <3>2. CASE x # r \/ u # t
      BY <1>2, <2>2, <3>2 DEF TypeOK, ListsTyped
    <3> QED BY <3>1, <3>2
  <2> QED BY <2>2 DEF ListsTyped
<1>3. CASE \/ Quiet \/ SwitchLimit \/ SendResStatus
           \/ \E r \in Res, l \in Int : Arbitrate(r, l)
  BY <1>1, <1>3 DEF Quiet, SwitchLimit, SendResStatus, Arbitrate, lists
<1>4. CASE \E r \in Res, t \in ActionType, S \in SUBSET ResAction, lvl2 \in Int :
              Update(r, t, S, lvl2) /\ ListChange(resActionList[r][t], t, S)
  <2>1. PICK r \in Res, t \in ActionType, S \in SUBSET ResAction, lvl2 \in Int :
          Update(r, t, S, lvl2) /\ ListChange(resActionList[r][t], t, S)
    BY <1>4
  <2>2. resActionList' = [resActionList EXCEPT ![r][t] = S]
    BY <2>1 DEF Update, UpdateCandidatesValue
  <2> QED BY <1>2, <2>1, <2>2
<1> QED BY <1>3, <1>4, StepKinds

\* What is awaited is armed.
LEMMA AwaitedIsArmed ==
    ASSUME TypeOK, ListsTyped, ExpiryInv PROVE ExpiryArmed
<1> SUFFICES ASSUME NEW r \in Res, NEW t \in ActionType, NEW a \in resActionList[r][t],
                    a.duration # 0
             PROVE  Armed([res |-> r, act |-> a])
  BY DEF ExpiryArmed
<1> DEFINE x == [res |-> r, act |-> a]
<1>1. x \in Item /\ x.res = r /\ x.act = a /\ a.type = t
  BY DEF TypeOK, Item, ListsTyped
<1> HIDE DEF x
<1>2. x \in Alive /\ x.act.duration # 0
  BY <1>1 DEF Alive
<1>3. Awaited(queue, Unready, x, 0) \/ x \in Ending
  BY <1>2 DEF ExpiryInv, AliveArmed
<1>4. Armed(x)
  <2>1. CASE x \in Unready
    BY <2>1 DEF Unready, Armed, DelayedFor
  <2>2. CASE \E j \in 1 .. Len(queue) : DelayedFor(queue[j], x)
    <3>1. PICK j \in 1 .. Len(queue) : DelayedFor(queue[j], x)
      BY <2>2
    <3>2. queue[j] \in Range(queue)
      BY DEF TypeOK, Range
    <3> QED BY <3>1, <3>2 DEF Armed, DelayedFor
  <2>3. CASE x \in Ending
    BY <2>3 DEF Ending, Armed
  <2> QED BY <1>3, <2>1, <2>2, <2>3 DEF Awaited
<1> QED BY <1>4 DEF x

\* Every timed request that is alive has its own delayed task still to come, for
\* every configuration and every interleaving of callers, timers and worker: the
\* task is posted after the pack (DoFreqActionPack, PostDelayTask), and it is
\* never taken before it, nor cancelled.
THEOREM ExpiryCorrect == Spec => []ExpiryArmed
<1>1. Init => ExpiryInv /\ ListsTyped
  BY DEF Init, ExpiryInv, PacksIn, HandArmed, AliveArmed, Alive, ListsTyped, Item, ResAction
<1>2. TypeOK /\ ListsTyped /\ ExpiryInv /\ [Next]_vars => (ExpiryInv /\ ListsTyped)'
  BY ExpiryNext, ListsTypedNext
<1>3. TypeOK /\ ListsTyped /\ ExpiryInv => ExpiryArmed
  BY AwaitedIsArmed
<1> QED BY <1>1, <1>2, <1>3, TypeCorrect, PTL DEF Spec

\* Only the requests of a delayed task are ended by it: a request made again before
\* its first delay is over keeps the time it was given (the comparison of pointers
\* in UpdateResActionListByDelayedMsg).
THEOREM DelayedTaskEndsItsOwn == Spec => StaleTimerHarmless
<1> DEFINE OnlyItsOwn ==
             phase = "late" => \A r \in Res : \A t \in ActionType :
                \A a \in resActionList[r][t] \ resActionList'[r][t] :
                    [res |-> r, act |-> a] \in late
<1>1. TypeOK /\ [Next]_vars => OnlyItsOwn
  <2> SUFFICES ASSUME TypeOK, [Next]_vars, phase = "late",
                      NEW r \in Res, NEW t \in ActionType,
                      NEW a \in resActionList[r][t], a \notin resActionList'[r][t]
               PROVE  [res |-> r, act |-> a] \in late
    OBVIOUS
  <2>1. CASE resActionList' = resActionList
    BY <2>1
  <2>2. CASE StepLate
    <3>0. PICK it \in late : \E lvl2 : ByDelayedMsg(it.res, it.act, lvl2)
      BY <2>2 DEF StepLate
    <3>1. PICK lvl2 : ByDelayedMsg(it.res, it.act, lvl2)
      BY <3>0
    <3>2. it \in Item
      BY DEF TypeOK
    <3> DEFINE L == resActionList[it.res][it.act.type]
    <3>3. CASE UpdateCandidatesValue(it.res, it.act.type, L \ {it.act}, lvl2)
      <4>1. resActionList' = [resActionList EXCEPT ![it.res][it.act.type] = L \ {it.act}]
        BY <3>3 DEF UpdateCandidatesValue
      <4>2. r = it.res /\ a = it.act
        BY <3>2, <4>1 DEF TypeOK, Item, ResAction
      <4>3. [res |-> r, act |-> a] = it
        BY <3>2, <4>2 DEF Item
      <4> QED BY <3>1, <4>3
    <3> QED BY <2>1, <3>1, <3>3 DEF ByDelayedMsg, Expired, lists
  <2>3. CASE StepItem \/ StepClear
    BY <2>3 DEF StepItem, StepClear, Step
  <2>4. Quiet \/ SendResStatus \/ StepArbitrate \/ StartPower \/ StartThermal
        => resActionList' = resActionList
    BY DEF Quiet, SendResStatus, StepArbitrate, StartPower, StartThermal, Take, lists
  <2> QED BY <2>1, <2>2, <2>3, <2>4, QuietSteps DEF Next, Worker
<1>2. TypeOK /\ [Next]_vars => [OnlyItsOwn]_vars
  BY <1>1
<1> QED BY <1>2, TypeCorrect, PTL DEF Spec, StaleTimerHarmless

-----------------------------------------------------------------------------
(* The timer of a weak interaction *)

Ready(q, i) == \E k \in 1 .. Len(q) : q[k] = WeakTimer(i)

\* There is one timer for each interaction that waits, in T or in the queue q.
OneTimer(q, T, status) ==
    \A i \in InterId :
        /\ status[i] = BOOST_END_STATUS <=> WeakTimer(i) \in T \/ Ready(q, i)
        /\ WeakTimer(i) \in T => ~ Ready(q, i)
        /\ \A j, k \in 1 .. Len(q) : q[j] = WeakTimer(i) /\ q[k] = WeakTimer(i) => j = k

WeakTimerInv == OneTimer(queue, timers, interStatus)

LEMMA WeakTimerInjective ==
    ASSUME NEW i, NEW j, WeakTimer(i) = WeakTimer(j) PROVE i = j
<1>1. WeakTimer(i).inter = i /\ WeakTimer(j).inter = j
  BY DEF WeakTimer
<1> QED BY <1>1

\* Another task is submitted or becomes ready.
LEMMA AppendOneTimer ==
    ASSUME NEW q \in Seq(Task), NEW x \in Task, x.kind # "weakTimer", NEW T, NEW status,
           OneTimer(q, T, status)
    PROVE  OneTimer(Append(q, x), T, status)
<1> DEFINE p == Append(q, x)
<1>1. /\ Len(q) \in Nat /\ Len(p) = Len(q) + 1
      /\ \A k \in 1 .. Len(q) : p[k] = q[k]
      /\ p[Len(q) + 1] = x
  BY AppendProperties
<1> HIDE DEF p
<1>2. ASSUME NEW i, NEW k \in 1 .. Len(p), p[k] = WeakTimer(i)
      PROVE  k \in 1 .. Len(q) /\ q[k] = WeakTimer(i)
  BY <1>1, <1>2 DEF WeakTimer
<1>3. ASSUME NEW i, NEW k \in 1 .. Len(q), q[k] = WeakTimer(i)
      PROVE  k \in 1 .. Len(p) /\ p[k] = WeakTimer(i)
  BY <1>1, <1>3
<1>4. \A i : Ready(p, i) <=> Ready(q, i)
  BY <1>2, <1>3 DEF Ready
<1> QED BY <1>2, <1>4 DEF OneTimer, p

\* The timer of x becomes ready.
LEMMA ElapseOneTimer ==
    ASSUME NEW q \in Seq(Task), NEW x \in InterId, NEW T, WeakTimer(x) \in T, NEW status,
           OneTimer(q, T, status)
    PROVE  OneTimer(Append(q, WeakTimer(x)), T \ {WeakTimer(x)}, status)
<1> DEFINE p == Append(q, WeakTimer(x))
           V == T \ {WeakTimer(x)}
<1>1. /\ Len(q) \in Nat /\ Len(p) = Len(q) + 1
      /\ \A k \in 1 .. Len(q) : p[k] = q[k]
      /\ p[Len(q) + 1] = WeakTimer(x)
  BY AppendProperties, TaskKinds
<1> HIDE DEF p
<1>2. Ready(p, x) /\ ~ Ready(q, x)
  <2>1. Len(q) + 1 \in 1 .. Len(p)
    BY <1>1
  <2> QED BY <1>1, <2>1 DEF OneTimer, Ready
<1>3. ASSUME NEW i \in InterId, i # x
      PROVE  /\ WeakTimer(i) # WeakTimer(x)
             /\ \A k \in 1 .. Len(p) : p[k] = WeakTimer(i)
                    => k \in 1 .. Len(q) /\ q[k] = WeakTimer(i)
             /\ Ready(p, i) <=> Ready(q, i)
  <2>1. WeakTimer(i) # WeakTimer(x)
    BY <1>3, WeakTimerInjective
  <2>2. \A k \in 1 .. Len(p) :
          p[k] = WeakTimer(i) => k \in 1 .. Len(q) /\ q[k] = WeakTimer(i)
    BY <1>1, <2>1
  <2>3. \A k \in 1 .. Len(q) : k \in 1 .. Len(p) /\ p[k] = q[k]
    BY <1>1
  <2> QED BY <2>1, <2>2, <2>3 DEF Ready
<1>4. \A k \in 1 .. Len(p) : p[k] = WeakTimer(x) => k = Len(q) + 1
  BY <1>1, <1>2 DEF Ready
<1>5. ASSUME NEW i \in InterId
      PROVE  /\ status[i] = BOOST_END_STATUS <=> WeakTimer(i) \in V \/ Ready(p, i)
             /\ WeakTimer(i) \in V => ~ Ready(p, i)
             /\ \A j, k \in 1 .. Len(p) :
                   p[j] = WeakTimer(i) /\ p[k] = WeakTimer(i) => j = k
  <2>1. CASE i = x
    BY <1>2, <1>4, <2>1 DEF OneTimer
  <2>2. CASE i # x
    BY <1>3, <2>2 DEF OneTimer
  <2> QED BY <2>1, <2>2
<1> QED BY <1>5 DEF OneTimer, p

\* The worker takes a task: the timer of x, or another one.
LEMMA TailOneTimer ==
    ASSUME NEW q \in Seq(Task), q # <<>>, NEW T, NEW status, OneTimer(q, T, status)
    PROVE  /\ Head(q).kind # "weakTimer" => OneTimer(Tail(q), T, status)
           /\ \A x \in InterId : Head(q) = WeakTimer(x)
                 => /\ WeakTimer(x) \notin T /\ ~ Ready(Tail(q), x)
                    /\ \A i \in InterId \ {x} : Ready(Tail(q), i) <=> Ready(q, i)
           /\ \A i \in InterId : \A j, k \in 1 .. Len(Tail(q)) :
                 Tail(q)[j] = WeakTimer(i) /\ Tail(q)[k] = WeakTimer(i) => j = k
<1> DEFINE p == Tail(q)
<1>1. /\ Len(q) \in Nat \ {0} /\ Len(p) = Len(q) - 1
      /\ \A k \in 1 .. Len(p) : p[k] = q[k + 1]
      /\ Head(q) = q[1]
  BY HeadTailProperties
<1> HIDE DEF p
<1>2. ASSUME NEW i PROVE Ready(q, i) <=> Head(q) = WeakTimer(i) \/ Ready(p, i)
  <2>1. ASSUME NEW k \in 1 .. Len(q), q[k] = WeakTimer(i), Head(q) # WeakTimer(i)
        PROVE  Ready(p, i)
    <3>1. k - 1 \in 1 .. Len(p) /\ p[k - 1] = q[(k - 1) + 1] /\ (k - 1) + 1 = k
      BY <1>1, <2>1
    <3> QED BY <2>1, <3>1 DEF Ready
  <2>2. ASSUME NEW k \in 1 .. Len(p), p[k] = WeakTimer(i) PROVE Ready(q, i)
    <3>1. k + 1 \in 1 .. Len(q) /\ q[k + 1] = WeakTimer(i)
      BY <1>1, <2>2
    <3> QED BY <3>1 DEF Ready
  <2>3. 1 \in 1 .. Len(q)
    BY <1>1
  <2> QED BY <1>1, <2>1, <2>2, <2>3 DEF Ready
<1>3. ASSUME NEW i \in InterId, NEW j \in 1 .. Len(p), NEW k \in 1 .. Len(p),
             p[j] = WeakTimer(i), p[k] = WeakTimer(i)
      PROVE  j = k
  <2>1. /\ j + 1 \in 1 .. Len(q) /\ k + 1 \in 1 .. Len(q)
        /\ q[j + 1] = WeakTimer(i) /\ q[k + 1] = WeakTimer(i)
    BY <1>1, <1>3
  <2>2. j + 1 = k + 1
    BY <2>1 DEF OneTimer
  <2> QED BY <1>1, <2>2
<1>4. ASSUME Head(q).kind # "weakTimer" PROVE OneTimer(p, T, status)
  <2>1. \A i : Head(q) # WeakTimer(i)
    BY <1>4 DEF WeakTimer
  <2>2. \A i : Ready(q, i) <=> Ready(p, i)
    BY <1>2, <2>1
  <2> QED BY <1>3, <2>2 DEF OneTimer
<1>5. ASSUME NEW x \in InterId, Head(q) = WeakTimer(x)
      PROVE  /\ WeakTimer(x) \notin T /\ ~ Ready(p, x)
             /\ \A i \in InterId \ {x} : Ready(p, i) <=> Ready(q, i)
  <2>1. WeakTimer(x) \notin T
    BY <1>2, <1>5 DEF OneTimer
  <2>2. ASSUME NEW k \in 1 .. Len(p), p[k] = WeakTimer(x) PROVE FALSE
    <3>1. /\ 1 \in 1 .. Len(q) /\ k + 1 \in 1 .. Len(q) /\ k + 1 # 1
          /\ q[1] = WeakTimer(x) /\ q[k + 1] = WeakTimer(x)
      BY <1>1, <1>5, <2>2
    <3> QED BY <3>1 DEF OneTimer
  <2>3. ASSUME NEW i \in InterId \ {x} PROVE Ready(p, i) <=> Ready(q, i)
    BY <1>2, <1>5, <2>3, WeakTimerInjective
  <2> QED BY <2>1, <2>2, <2>3 DEF Ready
<1> QED BY <1>3, <1>4, <1>5 DEF p

\* The timer of x is cancelled after its time has come.
LEMMA RemoveOneTimer ==
    ASSUME NEW q \in Seq(Task), NEW n \in 1 .. Len(q), NEW x \in InterId,
           q[n] = WeakTimer(x), NEW T, NEW status, OneTimer(q, T, status)
    PROVE  /\ ~ Ready(RemoveAt(q, n), x)
           /\ \A i \in InterId \ {x} : Ready(RemoveAt(q, n), i) <=> Ready(q, i)
           /\ \A i \in InterId : \A j, k \in 1 .. Len(RemoveAt(q, n)) :
                 RemoveAt(q, n)[j] = WeakTimer(i) /\ RemoveAt(q, n)[k] = WeakTimer(i)
                    => j = k
<1> DEFINE p == RemoveAt(q, n)
           from(k) == IF k < n THEN k ELSE k + 1
           to(k) == IF k < n THEN k ELSE k - 1
<1>1. /\ Len(q) \in Nat /\ Len(p) = Len(q) - 1
      /\ \A k \in 1 .. Len(q) - 1 : p[k] = IF k < n THEN q[k] ELSE q[k + 1]
  <2>1. Len(q) \in Nat
    OBVIOUS
  <2> HIDE DEF from, to
  <2> QED BY <2>1, RemovedPlaces
<1> HIDE DEF p
<1>2. ASSUME NEW k \in 1 .. Len(p)
      PROVE  from(k) \in 1 .. Len(q) /\ from(k) # n /\ p[k] = q[from(k)]
  BY <1>1
<1>3. ASSUME NEW j \in 1 .. Len(p), NEW k \in 1 .. Len(p), from(j) = from(k)
      PROVE  j = k
  BY <1>1, <1>3
<1>4. ASSUME NEW k \in 1 .. Len(q), k # n
      PROVE  to(k) \in 1 .. Len(p) /\ p[to(k)] = q[k]
  <2>1. CASE k < n
    BY <1>1, <2>1
  <2>2. CASE k > n
    <3>1. k - 1 \in 1 .. Len(q) - 1 /\ ~ (k - 1 < n) /\ (k - 1) + 1 = k
      BY <1>1, <2>2
    <3> QED BY <1>1, <2>2, <3>1
  <2> QED BY <1>1, <1>4, <2>1, <2>2
<1> HIDE DEF from, to
<1>5. ~ Ready(p, x)
  BY <1>2 DEF Ready, OneTimer
<1>6. ASSUME NEW i \in InterId \ {x} PROVE Ready(p, i) <=> Ready(q, i)
  <2>1. q[n] # WeakTimer(i)
    BY <1>6, WeakTimerInjective
  <2> QED BY <1>2, <1>4, <2>1 DEF Ready
<1>7. ASSUME NEW i \in InterId, NEW j \in 1 .. Len(p), NEW k \in 1 .. Len(p),
             p[j] = WeakTimer(i), p[k] = WeakTimer(i)
      PROVE  j = k
  BY <1>2, <1>3, <1>7 DEF OneTimer
<1> QED BY <1>5, <1>6, <1>7 DEF p

\* What the worker submits for an interaction is not a timer.
LEMMA SubmitOneTimer ==
    ASSUME NEW q \in Seq(Task), NEW p \in Seq(Item), NEW T, NEW status,
           OneTimer(q, T, status)
    PROVE  OneTimer(Submit(q, p), T, status)
<1>1. PackTask(p) \in Task /\ PackTask(p).kind # "weakTimer"
  BY TaskKinds DEF PackTask
<1> QED BY <1>1, AppendOneTimer DEF Submit

\* A step that leaves the queue and the statuses alone, and of the timers only
\* delayed tasks.
LEMMA SameOneTimer ==
    ASSUME WeakTimerInv, UNCHANGED <<queue, interStatus>>,
           \A i \in InterId : WeakTimer(i) \in timers' <=> WeakTimer(i) \in timers
    PROVE  WeakTimerInv'
BY DEF WeakTimerInv, OneTimer

\* The worker looks at an interaction.
LEMMA InterOneTimer == TypeOK /\ WeakTimerInv /\ WeakInteraction => WeakTimerInv'
<1> SUFFICES ASSUME TypeOK, WeakTimerInv, NEW x \in InterId,
                    BoostEnds(x) \/ LiftWeak(x) \/ CancelWeakTimer(x) \/ KeepInter(x)
             PROVE  WeakTimerInv'
  BY DEF WeakInteraction
<1>1. queue \in Seq(Task) /\ OneTimer(queue, timers, interStatus)
  BY DEF TypeOK, WeakTimerInv
<1>2. \A st : [interStatus EXCEPT ![x] = st][x] = st
      /\ \A i \in InterId \ {x} : [interStatus EXCEPT ![x] = st][i] = interStatus[i]
  BY DEF TypeOK
<1>3. \A i \in InterId \ {x} : WeakTimer(i) # WeakTimer(x)
  BY WeakTimerInjective
<1>4. CASE BoostEnds(x)
  <2>1. /\ queue' = queue /\ timers' = timers \cup {WeakTimer(x)}
        /\ interStatus' = [interStatus EXCEPT ![x] = BOOST_END_STATUS]
        /\ interStatus[x] = BOOST_STATUS
    BY <1>4 DEF BoostEnds
  <2>2. ~ Ready(queue, x)
    BY <1>1, <2>1 DEF OneTimer, BOOST_STATUS, BOOST_END_STATUS
  <2>3. OneTimer(queue, timers', interStatus')
    BY <1>1, <1>2, <1>3, <2>1, <2>2 DEF OneTimer
  <2> QED BY <2>1, <2>3 DEF WeakTimerInv
<1>5. CASE LiftWeak(x)
  <2> DEFINE p == MakeWeak(WeakTemplates[x][performanceModeStatus], EVENT_OFF)
  <2>1. /\ queue' = Submit(queue, p) /\ timers' = timers
        /\ interStatus' = [interStatus EXCEPT ![x] = BOOST_STATUS]
        /\ interStatus[x] = WEAK_INTERACTION_STATUS
    BY <1>5 DEF LiftWeak, WeakActions
  <2>2. p \in Seq(Item)
    BY WeakItemsType DEF TypeOK
  <2> HIDE DEF p
  <2>3. OneTimer(queue, timers, interStatus')
    BY <1>1, <1>2, <2>1
       DEF OneTimer, BOOST_STATUS, BOOST_END_STATUS, WEAK_INTERACTION_STATUS
  <2> DEFINE st == interStatus'
  <2>4. OneTimer(queue, timers, st)
    BY <2>3
  <2> HIDE DEF st
  <2>5. OneTimer(Submit(queue, p), timers, st)
    BY <1>1, <2>2, <2>4, SubmitOneTimer
  <2> QED BY <2>1, <2>5 DEF WeakTimerInv, st
<1>6. CASE CancelWeakTimer(x)
  <2>1. /\ timers' = timers \ {WeakTimer(x)}
        /\ interStatus' = [interStatus EXCEPT ![x] = BOOST_STATUS]
        /\ \/ WeakTimer(x) \notin Range(queue) /\ queue' = queue
           \/ \E k \in 1 .. Len(queue) : /\ queue[k] = WeakTimer(x)
                                        /\ queue' = RemoveAt(queue, k)
    BY <1>6 DEF CancelWeakTimer, CancelTask
  <2>2. CASE WeakTimer(x) \notin Range(queue) /\ queue' = queue
    <3>1. ~ Ready(queue, x)
      BY <1>1, <2>2 DEF Ready, Range
    <3>2. OneTimer(queue, timers', interStatus')
      <4> DEFINE T == timers'
                 st == interStatus'
      <4>1. /\ st[x] = BOOST_STATUS /\ WeakTimer(x) \notin T
            /\ \A i \in InterId \ {x} : /\ st[i] = interStatus[i]
                                        /\ WeakTimer(i) \in T <=> WeakTimer(i) \in timers
        BY <1>2, <1>3, <2>1
      <4> HIDE DEF T, st
      <4>2. OneTimer(queue, T, st)
        BY <1>1, <3>1, <4>1 DEF OneTimer, BOOST_STATUS, BOOST_END_STATUS
      <4> QED BY <4>2 DEF T, st
    <3> QED BY <2>2, <3>2 DEF WeakTimerInv
  <2>3. CASE \E k \in 1 .. Len(queue) : /\ queue[k] = WeakTimer(x)
                                       /\ queue' = RemoveAt(queue, k)
    <3>1. PICK k \in 1 .. Len(queue) : /\ queue[k] = WeakTimer(x)
                                      /\ queue' = RemoveAt(queue, k)
      BY <2>3
    <3> DEFINE p == RemoveAt(queue, k)
    <3>2. /\ ~ Ready(p, x)
          /\ \A i \in InterId \ {x} : Ready(p, i) <=> Ready(queue, i)
          /\ \A i \in InterId : \A j, l \in 1 .. Len(p) :
                p[j] = WeakTimer(i) /\ p[l] = WeakTimer(i) => j = l
      BY <1>1, <3>1, RemoveOneTimer
    <3> HIDE DEF p
    <3>3. OneTimer(p, timers', interStatus')
      <4> DEFINE T == timers'
                 st == interStatus'
      <4>1. /\ st[x] = BOOST_STATUS /\ WeakTimer(x) \notin T
            /\ \A i \in InterId \ {x} : /\ st[i] = interStatus[i]
                                        /\ WeakTimer(i) \in T <=> WeakTimer(i) \in timers
        BY <1>2, <1>3, <2>1
      <4> HIDE DEF T, st
      <4>2. OneTimer(p, T, st)
        BY <1>1, <3>2, <4>1 DEF OneTimer, BOOST_STATUS, BOOST_END_STATUS
      <4> QED BY <4>2 DEF T, st
    <3> QED BY <3>1, <3>3 DEF WeakTimerInv, p
  <2> QED BY <2>1, <2>2, <2>3
<1>7. CASE KeepInter(x)
  BY <1>7, SameOneTimer DEF KeepInter
<1> QED BY <1>4, <1>5, <1>6, <1>7

\* The worker takes a task.
LEMMA StartOneTimer ==
    ASSUME TypeOK, WeakTimerInv,
           \/ StartPack \/ DoFreqAction \/ DoFreqActionLevel \/ StartDelayed
           \/ StartPower \/ StartThermal \/ StartClear
           \/ StartWeakMode \/ StartPerfMode \/ StartWeakTimer
    PROVE  WeakTimerInv'
<1>1. OneTimer(queue, timers, interStatus)
  BY DEF WeakTimerInv
<1>2. CASE StartWeakTimer
  <2> DEFINE t == Head(queue)
             q == Tail(queue)
             p == MakeWeak(WeakTemplates[t.inter][performanceModeStatus], EVENT_ON)
             st == [interStatus EXCEPT ![t.inter] = WEAK_INTERACTION_STATUS]
  <2>1. /\ queue \in Seq(Task) /\ queue # <<>> /\ t.kind = "weakTimer"
        /\ queue' = Submit(q, p) /\ timers' = timers /\ interStatus' = st
    BY <1>2 DEF StartWeakTimer, WeakActions, Take, TypeOK
  <2>2. t \in Task /\ q \in Seq(Task)
    BY <2>1, QueueTypes
  <2>3. t.inter \in InterId
    BY <2>1, <2>2, TaskFields
  <2>4. t = WeakTimer(t.inter)
    BY <2>1, <2>2 DEF Task, WeakTimer, WeakTimerSet, DelayedTaskSet, FlagKind
  <2>5. p \in Seq(Item)
    BY <2>3, WeakItemsType DEF TypeOK
  <2>6. PICK x \in InterId : t = WeakTimer(x) /\ x = t.inter
    BY <2>3, <2>4
  <2>7. /\ WeakTimer(x) \notin timers /\ ~ Ready(q, x)
        /\ \A i \in InterId \ {x} : Ready(q, i) <=> Ready(queue, i)
        /\ \A i \in InterId : \A j, k \in 1 .. Len(q) :
              q[j] = WeakTimer(i) /\ q[k] = WeakTimer(i) => j = k
    BY <1>1, <2>1, <2>6, TailOneTimer
  <2>8. st[x] = WEAK_INTERACTION_STATUS /\ \A i \in InterId \ {x} : st[i] = interStatus[i]
    BY <2>6 DEF TypeOK
  <2> HIDE DEF t, q, p, st
  <2>9. OneTimer(q, timers, st)
    BY <1>1, <2>7, <2>8 DEF OneTimer, WEAK_INTERACTION_STATUS, BOOST_END_STATUS
  <2>10. OneTimer(Submit(q, p), timers, st)
    BY <2>2, <2>5, <2>9, SubmitOneTimer
  <2> QED BY <2>1, <2>10 DEF WeakTimerInv
<1>3. CASE ~ StartWeakTimer
  <2>1. /\ queue \in Seq(Task) /\ queue # <<>> /\ Head(queue).kind # "weakTimer"
        /\ queue' = Tail(queue) /\ timers' = timers /\ interStatus' = interStatus
    BY <1>3 DEF StartPack, DoFreqAction, DoFreqActionLevel, StartDelayed, StartPower,
                StartThermal, StartClear, StartWeakMode, StartPerfMode, Take, TypeOK
  <2>2. OneTimer(Tail(queue), timers, interStatus)
    BY <1>1, <2>1, TailOneTimer
  <2> QED BY <2>1, <2>2 DEF WeakTimerInv
<1> QED BY <1>2, <1>3

\* Every step keeps one timer for each interaction that waits.
LEMMA OneTimerNext == TypeOK /\ WeakTimerInv /\ [Next]_vars => WeakTimerInv'
<1> SUFFICES ASSUME TypeOK, WeakTimerInv, [Next]_vars PROVE WeakTimerInv'
  OBVIOUS
<1>1. queue \in Seq(Task) /\ OneTimer(queue, timers, interStatus)
  BY DEF TypeOK, WeakTimerInv
<1>2. ASSUME NEW t \in Task, t.kind # "weakTimer", queue' = Append(queue, t),
             UNCHANGED interStatus,
             \A i \in InterId : WeakTimer(i) \in timers' <=> WeakTimer(i) \in timers
      PROVE  WeakTimerInv'
  <2>1. OneTimer(Append(queue, t), timers, interStatus)
    BY <1>1, <1>2, AppendOneTimer
  <2> QED BY <1>2, <2>1 DEF WeakTimerInv, OneTimer
<1>3. ASSUME NEW t \in Task, t.kind # "weakTimer", SubmitTask(t) PROVE WeakTimerInv'
  BY <1>2, <1>3 DEF SubmitTask
<1>4. CASE Caller
  <2>1. CASE DoFreqActionPack
    <3>1. PICK p \in Packs, now \in Now :
            queue' = Append(queue, PackTask(MakePack(calls + 1, now, p)))
      BY <2>1 DEF DoFreqActionPack
    <3>2. MakePack(calls + 1, now, p) \in Seq(Item)
      BY MakePackType DEF TypeOK
    <3>3. PackTask(MakePack(calls + 1, now, p)) \in Task
          /\ PackTask(MakePack(calls + 1, now, p)).kind # "weakTimer"
      BY <3>2, TaskKinds DEF PackTask
    <3> QED BY <1>2, <2>1, <3>1, <3>3 DEF DoFreqActionPack
  <2>2. CASE UpdateLimitStatus
    <3>1. PICK l \in Limits : SubmitTask([kind |-> l.kind, item |-> MakeLimit(l.limit)])
      BY <2>2 DEF UpdateLimitStatus
    <3>2. l.kind # "weakTimer"
      BY WrapAssumption DEF FreqLimit, LevelLimit
    <3> QED BY <1>3, <3>1, <3>2, TaskKinds
  <2>3. ASSUME NEW kind \in FlagKind, SetFlag(kind) PROVE WeakTimerInv'
    <3>1. PICK on \in BOOLEAN : SubmitTask([kind |-> kind, on |-> on])
      BY <2>3 DEF SetFlag
    <3> QED BY <1>3, <3>1, TaskKinds DEF FlagKind
  <2>4. CASE \/ UpdatePowerLimitBoostFreq \/ UpdateThermalLimitBoostFreq
             \/ SetWeakInteractionStatus \/ SetPerformanceModeStatus
    BY <2>3, <2>4
       DEF UpdatePowerLimitBoostFreq, UpdateThermalLimitBoostFreq,
           SetWeakInteractionStatus, SetPerformanceModeStatus, FlagKind
  <2>5. CASE ClearAllAliveRequest
    BY <1>3, <2>5, TaskKinds DEF ClearAllAliveRequest
  <2>6. CASE SetThermalLevel
    BY <2>6, SameOneTimer DEF SetThermalLevel
  <2> QED BY <1>4, <2>1, <2>2, <2>4, <2>5, <2>6 DEF Caller
<1>5. CASE PostSome
  <2>1. PICK p \in posting : PostDelayTask(p)
    BY <1>5 DEF PostSome
  <2>2. /\ timers' = timers \cup DelayTasks(p)
        /\ UNCHANGED <<queue, interStatus>>
    BY <2>1 DEF PostDelayTask
  <2>3. \A i : WeakTimer(i) \notin DelayTasks(p)
    BY DEF WeakTimer, DelayTasks, DelayedTask
  <2> QED BY <2>2, <2>3, SameOneTimer
<1>6. CASE ElapseSome
  <2>1. PICK t \in timers : Elapse(t)
    BY <1>6 DEF ElapseSome
  <2>2. /\ timers' = timers \ {t} /\ queue' = Append(queue, t)
        /\ interStatus' = interStatus
    BY <2>1 DEF Elapse
  <2>3. CASE t \in DelayedTaskSet
    <3>1. t \in Task /\ t.kind # "weakTimer" /\ \A i : t # WeakTimer(i)
      BY <2>3, TaskKinds DEF DelayedTaskSet, WeakTimer
    <3> QED BY <1>2, <2>2, <3>1
  <2>4. CASE t \in WeakTimerSet
    <3>1. PICK x \in InterId : t = WeakTimer(x)
      BY <2>4 DEF WeakTimerSet, WeakTimer
    <3>2. OneTimer(Append(queue, WeakTimer(x)), timers \ {WeakTimer(x)}, interStatus)
      BY <1>1, <2>1, <3>1, ElapseOneTimer
    <3> QED BY <2>2, <3>1, <3>2 DEF WeakTimerInv
  <2> QED BY <2>1, <2>3, <2>4 DEF TypeOK
<1>7. CASE \/ StepItem \/ StepLate \/ StepArbitrate \/ StepClear
           \/ SendResStatus \/ FinishTask \/ UNCHANGED vars
  <2>1. UNCHANGED <<queue, timers, interStatus>>
    BY <1>7 DEF StepItem, StepLate, StepArbitrate, StepClear, Step, SendResStatus,
                FinishTask, sched, vars
  <2> QED BY <2>1, SameOneTimer
<1> QED BY <1>4, <1>5, <1>6, <1>7, StartOneTimer, InterOneTimer DEF Next, Worker

\* An interaction waits for its delay exactly while one timer of its own is to come:
\* for any number of interactions, and wherever the boost that cancels the wait
\* falls, before or after the delay is over (WeakInteraction cancels the task).
THEOREM WeakTimersCorrect == Spec => []WeakStatusMatchesTimer
<1>1. Init => WeakTimerInv
  <2> SUFFICES ASSUME Init PROVE OneTimer(queue, timers, interStatus)
    BY DEF WeakTimerInv
  <2>1. queue = <<>> /\ timers = {} /\ \A i \in InterId : interStatus[i] = BOOST_STATUS
    BY DEF Init
  <2> QED BY <2>1 DEF OneTimer, Ready, BOOST_STATUS, BOOST_END_STATUS
<1>2. TypeOK /\ WeakTimerInv /\ [Next]_vars => WeakTimerInv'
  BY OneTimerNext
<1>3. TypeOK /\ WeakTimerInv => WeakStatusMatchesTimer
  <2> SUFFICES ASSUME TypeOK, WeakTimerInv, NEW i \in InterId
               PROVE  /\ interStatus[i] = BOOST_END_STATUS
                           <=> WeakTimer(i) \in timers \cup Range(queue)
                      /\ WeakTimer(i) \in timers => WeakTimer(i) \notin Range(queue)
                      /\ Cardinality({k \in 1 .. Len(queue) : queue[k] = WeakTimer(i)}) <= 1
    BY DEF WeakStatusMatchesTimer
  <2>1. WeakTimer(i) \in Range(queue) <=> Ready(queue, i)
    BY DEF TypeOK, Ready, Range
  <2> DEFINE places == {k \in 1 .. Len(queue) : queue[k] = WeakTimer(i)}
  <2>2. places = {} \/ \E j : places = {j}
    <3>1. \A j, k \in places : j = k
      BY DEF WeakTimerInv, OneTimer
    <3> QED BY <3>1
  <2> HIDE DEF places
  <2>3. Cardinality(places) <= 1
    <3>1. Cardinality({}) = 0
      BY FS_EmptySet
    <3>2. \A j : Cardinality({j}) = 1
      BY FS_Singleton
    <3>3. CASE places = {}
      BY <3>1, <3>3
    <3>4. CASE \E j : places = {j}
      <4>1. PICK j : places = {j}
        BY <3>4
      <4>2. Cardinality(places) = 1
        BY <3>2, <4>1
      <4> QED BY <4>2
    <3> QED BY <2>2, <3>3, <3>4
  <2> QED BY <2>1, <2>3 DEF WeakTimerInv, OneTimer, places
<1> QED BY <1>1, <1>2, <1>3, TypeCorrect, PTL DEF Spec
=============================================================================
