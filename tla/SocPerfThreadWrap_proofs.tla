---------------------- MODULE SocPerfThreadWrap_proofs ----------------------
(* SocPerfThreadWrap, for every configuration, every set of requests and every *)
(* number of calls: the types; the executor is told what the alive requests   *)
(* call for; the implementation of ResourceArbiter.                           *)
EXTENDS SocPerfThreadWrap, SequenceTheorems, WellFoundedInduction, TLAPS

-----------------------------------------------------------------------------
(* What the arbitration of one resource and of one pair returns.             *)

\* A set of integers that is bounded below has a least element, and one that is
\* bounded above a greatest: the loop of InnerArbitrateCandidatesValue finds one.
LEMMA LeastExists ==
    ASSUME NEW S \in SUBSET Int, S # {}, NEW b \in Int, \A x \in S : b <= x
    PROVE  \E m \in S : \A x \in S : m <= x
<1> DEFINE T == {x - b : x \in S}
<1>1. T \subseteq Nat /\ T # {}
  <2>1. \A x \in S : x - b \in Nat
    OBVIOUS
  <2>2. PICK x \in S : TRUE
    OBVIOUS
  <2>3. x - b \in T
    OBVIOUS
  <2> QED BY <2>1, <2>3
<1>2. PICK n \in T : \A y \in T : ~ (<<y, n>> \in OpToRel(<, Nat))
  <2> HIDE DEF T
  <2> QED BY <1>1, NatLessThanWellFounded, WFMin
<1>3. \A y \in T : ~ (y < n)
  <2> TAKE y \in T
  <2>1. y \in Nat /\ n \in Nat
    BY <1>1
  <2>2. y < n => <<y, n>> \in OpToRel(<, Nat)
    BY <2>1 DEF OpToRel
  <2> QED BY <1>2, <2>2
<1>4. PICK m \in S : n = m - b
  OBVIOUS
<1>5. \A x \in S : m <= x
  <2> TAKE x \in S
  <2>1. x - b \in T
    OBVIOUS
  <2>2. ~ (x - b < m - b)
    BY <2>1, <1>3, <1>4
  <2> QED BY <2>2
<1> QED BY <1>5

\* The same for the greatest of a set of integers bounded above.
LEMMA GreatestExists ==
    ASSUME NEW S \in SUBSET Int, S # {}, NEW b \in Int, \A x \in S : x <= b
    PROVE  \E m \in S : \A x \in S : x <= m
<1> DEFINE T == {-x : x \in S}
<1>1. T \in SUBSET Int /\ T # {} /\ -b \in Int /\ \A x \in T : -b <= x
  <2>1. \A x \in S : -x \in Int /\ -b <= -x
    OBVIOUS
  <2>2. PICK x \in S : TRUE
    OBVIOUS
  <2>3. -x \in T
    OBVIOUS
  <2> QED BY <2>1, <2>3
<1>2. PICK n \in T : \A x \in T : n <= x
  <2> HIDE DEF T
  <2> QED BY <1>1, LeastExists
<1>3. PICK m \in S : n = -m
  OBVIOUS
<1>4. \A x \in S : x <= m
  <2> TAKE x \in S
  <2>1. -x \in T
    OBVIOUS
  <2> QED BY <2>1, <1>2, <1>3
<1> QED BY <1>4

\* Min returns a least element of a set that has one.
LEMMA MinProperties ==
    ASSUME NEW S \in SUBSET Int, S # {}, NEW b \in Int, \A x \in S : b <= x
    PROVE  Min(S) \in S /\ \A x \in S : Min(S) <= x
BY LeastExists DEF Min

\* Max returns a greatest element of a set that has one.
LEMMA MaxProperties ==
    ASSUME NEW S \in SUBSET Int, S # {}, NEW b \in Int, \A x \in S : x <= b
    PROVE  Max(S) \in S /\ \A x \in S : x <= Max(S)
<1>1. PICK m \in S : \A x \in S : x <= m
  BY GreatestExists
<1>2. \A x \in S : m >= x
  BY <1>1
<1> QED BY <1>2 DEF Max

-----------------------------------------------------------------------------
\* Values lie between INVALID_VALUE and MAX_INT_VALUE, and are integers.
LEMMA ValueBounds ==
    /\ Candidates \subseteq Int
    /\ \A v \in Candidates : INVALID_VALUE <= v /\ v <= MAX_INT_VALUE
    /\ \A v \in Value : v # INVALID_VALUE
    /\ INVALID_VALUE # NODE_DEFAULT_VALUE
    /\ MAX_INT_VALUE \in EndTime
BY ResConfigAssumption
   DEF ValueAssumption, Winning, Candidates, NODE_DEFAULT_VALUE, EndTime

\* The extremum of a set of values is one of them (Max and Min of
\* socperf_common.h, of two or of three arguments).
LEMMA ExtremumIn ==
    ASSUME NEW S \in SUBSET Candidates, S # {}
    PROVE  /\ Max(S) \in S /\ \A x \in S : x <= Max(S)
           /\ Min(S) \in S /\ \A x \in S : Min(S) <= x
<1>1. /\ S \in SUBSET Int /\ INVALID_VALUE \in Int /\ MAX_INT_VALUE \in Int
      /\ \A x \in S : INVALID_VALUE <= x /\ x <= MAX_INT_VALUE
  BY ValueBounds, ResConfigAssumption DEF ValueAssumption
<1> QED BY <1>1, MinProperties, MaxProperties

\* A list of alive requests, as far as arbitration reads it.
IsList(S) == \A a \in S : a.value \in Value /\ a.endTime \in EndTime

\* The winner of a list that is not empty is the value of a request in it, and
\* no request of a limiting type is below it, none of a boosting type above.
LEMMA CandValueProperties ==
    ASSUME NEW t \in ActionType, NEW S, IsList(S)
    PROVE  /\ CandValue(t, S) \in Winning
           /\ CandValue(t, S) = INVALID_VALUE <=> S = {}
           /\ S # {} => \E a \in S : a.value = CandValue(t, S)
           /\ t \notin PerfFirst => \A a \in S : CandValue(t, S) <= a.value
           /\ t \in PerfFirst => \A a \in S : a.value <= CandValue(t, S)
<1>1. CASE S = {}
  BY <1>1, ValueBounds DEF CandValue, Winning
<1>2. CASE S # {}
  <2> DEFINE V == {a.value : a \in S}
  <2>1. V \in SUBSET Candidates /\ V \subseteq Value /\ V # {}
    <3>1. PICK a \in S : TRUE
      BY <1>2
    <3>2. a.value \in V
      OBVIOUS
    <3>3. V \subseteq Value
      BY DEF IsList
    <3> QED BY <3>2, <3>3 DEF Candidates, Winning
  <2>2. /\ Max(V) \in V /\ \A x \in V : x <= Max(V)
        /\ Min(V) \in V /\ \A x \in V : Min(V) <= x
    <3> HIDE DEF V
    <3> QED BY <2>1, ExtremumIn
  <2>3. CandValue(t, S) = IF t \in PerfFirst THEN Max(V) ELSE Min(V)
    BY <1>2 DEF CandValue
  <2>4. CandValue(t, S) \in V
    BY <2>2, <2>3
  <2>5. \A a \in S : a.value \in V
    OBVIOUS
  <2>6. \E a \in S : a.value = CandValue(t, S)
    BY <2>4
  <2>7. CandValue(t, S) \in Value /\ CandValue(t, S) # INVALID_VALUE
    BY <2>4, <2>1, ValueBounds
  <2> HIDE DEF V
  <2> QED BY <1>2, <2>2, <2>3, <2>5, <2>6, <2>7 DEF Winning
<1> QED BY <1>1, <1>2

\* The end time of a winner is an end time.
LEMMA CandEndTimeType ==
    ASSUME NEW t \in ActionType, NEW S, IsList(S)
    PROVE  CandEndTime(t, S) \in EndTime
<1>1. CASE S = {}
  BY <1>1, ValueBounds DEF CandEndTime
<1>2. CASE S # {}
  <2> DEFINE E == {a.endTime : a \in {b \in S : b.value = CandValue(t, S)}}
  <2>1. PICK a \in S : a.value = CandValue(t, S)
    BY <1>2, CandValueProperties
  <2>2. a.endTime \in E
    BY <2>1
  <2>3. E \subseteq EndTime
    BY DEF IsList
  <2>4. E \in SUBSET Int /\ MAX_INT_VALUE \in Int /\ \A x \in E : x <= MAX_INT_VALUE
    <3> HIDE DEF E
    <3> QED BY <2>3, ResConfigAssumption DEF EndTime, ValueAssumption
  <2>5. Max(E) \in E
    <3> HIDE DEF E
    <3> QED BY <2>2, <2>4, MaxProperties
  <2> QED BY <1>2, <2>3, <2>5 DEF CandEndTime
<1> QED BY <1>1, <1>2

-----------------------------------------------------------------------------
\* The lower of two limits is one of them, and not above either.
LEMMA LowerLimitProperties ==
    ASSUME NEW p \in Winning, NEW th \in Winning
    PROVE  /\ LowerLimit(p, th) \in {p, th}
           /\ p # INVALID_VALUE => LowerLimit(p, th) <= p
           /\ th # INVALID_VALUE => LowerLimit(p, th) <= th
           /\ LowerLimit(p, th) = INVALID_VALUE
                 => p = INVALID_VALUE /\ th = INVALID_VALUE
<1>1. {p, th} \in SUBSET Candidates /\ {p, th} # {}
  BY DEF Candidates
<1>2. Min({p, th}) \in {p, th} /\ \A x \in {p, th} : Min({p, th}) <= x
  BY <1>1, ExtremumIn
<1>3. p \in Int /\ th \in Int
  BY ValueBounds DEF Candidates
<1> QED BY <1>2, <1>3 DEF LowerLimit

\* ProcessLimitCase picks one of the three winners; with a switch on it goes by
\* the winner of the switch's type whenever there is one.
LEMMA LimitCaseProperties ==
    ASSUME NEW cv \in [ActionType -> Winning], NEW plb \in BOOLEAN, NEW tlb \in BOOLEAN
    PROVE  /\ LimitCase(cv, plb, tlb) \in Winning
           /\ plb /\ cv["power"] # INVALID_VALUE
                 => LimitCase(cv, plb, tlb) <= cv["power"]
           /\ tlb /\ cv["thermal"] # INVALID_VALUE
                 => LimitCase(cv, plb, tlb) <= cv["thermal"]
<1> DEFINE f == cv["perf"]  p == cv["power"]  th == cv["thermal"]
<1>1. f \in Winning /\ p \in Winning /\ th \in Winning
  BY DEF ActionType
<1>2. p \in Int /\ th \in Int
  BY <1>1, ValueBounds DEF Candidates
<1>3. Max({f, p, th}) \in {f, p, th} /\ Max({f, p}) \in {f, p} /\ Max({f, th}) \in {f, th}
  <2>1. /\ {f, p, th} \in SUBSET Candidates /\ {f, p} \in SUBSET Candidates
        /\ {f, th} \in SUBSET Candidates
    BY <1>1 DEF Candidates
  <2> QED BY <2>1, ExtremumIn
<1>4. /\ LowerLimit(p, th) \in {p, th}
      /\ p # INVALID_VALUE => LowerLimit(p, th) <= p
      /\ th # INVALID_VALUE => LowerLimit(p, th) <= th
  BY <1>1, LowerLimitProperties
<1>5. CASE ~plb /\ ~tlb
  BY <1>5, <1>1, <1>3, <1>4 DEF LimitCase
<1>6. CASE ~plb /\ tlb
  BY <1>6, <1>1, <1>2, <1>3, <1>4 DEF LimitCase
<1>7. CASE plb /\ ~tlb
  BY <1>7, <1>1, <1>2, <1>3, <1>4 DEF LimitCase
<1>8. CASE plb /\ tlb
  BY <1>8, <1>1, <1>2, <1>3, <1>4 DEF LimitCase
<1> QED BY <1>5, <1>6, <1>7, <1>8

\* A candidate is a value or a marker; without PERFLVL, a switch that is on keeps
\* it within the winner of its type.
LEMMA ArbitratedCandidateProperties ==
    ASSUME NEW cv \in [ActionType -> Winning], NEW plb \in BOOLEAN,
           NEW tlb \in BOOLEAN, NEW lvl
    PROVE  /\ ArbitratedCandidate(cv, plb, tlb, lvl) \in Candidates
           /\ cv["perflvl"] = INVALID_VALUE =>
                /\ plb /\ cv["power"] # INVALID_VALUE
                     => ArbitratedCandidate(cv, plb, tlb, lvl) <= cv["power"]
                /\ tlb /\ cv["thermal"] # INVALID_VALUE
                     => ArbitratedCandidate(cv, plb, tlb, lvl) <= cv["thermal"]
<1> DEFINE c == LimitCase(cv, plb, tlb)  l == cv["perflvl"]
<1>1. l \in Winning /\ c \in Winning
  BY LimitCaseProperties DEF ActionType
<1>2. Min({c, l}) \in {c, l}
  <2>1. {c, l} \in SUBSET Candidates
    BY <1>1 DEF Candidates
  <2> QED BY <2>1, ExtremumIn
<1>3. ArbitratedCandidate(cv, plb, tlb, lvl) \in {NODE_DEFAULT_VALUE, c, l, Min({c, l})}
  BY DEF ArbitratedCandidate
<1>4. ArbitratedCandidate(cv, plb, tlb, lvl) \in Candidates
  BY <1>1, <1>2, <1>3 DEF Candidates
<1>5. ASSUME l = INVALID_VALUE,
             cv["power"] # INVALID_VALUE \/ cv["thermal"] # INVALID_VALUE
      PROVE  ArbitratedCandidate(cv, plb, tlb, lvl) = c
  BY <1>5 DEF ArbitratedCandidate, ActionType
<1> QED BY <1>4, <1>5, LimitCaseProperties

\* The end time of a resource is an end time.
LEMMA ArbitratedEndTimeType ==
    ASSUME NEW ce \in [ActionType -> EndTime]
    PROVE  ArbitratedEndTime(ce) \in EndTime
<1> DEFINE E == {ce["perf"], ce["power"], ce["thermal"]}
<1>1. E \in SUBSET Int /\ E # {} /\ \A x \in E : 0 <= x
  BY DEF ActionType, EndTime
<1>2. Min(E) \in E
  <2> HIDE DEF E
  <2> QED BY <1>1, MinProperties
<1> QED BY <1>2 DEF ArbitratedEndTime, ActionType

-----------------------------------------------------------------------------
\* Low and High are the two resources of a pair, the same for both of them.
LEMMA PairEnds ==
    ASSUME NEW r \in Res, Pair[r] # NoRes
    PROVE  /\ Low(r) \in Res /\ High(r) \in Res /\ Low(r) # High(r)
           /\ Pair[r] \in Res /\ Pair[Pair[r]] = r
           /\ {Low(r), High(r)} = {r, Pair[r]}
           /\ Low(Pair[r]) = Low(r) /\ High(Pair[r]) = High(r)
BY ResConfigAssumption DEF PairAssumption, Low, High

\* The current values stay values or markers, whichever resource is arbitrated.
LEMMA PairCurrentType ==
    ASSUME NEW r \in Res, NEW cand \in [Res -> Candidates],
           NEW cur \in [Res -> Candidates], NEW limit \in BOOLEAN
    PROVE  PairCurrent(r, cand, cur, limit) \in [Res -> Candidates]
<1>1. CASE Pair[r] = NoRes
  BY <1>1 DEF PairCurrent
<1>2. CASE Pair[r] # NoRes
  BY <1>2, PairEnds DEF PairCurrent
<1> QED BY <1>1, <1>2

\* Arbitrating a resource leaves the current values of all others but its pair
\* alone, and does not look at the current values it replaces.
LEMMA PairCurrentElsewhere ==
    ASSUME NEW r \in Res, NEW cand \in [Res -> Candidates],
           NEW cur \in [Res -> Candidates], NEW limit \in BOOLEAN,
           NEW x \in Res, x # r, x # Pair[r]
    PROVE  PairCurrent(r, cand, cur, limit)[x] = cur[x]
<1>1. CASE Pair[r] = NoRes
  BY <1>1 DEF PairCurrent
<1>2. CASE Pair[r] # NoRes
  BY <1>2, PairEnds DEF PairCurrent
<1> QED BY <1>1, <1>2

\* After ArbitratePairRes the minimum of the pair is not above its maximum,
\* unless one of the two has no request; with a limit in force neither exceeds
\* its own candidate.
LEMMA PairCurrentProperties ==
    ASSUME NEW r \in Res, NEW cand \in [Res -> Candidates],
           NEW cur \in [Res -> Candidates], NEW limit \in BOOLEAN
    PROVE  LET new == PairCurrent(r, cand, cur, limit)
           IN  /\ Pair[r] = NoRes => new[r] = cand[r]
               /\ Pair[r] # NoRes =>
                    /\ NODE_DEFAULT_VALUE \notin {cand[r], cand[Pair[r]]}
                          => new[Low(r)] <= new[High(r)]
                    /\ \A x \in {r, Pair[r]} :
                          cand[x] = NODE_DEFAULT_VALUE => new[x] = cand[x]
               /\ limit => new[r] <= cand[r]
               /\ limit /\ Pair[r] # NoRes => new[Pair[r]] <= cand[Pair[r]]
<1>1. \A x \in Res : cand[x] \in Int
  BY ValueBounds
<1>2. CASE Pair[r] = NoRes
  BY <1>1, <1>2 DEF PairCurrent
<1>3. CASE Pair[r] # NoRes
  <2> DEFINE lo == Low(r)  hi == High(r)  new == PairCurrent(r, cand, cur, limit)
  <2>1. lo \in Res /\ hi \in Res /\ lo # hi /\ {lo, hi} = {r, Pair[r]}
    BY <1>3, PairEnds
  <2>2. CASE NODE_DEFAULT_VALUE \in {cand[lo], cand[hi]} \/ cand[lo] <= cand[hi]
    <3>1. new[lo] = cand[lo] /\ new[hi] = cand[hi]
      BY <1>3, <2>1, <2>2 DEF PairCurrent
    <3> QED BY <1>1, <1>3, <2>1, <2>2, <3>1
  <2>3. CASE ~ (NODE_DEFAULT_VALUE \in {cand[lo], cand[hi]} \/ cand[lo] <= cand[hi])
    <3>1. new[lo] = (IF limit THEN cand[hi] ELSE cand[lo]) /\ new[hi] = new[lo]
      BY <1>3, <2>1, <2>3 DEF PairCurrent
    <3> QED BY <1>1, <1>3, <2>1, <2>3, <3>1
  <2> QED BY <2>2, <2>3
<1> QED BY <1>2, <1>3

\* What ArbitratePairRes makes of one resource depends on the candidates of the
\* two of its pair only, and not on which of the two it was called for.
LEMMA PairCurrentLocal ==
    ASSUME NEW r \in Res, NEW c1 \in [Res -> Candidates], NEW c2 \in [Res -> Candidates],
           NEW u1 \in [Res -> Candidates], NEW u2 \in [Res -> Candidates],
           NEW limit \in BOOLEAN,
           c1[r] = c2[r], Pair[r] # NoRes => c1[Pair[r]] = c2[Pair[r]]
    PROVE  /\ PairCurrent(r, c1, u1, limit)[r] = PairCurrent(r, c2, u2, limit)[r]
           /\ Pair[r] # NoRes =>
                PairCurrent(Pair[r], c1, u1, limit)[r] = PairCurrent(r, c2, u2, limit)[r]
<1>1. CASE Pair[r] = NoRes
  BY <1>1 DEF PairCurrent
<1>2. CASE Pair[r] # NoRes
  <2>1. /\ Low(r) \in Res /\ High(r) \in Res /\ Low(r) # High(r)
        /\ {Low(r), High(r)} = {r, Pair[r]} /\ Pair[r] \in Res /\ Pair[Pair[r]] # NoRes
        /\ Low(Pair[r]) = Low(r) /\ High(Pair[r]) = High(r)
    BY <1>2, PairEnds, ResConfigAssumption DEF PairAssumption
  <2>2. c1[Low(r)] = c2[Low(r)] /\ c1[High(r)] = c2[High(r)]
    BY <1>2, <2>1
  <2>3. r = Low(r) \/ r = High(r)
    BY <2>1
  <2> QED BY <1>2, <2>1, <2>2, <2>3 DEF PairCurrent
<1> QED BY <1>1, <1>2

\* Of the thermal level only matters whether it is 0, and of the lists of a
\* pair whether one of the two has a PERFLVL request.
LEMMA PerfLvlLimitLocal ==
    ASSUME NEW r \in Res, NEW c1, NEW c2, NEW lvl \in Int,
           c1[r]["perflvl"] = c2[r]["perflvl"],
           Pair[r] # NoRes => c1[Pair[r]]["perflvl"] = c2[Pair[r]]["perflvl"]
    PROVE  /\ PerfLvlLimit(r, c1, lvl) \in BOOLEAN
           /\ PerfLvlLimit(r, c1, lvl) = PerfLvlLimit(r, c2, IF lvl = 0 THEN 0 ELSE 1)
           /\ Pair[r] # NoRes =>
                PerfLvlLimit(Pair[r], c1, lvl)
                    = PerfLvlLimit(r, c2, IF lvl = 0 THEN 0 ELSE 1)
<1>1. Pair[r] # NoRes => Pair[Pair[r]] = r /\ r # NoRes /\ Pair[r] \in Res
  BY ResConfigAssumption DEF PairAssumption
<1> QED BY <1>1 DEF PerfLvlLimit

\* Only whether the thermal level is 0 matters to a candidate.
LEMMA ArbitratedCandidateLevel ==
    ASSUME NEW cv, NEW plb, NEW tlb, NEW lvl \in Int
    PROVE  ArbitratedCandidate(cv, plb, tlb, lvl)
               = ArbitratedCandidate(cv, plb, tlb, IF lvl = 0 THEN 0 ELSE 1)
BY DEF ArbitratedCandidate

-----------------------------------------------------------------------------
(* Requests and tasks *)

\* A request made by UpdateLimitStatus by value is a request.
LEMMA LimitItemIsItem == LimitItem(Value) \subseteq Item
<1>1. NoId \in Nat \X Nat /\ 0 \in Nat /\ MAX_INT_VALUE \in EndTime
  BY ValueBounds DEF NoId
<1> QED BY <1>1 DEF LimitItem, Item, ResAction, EventType

\* A sequence made element by element is a sequence of what its elements are.
LEMMA MakePackType ==
    ASSUME NEW n \in Nat, NEW now \in Now, NEW p \in Packs
    PROVE  MakePack(n, now, p) \in Seq(Item)
<1>1. p \in Seq(Template) /\ now \in Nat
  BY WrapAssumption
<1>2. Len(p) \in Nat
  BY <1>1
<1>3. ASSUME NEW k \in 1 .. Len(p) PROVE MakePack(n, now, p)[k] \in Item
  <2>1. p[k] \in Template
    BY <1>1
  <2>2. now + p[k].duration \in EndTime /\ MAX_INT_VALUE \in EndTime
    BY <2>1, <1>1, WrapAssumption, ValueBounds, ResConfigAssumption
       DEF EndTime, Template, ValueAssumption
  <2>3. NoId \in Nat \X Nat /\ <<n, k>> \in Nat \X Nat
    BY DEF NoId
  <2> QED BY <2>1, <2>2, <2>3 DEF MakePack, Item, ResAction, Template
<1>4. DOMAIN MakePack(n, now, p) = 1 .. Len(p)
  BY DEF MakePack
<1>5. MakePack(n, now, p) \in [1 .. Len(p) -> Item]
  BY <1>3, <1>4 DEF MakePack
<1> QED BY <1>2, <1>5, SeqDef

\* The actions of a weak interaction become requests.
LEMMA MakeWeakType ==
    ASSUME NEW p \in Seq(Template), NEW onOff \in EventType
    PROVE  MakeWeak(p, onOff) \in Seq(Item)
<1>2. Len(p) \in Nat
  OBVIOUS
<1>3. ASSUME NEW k \in 1 .. Len(p) PROVE MakeWeak(p, onOff)[k] \in Item
  <2>1. p[k] \in Template
    OBVIOUS
  <2>2. MAX_INT_VALUE \in EndTime /\ NoId \in Nat \X Nat
    BY ValueBounds DEF NoId
  <2> QED BY <2>1, <2>2 DEF MakeWeak, Item, ResAction, Template
<1>5. MakeWeak(p, onOff) \in [1 .. Len(p) -> Item]
  BY <1>3 DEF MakeWeak
<1> QED BY <1>2, <1>5, SeqDef

\* What the task of each kind carries.
LEMMA TaskFields ==
    ASSUME NEW t \in Task
    PROVE  /\ t.kind = "pack" => t.items \in Seq(Item)
           /\ t.kind = "freq" => t.item \in LimitItem(Value)
           /\ t.kind = "level" => t.item \in LimitItem(Level)
           /\ t.kind \in FlagKind => t.on \in BOOLEAN
           /\ t.kind = "delayed" => t.items \in SUBSET Item
           /\ t.kind = "weakTimer" => t.inter \in InterId
BY DEF Task, FlagKind, DelayedTaskSet, WeakTimerSet

\* Every task that is submitted is a task.
LEMMA TaskKinds ==
    /\ \A p \in Seq(Item) : PackTask(p) \in Task
    /\ \A S \in SUBSET Item : DelayedTask(S) \in DelayedTaskSet
    /\ \A i \in InterId : WeakTimer(i) \in WeakTimerSet
    /\ DelayedTaskSet \cup WeakTimerSet \subseteq Task
    /\ \A k \in FlagKind, on \in BOOLEAN : [kind |-> k, on |-> on] \in Task
    /\ [kind |-> "clear"] \in Task
    /\ \A l \in Limits : [kind |-> l.kind, item |-> MakeLimit(l.limit)] \in Task
<1>1. \A l \in FreqLimit : MakeLimit(l.limit) \in LimitItem(Value) /\ l.kind = "freq"
  BY DEF FreqLimit, LimitTemplate, MakeLimit, LimitItem
<1>2. \A l \in LevelLimit : MakeLimit(l.limit) \in LimitItem(Level) /\ l.kind = "level"
  BY DEF LevelLimit, LimitTemplate, MakeLimit, LimitItem
<1>3. \A l \in Limits : l \in FreqLimit \/ l \in LevelLimit
  BY WrapAssumption
<1>4. \A l \in Limits : [kind |-> l.kind, item |-> MakeLimit(l.limit)] \in Task
  BY <1>1, <1>2, <1>3 DEF Task
<1> QED BY <1>4 DEF Task, PackTask, DelayedTask, WeakTimer, DelayedTaskSet, WeakTimerSet

-----------------------------------------------------------------------------
(* Type correctness *)

\* What arbitration reads of a list of requests.
LEMMA ListsAreLists ==
    ASSUME NEW S \in SUBSET ResAction PROVE IsList(S)
BY DEF IsList, ResAction

\* What arbitrating r gives is of the right type, whatever the winners are.
LEMMA ArbitratedType ==
    ASSUME TypeOK, NEW r \in Res, NEW lvl2,
           NEW cvs \in [Res -> [ActionType -> Winning]],
           NEW ces \in [Res -> [ActionType -> EndTime]],
           NEW cand, cand = [candidate EXCEPT ![r] =
                        ArbitratedCandidate(cvs[r], powerLimitBoost, thermalLimitBoost,
                                            thermalLvl)]
    PROVE  /\ cand \in [Res -> Candidates]
           /\ PairCurrent(r, cand, currentValue, LimitFlag \/ PerfLvlLimit(r, cvs, lvl2))
                 \in [Res -> Candidates]
           /\ [currentEndTime EXCEPT ![r] = ArbitratedEndTime(ces[r])] \in [Res -> EndTime]
<1>1. ArbitratedCandidate(cvs[r], powerLimitBoost, thermalLimitBoost, thermalLvl)
        \in Candidates
  BY ArbitratedCandidateProperties DEF TypeOK
<1>2. cand \in [Res -> Candidates]
  BY <1>1 DEF TypeOK
<1>3. ArbitratedEndTime(ces[r]) \in EndTime
  BY ArbitratedEndTimeType
<1>4. [currentEndTime EXCEPT ![r] = ArbitratedEndTime(ces[r])] \in [Res -> EndTime]
  BY <1>3 DEF TypeOK
<1> DEFINE limit == LimitFlag \/ PerfLvlLimit(r, cvs, lvl2)
<1>5. limit \in BOOLEAN
  BY DEF LimitFlag, PerfLvlLimit, TypeOK
<1>6. PairCurrent(r, cand, currentValue, limit) \in [Res -> Candidates]
  BY <1>2, <1>5, PairCurrentType DEF TypeOK
<1> QED BY <1>2, <1>4, <1>6

\* ArbitrateCandidate leaves its variables in their types.
LEMMA ArbitrateCandidateType ==
    ASSUME TypeOK, NEW r \in Res, NEW lvl2,
           NEW cvs \in [Res -> [ActionType -> Winning]],
           NEW ces \in [Res -> [ActionType -> EndTime]],
           ArbitrateCandidate(r, cvs, ces, lvl2)
    PROVE  /\ candidate' \in [Res -> Candidates]
           /\ currentValue' \in [Res -> Candidates]
           /\ currentEndTime' \in [Res -> EndTime]
BY ArbitratedType DEF ArbitrateCandidate

\* UpdateCandidatesValue leaves its variables in their types.
LEMMA UpdateCandidatesType ==
    ASSUME TypeOK, NEW r \in Res, NEW t \in ActionType, NEW S \in SUBSET ResAction,
           NEW lvl2, UpdateCandidatesValue(r, t, S, lvl2)
    PROVE  /\ resActionList' \in [Res -> [ActionType -> SUBSET ResAction]]
           /\ candidatesValue' \in [Res -> [ActionType -> Winning]]
           /\ candidatesEndTime' \in [Res -> [ActionType -> EndTime]]
           /\ candidate' \in [Res -> Candidates]
           /\ currentValue' \in [Res -> Candidates]
           /\ currentEndTime' \in [Res -> EndTime]
<1> DEFINE cvs == [candidatesValue EXCEPT ![r][t] = CandValue(t, S)]
           ces == [candidatesEndTime EXCEPT ![r][t] = CandEndTime(t, S)]
<1>1. CandValue(t, S) \in Winning /\ CandEndTime(t, S) \in EndTime
  BY ListsAreLists, CandValueProperties, CandEndTimeType
<1>2. resActionList' \in [Res -> [ActionType -> SUBSET ResAction]]
  BY DEF TypeOK, UpdateCandidatesValue
<1>3. cvs \in [Res -> [ActionType -> Winning]] /\ candidatesValue' = cvs
  BY <1>1 DEF TypeOK, UpdateCandidatesValue
<1>4. ces \in [Res -> [ActionType -> EndTime]] /\ candidatesEndTime' = ces
  BY <1>1 DEF TypeOK, UpdateCandidatesValue
<1>5. \/ ArbitrateCandidate(r, cvs, ces, lvl2)
      \/ UNCHANGED results
  BY DEF UpdateCandidatesValue
<1>6. CASE ArbitrateCandidate(r, cvs, ces, lvl2)
  <2> HIDE DEF cvs, ces
  <2>1. /\ candidate' \in [Res -> Candidates]
        /\ currentValue' \in [Res -> Candidates]
        /\ currentEndTime' \in [Res -> EndTime]
    BY <1>3, <1>4, <1>6, ArbitratedType DEF ArbitrateCandidate
  <2> QED BY <1>2, <1>3, <1>4, <2>1
<1>7. CASE UNCHANGED results
  BY <1>2, <1>3, <1>4, <1>7 DEF TypeOK, results
<1> QED BY <1>5, <1>6, <1>7

\* The variables that only arbitration writes.
ArbitrationTyped ==
    /\ resActionList \in [Res -> [ActionType -> SUBSET ResAction]]
    /\ candidatesValue \in [Res -> [ActionType -> Winning]]
    /\ candidatesEndTime \in [Res -> [ActionType -> EndTime]]
    /\ candidate \in [Res -> Candidates]
    /\ currentValue \in [Res -> Candidates]
    /\ currentEndTime \in [Res -> EndTime]
    /\ boostResCnt \in Int

\* Applying a request leaves the variables in their types.
LEMMA ByInstantMsgType ==
    ASSUME TypeOK, NEW r \in Res, NEW a \in ResAction, NEW lvl2, ByInstantMsg(r, a, lvl2)
    PROVE  ArbitrationTyped'
<1> DEFINE S == resActionList[r][a.type]
<1>1. a.type \in ActionType /\ S \in SUBSET ResAction
  BY DEF TypeOK, ResAction
<1>2. Cnt(a) \in Int /\ boostResCnt \in Int
  BY DEF Cnt, TypeOK
<1>3. CASE UNCHANGED <<lists, results, boostResCnt>>
  BY <1>3 DEF TypeOK, ArbitrationTyped, lists, results
<1>4. ASSUME NEW T \in SUBSET ResAction, UpdateCandidatesValue(r, a.type, T, lvl2),
             boostResCnt' \in {boostResCnt, boostResCnt + Cnt(a), boostResCnt - Cnt(a)}
      PROVE  ArbitrationTyped'
  <2>1. boostResCnt' \in Int
    BY <1>2, <1>4
  <2>2. /\ resActionList' \in [Res -> [ActionType -> SUBSET ResAction]]
        /\ candidatesValue' \in [Res -> [ActionType -> Winning]]
        /\ candidatesEndTime' \in [Res -> [ActionType -> EndTime]]
        /\ candidate' \in [Res -> Candidates]
        /\ currentValue' \in [Res -> Candidates]
        /\ currentEndTime' \in [Res -> EndTime]
    BY <1>1, <1>4, UpdateCandidatesType
  <2> QED BY <2>1, <2>2 DEF ArbitrationTyped
<1>5. CASE HandleOff(r, a, lvl2)
  BY <1>1, <1>3, <1>4, <1>5 DEF HandleOff
<1>6. CASE HandleResAction(r, a, lvl2)
  BY <1>1, <1>4, <1>6 DEF HandleResAction
<1> QED BY <1>5, <1>6 DEF ByInstantMsg

\* Removing an expired request leaves the variables in their types.
LEMMA ByDelayedMsgType ==
    ASSUME TypeOK, NEW r \in Res, NEW a \in ResAction, NEW lvl2, ByDelayedMsg(r, a, lvl2)
    PROVE  ArbitrationTyped'
<1> DEFINE S == resActionList[r][a.type]
<1>1. a.type \in ActionType /\ S \in SUBSET ResAction
  BY DEF TypeOK, ResAction
<1>2. Cnt(a) \in Int /\ boostResCnt \in Int
  BY DEF Cnt, TypeOK
<1>3. CASE UNCHANGED <<lists, results, boostResCnt>>
  BY <1>3 DEF TypeOK, ArbitrationTyped, lists, results
<1>4. ASSUME NEW T \in SUBSET ResAction, UpdateCandidatesValue(r, a.type, T, lvl2),
             boostResCnt' = boostResCnt - Cnt(a)
      PROVE  ArbitrationTyped'
  <2>1. boostResCnt' \in Int
    BY <1>2, <1>4
  <2>2. /\ resActionList' \in [Res -> [ActionType -> SUBSET ResAction]]
        /\ candidatesValue' \in [Res -> [ActionType -> Winning]]
        /\ candidatesEndTime' \in [Res -> [ActionType -> EndTime]]
        /\ candidate' \in [Res -> Candidates]
        /\ currentValue' \in [Res -> Candidates]
        /\ currentEndTime' \in [Res -> EndTime]
    BY <1>1, <1>4, UpdateCandidatesType
  <2> QED BY <2>1, <2>2 DEF ArbitrationTyped
<1> QED BY <1>1, <1>3, <1>4 DEF ByDelayedMsg

\* What the worker and the callers do to the queue leaves it a queue of tasks.
LEMMA QueueTypes ==
    ASSUME NEW q \in Seq(Task)
    PROVE  /\ \A t \in Task : Append(q, t) \in Seq(Task)
           /\ q # <<>> => Head(q) \in Task /\ Tail(q) \in Seq(Task)
           /\ \A p \in Seq(Item) : Submit(q, p) \in Seq(Task)
           /\ \A k \in 1 .. Len(q) : RemoveAt(q, k) \in Seq(Task)
<1>1. \A p \in Seq(Item) : Submit(q, p) \in Seq(Task)
  BY TaskKinds DEF Submit
<1>2. ASSUME NEW k \in 1 .. Len(q) PROVE RemoveAt(q, k) \in Seq(Task)
  <2>1. Len(q) \in Nat /\ \A i \in 1 .. Len(q) : q[i] \in Task
    OBVIOUS
  <2>2. SubSeq(q, 1, k - 1) \in Seq(Task)
    <3>1. \A i \in 1 .. k - 1 : q[i] \in Task
      BY <2>1
    <3> QED BY <2>1, <3>1, SubSeqProperties
  <2>3. SubSeq(q, k + 1, Len(q)) \in Seq(Task)
    <3>1. \A i \in k + 1 .. Len(q) : q[i] \in Task
      BY <2>1
    <3> QED BY <2>1, <3>1, SubSeqProperties
  <2> QED BY <2>2, <2>3, ConcatProperties DEF RemoveAt
<1> QED BY <1>1, <1>2, HeadTailProperties, AppendProperties

\* The delayed tasks of a pack carry requests of that pack.
LEMMA DelayTasksType ==
    ASSUME NEW pack \in Seq(Item)
    PROVE  DelayTasks(pack) \subseteq DelayedTaskSet
<1>1. Timed(pack) \subseteq Item
  BY DEF Timed, Range
<1> QED BY <1>1 DEF DelayTasks, DelayedTask, DelayedTaskSet

\* A level gives at most one request, for a value the resource has.
LEMMA LevelItemsType ==
    ASSUME NEW it \in LimitItem(Level) PROVE LevelItems(it) \in Seq(Item)
<1>1. CASE HasLevel(it.res, it.act.value)
  <2> DEFINE v == ValueByLevel(it.res, it.act.value)
             new == [it EXCEPT !.act.value = v]
  <2>1. it.res \in Res /\ it.act.value \in Level
    BY DEF LimitItem
  <2>2. v \in Value
    BY <1>1, <2>1, WrapAssumption
  <2>3. new \in LimitItem(Value)
    <3> HIDE DEF v
    <3> QED BY <2>2 DEF LimitItem
  <2>4. new \in Item
    BY <2>3, LimitItemIsItem
  <2> QED BY <1>1, <2>4 DEF LevelItems
<1>2. CASE ~ HasLevel(it.res, it.act.value)
  BY <1>2 DEF LevelItems
<1> QED BY <1>1, <1>2

\* What a weak interaction submits is a sequence of requests.
LEMMA WeakActionsType ==
    ASSUME TypeOK, NEW i \in InterId PROVE WeakActions(i) \in Seq(Template)
BY WrapAssumption DEF TypeOK, WeakActions

LEMMA WeakItemsType ==
    ASSUME NEW i \in InterId, NEW m \in BOOLEAN, NEW onOff \in {EVENT_ON, EVENT_OFF}
    PROVE  MakeWeak(WeakTemplates[i][m], onOff) \in Seq(Item)
<1>1. WeakTemplates \in [InterId -> [BOOLEAN -> Seq(Template)]]
  BY WrapAssumption
<1>2. WeakTemplates[i][m] \in Seq(Template)
  BY <1>1
<1> QED BY <1>2, MakeWeakType DEF EventType

\* Initially every variable has the type of TypeOK.
LEMMA TypeInit == Init => TypeOK
<1> SUFFICES ASSUME Init PROVE TypeOK
  OBVIOUS
<1>1. MAX_INT_VALUE \in EndTime /\ INVALID_VALUE \in Winning
      /\ NODE_DEFAULT_VALUE \in Candidates
  BY ValueBounds DEF Winning, Candidates
<1>2. /\ resActionList \in [Res -> [ActionType -> SUBSET ResAction]]
      /\ candidatesValue \in [Res -> [ActionType -> Winning]]
      /\ candidatesEndTime \in [Res -> [ActionType -> EndTime]]
  BY <1>1 DEF Init
<1>3. /\ candidate \in [Res -> Candidates]
      /\ currentValue \in [Res -> Candidates]
      /\ currentEndTime \in [Res -> EndTime]
      /\ reported \in [Res -> [value : Candidates, endTime : EndTime]]
  BY <1>1 DEF Init
<1>4. queue \in Seq(Task) /\ items \in Seq(Item)
  BY DEF Init
<1>5. interStatus \in [InterId -> {BOOST_STATUS, BOOST_END_STATUS,
                                   WEAK_INTERACTION_STATUS}]
  BY DEF Init
<1>6. /\ timers \subseteq DelayedTaskSet \cup WeakTimerSet
      /\ posting \subseteq Seq(Item) /\ calls \in Nat
      /\ phase \in {"idle", "items", "late", "arbitrate", "clear", "inter"}
      /\ late \subseteq Item /\ todo \subseteq Res /\ nextInter \in Nat
  BY DEF Init
<1>7. /\ powerLimitBoost \in BOOLEAN /\ thermalLimitBoost \in BOOLEAN
      /\ weakInteractionStatus \in BOOLEAN /\ performanceModeStatus \in BOOLEAN
  BY Zenon DEF Init
<1>8. thermalLvl \in Int /\ boostResCnt \in Int
  BY DEF Init
<1>9. unlifted \in [InterId -> SUBSET Seq(Template)]
  BY DEF Init
<1> QED BY <1>2, <1>3, <1>4, <1>5, <1>6, <1>7, <1>8, <1>9 DEF TypeOK

\* A call leaves every variable in its type.
LEMMA TypeCaller == TypeOK /\ Caller => TypeOK'
<1> SUFFICES ASSUME TypeOK, Caller PROVE TypeOK'
  OBVIOUS
<1>0. queue \in Seq(Task) /\ calls \in Nat
  BY DEF TypeOK
<1>1. ASSUME NEW t \in Task, SubmitTask(t) PROVE TypeOK'
  <2>1. queue' \in Seq(Task) /\ calls' \in Nat
    BY <1>0, <1>1, QueueTypes DEF SubmitTask, Call
  <2> QED BY <1>1, <2>1
          DEF TypeOK, SubmitTask, work, lists, results, flags, modes
<1>2. CASE DoFreqActionPack
  <2>1. PICK p \in Packs, now \in Now :
          LET pack == MakePack(calls + 1, now, p)
          IN  /\ calls' = calls + 1
              /\ queue' = Append(queue, PackTask(pack))
              /\ posting' = IF DelayTasks(pack) = {} THEN posting
                                                    ELSE posting \cup {pack}
    BY <1>2 DEF DoFreqActionPack, Call
  <2>2. MakePack(calls + 1, now, p) \in Seq(Item)
    BY <1>0, MakePackType
  <2>3. calls' \in Nat /\ posting' \subseteq Seq(Item)
    BY <1>0, <2>1, <2>2 DEF TypeOK
  <2>4. PackTask(MakePack(calls + 1, now, p)) \in Task
    BY <2>2, TaskKinds
  <2>5. queue' \in Seq(Task)
    BY <1>0, <2>1, <2>4, QueueTypes
  <2> QED BY <1>2, <2>3, <2>5
          DEF TypeOK, DoFreqActionPack, work, lists, results, flags, modes
<1>3. CASE UpdateLimitStatus
  BY <1>1, <1>3, TaskKinds DEF UpdateLimitStatus
<1>4. ASSUME NEW kind \in FlagKind, SetFlag(kind) PROVE TypeOK'
  <2>1. PICK on \in BOOLEAN : SubmitTask([kind |-> kind, on |-> on])
    BY <1>4 DEF SetFlag
  <2> QED BY <1>1, <2>1, TaskKinds
<1>5. CASE \/ UpdatePowerLimitBoostFreq \/ UpdateThermalLimitBoostFreq
           \/ SetWeakInteractionStatus \/ SetPerformanceModeStatus
  BY <1>4, <1>5
     DEF UpdatePowerLimitBoostFreq, UpdateThermalLimitBoostFreq,
         SetWeakInteractionStatus, SetPerformanceModeStatus, FlagKind
<1>6. CASE ClearAllAliveRequest
  BY <1>1, <1>6, TaskKinds DEF ClearAllAliveRequest
<1>7. CASE SetThermalLevel
  <2>1. Level \subseteq Int
    BY WrapAssumption
  <2>2. thermalLvl' \in Level /\ calls' = calls + 1
    BY <1>7 DEF SetThermalLevel, Call
  <2>3. thermalLvl' \in Int /\ calls' \in Nat
    BY <1>0, <2>1, <2>2
  <2> QED BY <1>7, <2>3
          DEF TypeOK, SetThermalLevel, work, lists, results, flags, modes
<1> QED BY <1>2, <1>3, <1>5, <1>6, <1>7 DEF Caller

\* Taking a task leaves every variable in its type.
LEMMA TypeStart ==
    ASSUME TypeOK,
           \/ StartPack \/ DoFreqAction \/ DoFreqActionLevel \/ StartDelayed
           \/ StartPower \/ StartThermal \/ StartClear
           \/ StartWeakMode \/ StartPerfMode \/ StartWeakTimer
    PROVE  TypeOK'
<1> DEFINE t == Head(queue)
<1>1. PICK kind \in {"pack", "freq", "level", "delayed", "power", "thermal", "clear",
                     "weakmode", "perfmode", "weakTimer"} : Take(kind)
  BY DEF StartPack, DoFreqAction, DoFreqActionLevel, StartDelayed, StartPower,
         StartThermal, StartClear, StartWeakMode, StartPerfMode, StartWeakTimer
<1>2. queue \in Seq(Task) /\ queue # <<>>
  BY <1>1 DEF TypeOK, Take
<1>3. t \in Task /\ Tail(queue) \in Seq(Task)
  BY <1>2, QueueTypes
<1>4. /\ UNCHANGED <<timers, posting, calls, reported, thermalLvl, boostResCnt>>
      /\ UNCHANGED <<resActionList, candidatesValue, candidatesEndTime>>
      /\ UNCHANGED <<candidate, currentValue, currentEndTime>>
  BY <1>1 DEF Take, lists, results
<1> USE <1>3, <1>4
<1>5. CASE StartPack
  <2>1. items' \in Seq(Item)
    BY <1>5, TaskFields DEF StartPack, Take
  <2> QED BY <1>5, <2>1 DEF TypeOK, StartPack, flags, modes
<1>6. CASE DoFreqAction
  <2>1. t.item \in Item
    BY <1>6, TaskFields, LimitItemIsItem DEF DoFreqAction, Take
  <2>2. items' \in Seq(Item)
    BY <1>6, <2>1 DEF DoFreqAction
  <2> QED BY <1>6, <2>2 DEF TypeOK, DoFreqAction, flags, modes
<1>7. CASE DoFreqActionLevel
  <2>1. t.item \in LimitItem(Level)
    BY <1>7, TaskFields DEF DoFreqActionLevel, Take
  <2>2. LevelItems(t.item) \in Seq(Item)
    BY <2>1, LevelItemsType
  <2>3. items' \in Seq(Item)
    BY <1>7, <2>2 DEF DoFreqActionLevel
  <2> QED BY <1>7, <2>3 DEF TypeOK, DoFreqActionLevel, flags, modes
<1>8. CASE StartDelayed
  <2>1. late' \in SUBSET Item
    BY <1>8, TaskFields DEF StartDelayed, Take
  <2> QED BY <1>8, <2>1 DEF TypeOK, StartDelayed, flags, modes
<1>9. CASE StartPower
  <2>1. powerLimitBoost' \in BOOLEAN
    BY <1>9, TaskFields DEF StartPower, Take, FlagKind
  <2> QED BY <1>9, <2>1 DEF TypeOK, StartPower, modes
<1>10. CASE StartThermal
  <2>1. thermalLimitBoost' \in BOOLEAN
    BY <1>10, TaskFields DEF StartThermal, Take, FlagKind
  <2> QED BY <1>10, <2>1 DEF TypeOK, StartThermal, modes
<1>11. CASE StartClear
  BY <1>11 DEF TypeOK, StartClear, flags, modes
<1>12. CASE StartWeakMode
  <2>1. weakInteractionStatus' \in BOOLEAN
    BY <1>12, TaskFields DEF StartWeakMode, Take, FlagKind
  <2> QED BY <1>12, <2>1 DEF TypeOK, StartWeakMode, flags
<1>13. CASE StartPerfMode
  <2>1. performanceModeStatus' \in BOOLEAN
    BY <1>13, TaskFields DEF StartPerfMode, Take, FlagKind
  <2> QED BY <1>13, <2>1 DEF TypeOK, StartPerfMode, work, flags
<1>14. CASE StartWeakTimer
  <2>1. t.inter \in InterId
    BY <1>14, TaskFields DEF StartWeakTimer, Take
  <2>2. MakeWeak(WeakActions(t.inter), EVENT_ON) \in Seq(Item)
    BY <2>1, WeakItemsType DEF TypeOK, WeakActions
  <2>3. queue' \in Seq(Task)
    BY <1>14, <2>2, QueueTypes DEF StartWeakTimer
  <2>4. interStatus' \in [InterId -> {BOOST_STATUS, BOOST_END_STATUS,
                                      WEAK_INTERACTION_STATUS}]
    BY <1>14, <2>1 DEF StartWeakTimer, TypeOK
  <2>5. WeakActions(t.inter) \in Seq(Template)
    BY <2>1, WeakActionsType
  <2>6. unlifted' \in [InterId -> SUBSET Seq(Template)]
    BY <1>14, <2>1, <2>5 DEF StartWeakTimer, TypeOK
  <2> QED BY <1>14, <2>3, <2>4, <2>6 DEF TypeOK, StartWeakTimer, work, flags
<1> QED BY <1>5, <1>6, <1>7, <1>8, <1>9, <1>10, <1>11, <1>12, <1>13, <1>14

\* The second read of the thermal level leaves it a level.
LEMMA SecondReadType ==
    ASSUME TypeOK, NEW lvl2, lvl2 \in Level \cup {thermalLvl}, SecondRead(lvl2)
    PROVE  thermalLvl' \in Int /\ calls' \in Nat
<1>1. Level \subseteq Int
  BY WrapAssumption
<1>2. thermalLvl \in Int /\ calls \in Nat
  BY DEF TypeOK
<1>3. lvl2 \in Int
  BY <1>1, <1>2
<1> QED BY <1>2, <1>3 DEF SecondRead, Call

\* A step on one request or one resource leaves every variable in its type.
LEMMA TypeStep ==
    ASSUME TypeOK, StepItem \/ StepLate \/ StepArbitrate \/ StepClear
    PROVE  TypeOK'
<1> DEFINE Lvl2 == Level \cup {thermalLvl}
<1>1. PICK ph \in {"items", "late", "arbitrate", "clear"}, lvl2 \in Lvl2 :
        Step(ph) /\ SecondRead(lvl2)
  BY DEF StepItem, StepLate, StepArbitrate, StepClear
<1>2. thermalLvl' \in Int /\ calls' \in Nat
  BY <1>1, SecondReadType
<1>3. UNCHANGED <<queue, timers, posting, phase, nextInter, reported, flags,
                  modes, interStatus>>
  BY <1>1 DEF Step
<1>4. ASSUME ArbitrationTyped', items' \in Seq(Item), late' \in SUBSET Item,
             todo' \in SUBSET Res
      PROVE  TypeOK'
  BY <1>2, <1>3, <1>4 DEF TypeOK, ArbitrationTyped, flags, modes
<1>5. items \in Seq(Item) /\ late \in SUBSET Item /\ todo \in SUBSET Res
  BY DEF TypeOK
<1>6. CASE StepItem
  <2>1. PICK l2 : ByInstantMsg(Head(items).res, Head(items).act, l2)
    BY <1>6 DEF StepItem
  <2>2. Head(items) \in Item /\ Tail(items) \in Seq(Item)
    BY <1>5, <1>6, HeadTailProperties DEF StepItem
  <2>3. PICK r \in Res, a \in ResAction : ByInstantMsg(r, a, l2)
    BY <2>1, <2>2 DEF Item
  <2>4. ArbitrationTyped'
    BY <2>3, ByInstantMsgType
  <2>5. items' \in Seq(Item) /\ late' = late /\ todo' = todo
    BY <1>6, <2>2 DEF StepItem
  <2> QED BY <1>4, <1>5, <2>4, <2>5
<1>7. CASE StepLate
  <2>1. PICK it \in late, l2 \in Lvl2 :
          late' = late \ {it} /\ ByDelayedMsg(it.res, it.act, l2)
    BY <1>7 DEF StepLate
  <2>2. PICK r \in Res, a \in ResAction : ByDelayedMsg(r, a, l2)
    BY <1>5, <2>1 DEF Item
  <2>3. ArbitrationTyped'
    BY <2>2, ByDelayedMsgType
  <2>4. late' \in SUBSET Item /\ items' = items /\ todo' = todo
    BY <1>5, <1>7, <2>1 DEF StepLate
  <2> QED BY <1>4, <1>5, <2>3, <2>4
<1>8. CASE StepArbitrate
  <2>1. PICK r \in todo, l2 \in Lvl2 :
          /\ todo' = todo \ {r}
          /\ ArbitrateCandidate(r, candidatesValue, candidatesEndTime, l2)
    BY <1>8 DEF StepArbitrate
  <2>2. r \in Res /\ candidatesValue \in [Res -> [ActionType -> Winning]]
        /\ candidatesEndTime \in [Res -> [ActionType -> EndTime]]
    BY <1>5, <2>1 DEF TypeOK
  <2>3. /\ candidate' \in [Res -> Candidates]
        /\ currentValue' \in [Res -> Candidates]
        /\ currentEndTime' \in [Res -> EndTime]
    <3> DEFINE cvs == candidatesValue  ces == candidatesEndTime
    <3> QED BY <2>1, <2>2, ArbitratedType DEF ArbitrateCandidate
  <2>4. items' = items /\ late' = late /\ todo' \in SUBSET Res
    BY <1>5, <1>8, <2>1 DEF StepArbitrate
  <2>5. UNCHANGED <<resActionList, candidatesValue, candidatesEndTime, boostResCnt>>
    BY <1>8 DEF StepArbitrate, lists
  <2>6. ArbitrationTyped'
    BY <2>3, <2>5 DEF ArbitrationTyped, TypeOK
  <2> QED BY <1>4, <1>5, <2>4, <2>6
<1>9. CASE StepClear
  <2>1. PICK r \in todo, l2 \in Lvl2 :
          /\ todo' = todo \ {r}
          /\ UpdateCandidatesValue(r, "perf", {}, l2)
    BY <1>9 DEF StepClear
  <2>2. PICK S \in SUBSET ResAction, t \in ActionType :
          UpdateCandidatesValue(r, t, S, l2)
    BY <2>1 DEF ActionType
  <2>3. /\ resActionList' \in [Res -> [ActionType -> SUBSET ResAction]]
        /\ candidatesValue' \in [Res -> [ActionType -> Winning]]
        /\ candidatesEndTime' \in [Res -> [ActionType -> EndTime]]
        /\ candidate' \in [Res -> Candidates]
        /\ currentValue' \in [Res -> Candidates]
        /\ currentEndTime' \in [Res -> EndTime]
    BY <1>5, <2>2, UpdateCandidatesType
  <2>4. /\ items' = items /\ late' = late /\ todo' \in SUBSET Res
        /\ boostResCnt' = boostResCnt
    BY <1>5, <1>9, <2>1 DEF StepClear
  <2>5. ArbitrationTyped'
    BY <2>3, <2>4 DEF ArbitrationTyped, TypeOK
  <2> QED BY <1>4, <1>5, <2>4, <2>5
<1> QED BY <1>6, <1>7, <1>8, <1>9

\* Reporting and the weak interaction leave every variable in its type.
LEMMA TypeFinish ==
    ASSUME TypeOK, SendResStatus \/ WeakInteraction \/ FinishTask
    PROVE  TypeOK'
<1> DEFINE Status == {BOOST_STATUS, BOOST_END_STATUS, WEAK_INTERACTION_STATUS}
<1>1. CASE SendResStatus
  <2>1. reported' \in [Res -> [value : Candidates, endTime : EndTime]]
    BY <1>1 DEF SendResStatus, TypeOK
  <2>2. phase' = "inter" /\ nextInter' \in Nat
    BY <1>1 DEF SendResStatus
  <2> QED BY <1>1, <2>1, <2>2
          DEF TypeOK, SendResStatus, sched, lists, results, flags, modes
<1>2. ASSUME NEW i \in InterId, Inter(i), interStatus' \in [InterId -> Status],
             queue' \in Seq(Task), timers' \subseteq DelayedTaskSet \cup WeakTimerSet,
             unlifted' \in [InterId -> SUBSET Seq(Template)]
      PROVE  TypeOK'
  <2>1. nextInter' \in Nat
    BY <1>2 DEF Inter, TypeOK
  <2> QED BY <1>2, <2>1 DEF TypeOK, Inter, lists, results, flags
<1>3. queue \in Seq(Task) /\ timers \subseteq DelayedTaskSet \cup WeakTimerSet
      /\ interStatus \in [InterId -> Status]
      /\ unlifted \in [InterId -> SUBSET Seq(Template)]
  BY DEF TypeOK
<1>4. ASSUME NEW i \in InterId, BoostEnds(i) PROVE TypeOK'
  <2>1. WeakTimer(i) \in WeakTimerSet
    BY TaskKinds
  <2> QED BY <1>2, <1>3, <1>4, <2>1 DEF BoostEnds
<1>5. ASSUME NEW i \in InterId, LiftWeak(i) PROVE TypeOK'
  <2>1. MakeWeak(WeakActions(i), EVENT_OFF) \in Seq(Item)
    BY WeakItemsType DEF TypeOK, WeakActions
  <2>2. queue' \in Seq(Task)
    BY <1>3, <1>5, <2>1, QueueTypes DEF LiftWeak
  <2> QED BY <1>2, <1>3, <1>5, <2>2 DEF LiftWeak
<1>6. ASSUME NEW i \in InterId, CancelWeakTimer(i) PROVE TypeOK'
  <2>1. queue' \in Seq(Task)
    BY <1>3, <1>6, QueueTypes DEF CancelWeakTimer, CancelTask
  <2>2. timers' \subseteq DelayedTaskSet \cup WeakTimerSet
    BY <1>3, <1>6 DEF CancelWeakTimer, CancelTask
  <2> QED BY <1>2, <1>3, <1>6, <2>1, <2>2 DEF CancelWeakTimer
<1>7. ASSUME NEW i \in InterId, KeepInter(i) PROVE TypeOK'
  BY <1>2, <1>3, <1>7 DEF KeepInter
<1>8. CASE FinishTask
  BY <1>8 DEF TypeOK, FinishTask, sched, lists, results, flags, modes
<1> QED BY <1>1, <1>4, <1>5, <1>6, <1>7, <1>8 DEF WeakInteraction

\* Posting a delayed task, and its delay ending, leave every variable in its type.
LEMMA TypeTimers == ASSUME TypeOK, PostSome \/ ElapseSome PROVE TypeOK'
<1>1. CASE PostSome
  <2>1. PICK p \in posting : PostDelayTask(p)
    BY <1>1 DEF PostSome
  <2>2. p \in Seq(Item)
    BY <2>1 DEF TypeOK
  <2>3. DelayTasks(p) \subseteq DelayedTaskSet
    BY <2>2, DelayTasksType
  <2> QED BY <2>1, <2>3
          DEF TypeOK, PostDelayTask, work, lists, results, flags, modes
<1>2. CASE ElapseSome
  <2>1. PICK t \in timers : Elapse(t)
    BY <1>2 DEF ElapseSome
  <2>2. t \in Task
    BY <2>1, TaskKinds DEF TypeOK
  <2>3. queue' \in Seq(Task)
    BY <2>1, <2>2, QueueTypes DEF TypeOK, Elapse
  <2> QED BY <2>1, <2>3 DEF TypeOK, Elapse, work, lists, results, flags, modes
<1> QED BY <1>1, <1>2

\* Every step leaves every variable in its type.
LEMMA TypeNext == TypeOK /\ [Next]_vars => TypeOK'
<1> SUFFICES ASSUME TypeOK, [Next]_vars PROVE TypeOK'
  OBVIOUS
<1>1. CASE Caller
  BY <1>1, TypeCaller
<1>2. CASE Worker
  BY <1>2, TypeStart, TypeStep, TypeFinish DEF Worker
<1>3. CASE PostSome \/ ElapseSome
  BY <1>3, TypeTimers
<1>4. CASE UNCHANGED vars
  BY <1>4 DEF TypeOK, vars, sched, work, lists, results, flags, modes
<1> QED BY <1>1, <1>2, <1>3, <1>4 DEF Next

\* In every reachable state, of any configuration and however many calls are
\* made, what the worker, the callers and the timers keep is well formed; in
\* particular no level that a resource does not have becomes a value
\* (GetResValueByLevel).
THEOREM TypeCorrect == Spec => []TypeOK
<1>1. Init => TypeOK
  BY TypeInit
<1>2. TypeOK /\ [Next]_vars => TypeOK'
  BY TypeNext
<1> QED BY <1>1, <1>2, PTL DEF Spec

-----------------------------------------------------------------------------
(* The steps of the system, as far as arbitration can tell them apart          *)

\* No request, winner or result changes, nor what the executor was told.
Quiet ==
    /\ UNCHANGED <<resActionList, candidatesValue, candidatesEndTime>>
    /\ UNCHANGED <<candidate, currentValue, currentEndTime>>
    /\ UNCHANGED <<reported, powerLimitBoost, thermalLimitBoost>>
    /\ phase = "arbitrate" => phase' = phase /\ todo' = todo
    /\ phase \in {"idle", "inter"} \/ phase' \notin {"idle", "inter"}

\* A limit is switched: every resource is to be arbitrated.
SwitchLimit ==
    /\ UNCHANGED <<resActionList, candidatesValue, candidatesEndTime>>
    /\ UNCHANGED <<candidate, currentValue, currentEndTime>>
    /\ UNCHANGED reported
    /\ \/ powerLimitBoost' \in BOOLEAN /\ UNCHANGED thermalLimitBoost
       \/ thermalLimitBoost' \in BOOLEAN /\ UNCHANGED powerLimitBoost
    /\ phase = "idle" /\ phase' = "arbitrate" /\ todo' = Res

\* The list of (r, t) becomes S, in a task that goes on.
Update(r, t, S, lvl2) ==
    /\ UpdateCandidatesValue(r, t, S, lvl2)
    /\ UNCHANGED <<reported, powerLimitBoost, thermalLimitBoost>>
    /\ phase \in {"items", "late", "clear"} /\ phase' = phase

\* One resource is arbitrated after a limit was switched.
Arbitrate(r, lvl2) ==
    /\ ArbitrateCandidate(r, candidatesValue, candidatesEndTime, lvl2)
    /\ UNCHANGED <<resActionList, candidatesValue, candidatesEndTime>>
    /\ UNCHANGED <<reported, powerLimitBoost, thermalLimitBoost>>
    /\ phase = "arbitrate" /\ phase' = phase /\ r \in todo /\ todo' = todo \ {r}

NoTwoSame(S) == \A a, b \in S : a # b => ~ TotalSame(a, b)

\* A list L of type t becomes S: cleared, or one request less, or one more, in the
\* place of an equal one if there is one.
ListChange(L, t, S) ==
    \/ t = "perf" /\ S = {}
    \/ \E b \in L : S = L \ {b}
    \/ \E a \in S : /\ a.type = t
                    /\ \/ Replaced(a, L) = {} /\ S = L \cup {a}
                       \/ \E b \in Replaced(a, L) : S = (L \ {b}) \cup {a}

\* A list without two equal requests becomes such a list.
LEMMA ListsStayDistinct ==
    ASSUME NEW L, NEW t, NEW S, NoTwoSame(L), ListChange(L, t, S)
    PROVE  NoTwoSame(S)
<1>1. \A x, y, z : /\ TotalSame(x, y) => TotalSame(y, x)
                   /\ TotalSame(x, y) /\ TotalSame(x, z) => TotalSame(y, z)
  BY DEF TotalSame, PartSame
<1>2. ASSUME NEW a, Replaced(a, L) = {}, S = L \cup {a} PROVE NoTwoSame(S)
  BY <1>1, <1>2 DEF NoTwoSame, Replaced
<1>3. ASSUME NEW a, NEW b \in Replaced(a, L), S = (L \ {b}) \cup {a} PROVE NoTwoSame(S)
  <2>1. b \in L /\ TotalSame(a, b)
    BY DEF Replaced
  <2>2. \A c \in L \ {b} : ~ TotalSame(a, c) /\ ~ TotalSame(c, a)
    BY <1>1, <2>1 DEF NoTwoSame
  <2> QED BY <1>1, <1>3, <2>2 DEF NoTwoSame
<1>4. CASE S = {} \/ \E b \in L : S = L \ {b}
  BY <1>4 DEF NoTwoSame
<1> QED BY <1>2, <1>3, <1>4 DEF ListChange

\* An update of a list, or a step that arbitration does not notice.
UpdateOrNot(r, t, lvl2) ==
    \/ UNCHANGED <<lists, results>>
    \/ \E S \in SUBSET ResAction :
          /\ UpdateCandidatesValue(r, t, S, lvl2)
          /\ ListChange(resActionList[r][t], t, S)

\* A request applied changes at most the list of its resource and type, by an update.
LEMMA ByInstantMsgUpdates ==
    ASSUME TypeOK, NEW r \in Res, NEW a \in ResAction, NEW lvl2, ByInstantMsg(r, a, lvl2)
    PROVE  UpdateOrNot(r, a.type, lvl2)
<1> DEFINE S == resActionList[r][a.type]
<1>1. S \in SUBSET ResAction
  BY DEF TypeOK, ResAction
<1>2. ASSUME NEW T \in SUBSET ResAction, UpdateCandidatesValue(r, a.type, T, lvl2),
             ListChange(S, a.type, T)
      PROVE  UpdateOrNot(r, a.type, lvl2)
  BY <1>2 DEF UpdateOrNot
<1>3. CASE HandleOff(r, a, lvl2)
  <2>1. CASE UNCHANGED <<lists, results>>
    BY <2>1 DEF UpdateOrNot
  <2>2. CASE \E b \in S : UpdateCandidatesValue(r, a.type, S \ {b}, lvl2)
    BY <1>1, <1>2, <2>2 DEF ListChange
  <2> QED BY <1>3, <2>1, <2>2 DEF HandleOff
<1>4. CASE HandleResAction(r, a, lvl2)
  <2>1. CASE Replaced(a, S) = {} /\ UpdateCandidatesValue(r, a.type, S \cup {a}, lvl2)
    BY <1>1, <1>2, <2>1 DEF ListChange
  <2>2. CASE \E b \in Replaced(a, S) :
               UpdateCandidatesValue(r, a.type, (S \ {b}) \cup {a}, lvl2)
    BY <1>1, <1>2, <2>2 DEF ListChange
  <2> QED BY <1>4, <2>1, <2>2 DEF HandleResAction
<1> QED BY <1>3, <1>4 DEF ByInstantMsg

\* So does a request that expires.
LEMMA ByDelayedMsgUpdates ==
    ASSUME TypeOK, NEW r \in Res, NEW a \in ResAction, NEW lvl2, ByDelayedMsg(r, a, lvl2)
    PROVE  UpdateOrNot(r, a.type, lvl2)
<1> DEFINE S == resActionList[r][a.type]
<1>1. S \in SUBSET ResAction
  BY DEF TypeOK, ResAction
<1>2. ASSUME NEW T \in SUBSET ResAction, UpdateCandidatesValue(r, a.type, T, lvl2),
             ListChange(S, a.type, T)
      PROVE  UpdateOrNot(r, a.type, lvl2)
  BY <1>2 DEF UpdateOrNot
<1>3. CASE UNCHANGED <<lists, results>>
  BY <1>3 DEF UpdateOrNot
<1>4. CASE \E b \in S : UpdateCandidatesValue(r, a.type, S \ {b}, lvl2)
  BY <1>1, <1>2, <1>4 DEF ListChange
<1> QED BY <1>3, <1>4 DEF ByDelayedMsg, Expired

\* Steps that leave lists, switches and results alone leave all they determine.
LEMMA QuietSteps ==
    ASSUME \/ Caller \/ PostSome \/ ElapseSome \/ UNCHANGED vars
           \/ StartPack \/ DoFreqAction \/ DoFreqActionLevel \/ StartDelayed
           \/ StartClear \/ StartWeakMode \/ StartPerfMode \/ StartWeakTimer
           \/ WeakInteraction \/ FinishTask
    PROVE  Quiet
<1> USE DEF Quiet, lists, results, flags
<1>1. CASE PostSome \/ ElapseSome \/ UNCHANGED vars
  BY <1>1 DEF PostSome, PostDelayTask, ElapseSome, Elapse, vars, sched, work
<1>2. ASSUME NEW t, SubmitTask(t) PROVE Quiet
  BY <1>2 DEF SubmitTask, work
<1>3. CASE Caller
  <2>1. CASE DoFreqActionPack \/ SetThermalLevel
    BY <2>1 DEF DoFreqActionPack, SetThermalLevel, work
  <2>2. CASE UpdateLimitStatus \/ ClearAllAliveRequest
    BY <1>2, <2>2 DEF UpdateLimitStatus, ClearAllAliveRequest
  <2>3. ASSUME NEW kind, SetFlag(kind) PROVE Quiet
    BY <1>2, <2>3 DEF SetFlag
  <2> QED BY <1>3, <2>1, <2>2, <2>3
          DEF Caller, UpdatePowerLimitBoostFreq, UpdateThermalLimitBoostFreq,
              SetWeakInteractionStatus, SetPerformanceModeStatus
<1>4. CASE StartPack \/ DoFreqAction \/ DoFreqActionLevel \/ StartDelayed \/ StartClear
  BY <1>4 DEF StartPack, DoFreqAction, DoFreqActionLevel, StartDelayed, StartClear, Take
<1>5. CASE StartWeakMode \/ StartPerfMode \/ StartWeakTimer
  BY <1>5 DEF StartWeakMode, StartPerfMode, StartWeakTimer, Take, work
<1>6. CASE WeakInteraction
  <2>1. PICK i : Inter(i)
    BY <1>6 DEF WeakInteraction, BoostEnds, LiftWeak, CancelWeakTimer, KeepInter
  <2> QED BY <2>1 DEF Inter
<1>7. CASE FinishTask
  BY <1>7 DEF FinishTask
<1> QED BY <1>1, <1>3, <1>4, <1>5, <1>6, <1>7

\* Whatever happens, it is one of these.
LEMMA StepKinds ==
    ASSUME TypeOK, [Next]_vars
    PROVE  \/ Quiet \/ SwitchLimit \/ SendResStatus
           \/ \E r \in Res, lvl2 \in Int : Arbitrate(r, lvl2)
           \/ \E r \in Res, t \in ActionType, S \in SUBSET ResAction, lvl2 \in Int :
                 Update(r, t, S, lvl2) /\ ListChange(resActionList[r][t], t, S)
<1> DEFINE SomeUpdate ==
             \E r \in Res, t \in ActionType, S \in SUBSET ResAction, lvl2 \in Int :
                Update(r, t, S, lvl2) /\ ListChange(resActionList[r][t], t, S)
           Lvl2 == Level \cup {thermalLvl}
<1>1. Lvl2 \subseteq Int
  <2>1. Level \subseteq Int
    BY WrapAssumption
  <2> QED BY <2>1 DEF TypeOK
<1>2. ASSUME NEW r \in Res, NEW t \in ActionType, NEW lvl2 \in Int,
             UpdateOrNot(r, t, lvl2), NEW ph \in {"items", "late", "clear"}, Step(ph)
      PROVE  Quiet \/ SomeUpdate
  <2>1. /\ UNCHANGED <<reported, powerLimitBoost, thermalLimitBoost>>
        /\ phase \in {"items", "late", "clear"} /\ phase' = phase
    BY <1>2 DEF Step, flags
  <2>2. CASE UNCHANGED <<lists, results>>
    BY <2>1, <2>2 DEF Quiet, lists, results
  <2>3. ASSUME NEW S \in SUBSET ResAction, UpdateCandidatesValue(r, t, S, lvl2),
               ListChange(resActionList[r][t], t, S)
        PROVE  SomeUpdate
    <3>1. Update(r, t, S, lvl2)
      BY <2>1, <2>3 DEF Update
    <3> QED BY <2>3, <3>1
  <2> QED BY <1>2, <2>2, <2>3 DEF UpdateOrNot
<1>3. CASE StepItem
  <2>1. PICK l2 \in Lvl2 : ByInstantMsg(Head(items).res, Head(items).act, l2)
    BY <1>3 DEF StepItem
  <2>2. Head(items) \in Item
    BY <1>3, HeadTailProperties DEF StepItem, TypeOK
  <2>3. PICK r \in Res, a \in ResAction : ByInstantMsg(r, a, l2)
    BY <2>1, <2>2 DEF Item
  <2>4. UpdateOrNot(r, a.type, l2) /\ a.type \in ActionType
    BY <2>3, ByInstantMsgUpdates DEF ResAction
  <2> QED BY <1>1, <1>2, <1>3, <2>4 DEF StepItem
<1>4. CASE StepLate
  <2>1. PICK it \in late, l2 \in Lvl2 : ByDelayedMsg(it.res, it.act, l2)
    BY <1>4 DEF StepLate
  <2>2. it \in Item
    BY <2>1 DEF TypeOK
  <2>3. PICK r \in Res, a \in ResAction : ByDelayedMsg(r, a, l2)
    BY <2>1, <2>2 DEF Item
  <2>4. UpdateOrNot(r, a.type, l2) /\ a.type \in ActionType
    BY <2>3, ByDelayedMsgUpdates DEF ResAction
  <2> QED BY <1>1, <1>2, <1>4, <2>4 DEF StepLate
<1>5. CASE StepClear
  <2>1. PICK r \in todo, l2 \in Lvl2 : UpdateCandidatesValue(r, "perf", {}, l2)
    BY <1>5 DEF StepClear
  <2>2. r \in Res /\ "perf" \in ActionType /\ {} \in SUBSET ResAction
    BY <2>1 DEF TypeOK, ActionType
  <2>3. UpdateOrNot(r, "perf", l2)
    BY <2>1, <2>2 DEF UpdateOrNot, ListChange
  <2> QED BY <1>1, <1>2, <1>5, <2>2, <2>3 DEF StepClear
<1>6. CASE StepArbitrate
  <2>1. PICK r \in todo, l2 \in Lvl2 :
          /\ todo' = todo \ {r}
          /\ ArbitrateCandidate(r, candidatesValue, candidatesEndTime, l2)
    BY <1>6 DEF StepArbitrate
  <2>2. r \in Res /\ l2 \in Int
    BY <1>1, <2>1 DEF TypeOK
  <2>3. Arbitrate(r, l2)
    BY <1>6, <2>1 DEF Arbitrate, StepArbitrate, Step, lists, flags
  <2> QED BY <2>2, <2>3
<1>7. CASE StartPower \/ StartThermal
  <2>1. Head(queue) \in Task
    BY <1>7, HeadTailProperties DEF StartPower, StartThermal, Take, TypeOK
  <2>2. Head(queue).on \in BOOLEAN
    BY <1>7, <2>1, TaskFields DEF StartPower, StartThermal, Take, FlagKind
  <2> QED BY <1>7, <2>2 DEF SwitchLimit, StartPower, StartThermal, Take, lists, results
<1> QED BY QuietSteps, <1>3, <1>4, <1>5, <1>6, <1>7 DEF Next, Worker

-----------------------------------------------------------------------------
(* The winners, and the lists without doubles *)

\* Every step keeps the winners those of the lists.
LEMMA MatchNext == TypeOK /\ CandidatesMatchLists /\ [Next]_vars => CandidatesMatchLists'
<1> SUFFICES ASSUME TypeOK, CandidatesMatchLists, [Next]_vars
             PROVE  CandidatesMatchLists'
  OBVIOUS
<1>1. CASE Quiet \/ SwitchLimit
  BY <1>1 DEF CandidatesMatchLists, Quiet, SwitchLimit
<1>2. CASE SendResStatus
  BY <1>2 DEF CandidatesMatchLists, SendResStatus, lists
<1>3. ASSUME NEW r, NEW lvl2, Arbitrate(r, lvl2) PROVE CandidatesMatchLists'
  BY <1>3 DEF CandidatesMatchLists, Arbitrate
<1>4. ASSUME NEW r \in Res, NEW t \in ActionType, NEW S \in SUBSET ResAction, NEW lvl2,
             UpdateCandidatesValue(r, t, S, lvl2)
      PROVE  CandidatesMatchLists'
  <2> SUFFICES ASSUME NEW x \in Res, NEW u \in ActionType
               PROVE  /\ candidatesValue'[x][u] = CandValue(u, resActionList'[x][u])
                      /\ candidatesEndTime'[x][u] = CandEndTime(u, resActionList'[x][u])
    BY DEF CandidatesMatchLists
  <2>1. /\ resActionList' = [resActionList EXCEPT ![r][t] = S]
        /\ candidatesValue' = [candidatesValue EXCEPT ![r][t] = CandValue(t, S)]
        /\ candidatesEndTime' = [candidatesEndTime EXCEPT ![r][t] = CandEndTime(t, S)]
    BY <1>4 DEF UpdateCandidatesValue
  <2>2. CASE x = r /\ u = t
    BY <2>1, <2>2 DEF TypeOK
  <2>3. CASE x # r \/ u # t
    BY <2>1, <2>3 DEF TypeOK, CandidatesMatchLists
  <2> QED BY <2>2, <2>3
<1> QED BY <1>1, <1>2, <1>3, <1>4, StepKinds DEF Update

\* The winner of every list is up to date after every step, for any
\* configuration (UpdateCandidatesValue follows every change of a list).
THEOREM WinnersCorrect == Spec => []CandidatesMatchLists
<1>1. Init => CandidatesMatchLists
  BY DEF Init, CandidatesMatchLists, CandValue, CandEndTime
<1>2. TypeOK /\ CandidatesMatchLists /\ [Next]_vars => CandidatesMatchLists'
  BY MatchNext
<1> QED BY <1>1, <1>2, TypeCorrect, PTL DEF Spec

\* No step puts the same request twice into a list.
LEMMA DistinctNext == TypeOK /\ NoTwoTotalSame /\ [Next]_vars => NoTwoTotalSame'
<1> SUFFICES ASSUME TypeOK, NoTwoTotalSame, [Next]_vars PROVE NoTwoTotalSame'
  OBVIOUS
<1>1. CASE Quiet \/ SwitchLimit
  BY <1>1 DEF NoTwoTotalSame, Quiet, SwitchLimit
<1>2. CASE SendResStatus
  BY <1>2 DEF NoTwoTotalSame, SendResStatus, lists
<1>3. ASSUME NEW r, NEW lvl2, Arbitrate(r, lvl2) PROVE NoTwoTotalSame'
  BY <1>3 DEF NoTwoTotalSame, Arbitrate
<1>4. ASSUME NEW r \in Res, NEW t \in ActionType, NEW S \in SUBSET ResAction, NEW lvl2,
             UpdateCandidatesValue(r, t, S, lvl2),
             ListChange(resActionList[r][t], t, S)
      PROVE  NoTwoTotalSame'
  <2>1. \A x \in Res, u \in ActionType : NoTwoSame(resActionList[x][u])
    BY DEF NoTwoTotalSame, NoTwoSame
  <2>2. resActionList' = [resActionList EXCEPT ![r][t] = S] /\ NoTwoSame(S)
    BY <1>4, <2>1, ListsStayDistinct DEF UpdateCandidatesValue
  <2>3. ASSUME NEW x \in Res, NEW u \in ActionType PROVE NoTwoSame(resActionList'[x][u])
    <3>1. CASE x = r /\ u = t
      BY <2>2, <3>1 DEF TypeOK
    <3>2. CASE x # r \/ u # t
      BY <2>1, <2>2, <3>2 DEF TypeOK
    <3> QED BY <3>1, <3>2
  <2> QED BY <2>3 DEF NoTwoTotalSame, NoTwoSame
<1> QED BY <1>1, <1>2, <1>3, <1>4, StepKinds DEF Update

\* No list ever holds the same request twice, so that an OFF ends it.
THEOREM NoDoubles == Spec => []NoTwoTotalSame
<1>1. Init => NoTwoTotalSame
  BY DEF Init, NoTwoTotalSame
<1>2. TypeOK /\ NoTwoTotalSame /\ [Next]_vars => NoTwoTotalSame'
  BY DistinctNext
<1> QED BY <1>1, <1>2, TypeCorrect, PTL DEF Spec

-----------------------------------------------------------------------------
(* Arbitration *)

\* r was just arbitrated, with the winners as they are after the step.
JustArbitrated(r, lvl2) ==
    /\ candidate' = [candidate EXCEPT ![r] =
          ArbitratedCandidate(candidatesValue'[r], powerLimitBoost, thermalLimitBoost,
                              thermalLvl)]
    /\ currentEndTime' = [currentEndTime EXCEPT ![r] =
          ArbitratedEndTime(candidatesEndTime'[r])]
    /\ currentValue' = PairCurrent(r, candidate', currentValue,
          LimitFlag \/ PerfLvlLimit(r, candidatesValue', lvl2))
    /\ UNCHANGED <<powerLimitBoost, thermalLimitBoost, reported>>
    /\ candidatesValue' \in [Res -> [ActionType -> Winning]]
    /\ candidatesEndTime' \in [Res -> [ActionType -> EndTime]]
    /\ candidate' \in [Res -> Candidates] /\ currentValue' \in [Res -> Candidates]
    /\ \A x \in Res : x # r => /\ candidatesValue'[x] = candidatesValue[x]
                               /\ candidatesEndTime'[x] = candidatesEndTime[x]

\* Arbitrating r brings r and its pair in line, and disturbs no other resource.
LEMMA ArbitrateOne ==
    ASSUME TypeOK, NEW r \in Res, NEW lvl2 \in Int, JustArbitrated(r, lvl2)
    PROVE  /\ CandidateArbitrated(r)'
           /\ CurrentArbitrated(r)'
           /\ Pair[r] # NoRes => CurrentArbitrated(Pair[r])'
           /\ currentEndTime'[r] = ArbitratedEndTime(candidatesEndTime'[r])
           /\ CurrentOrdered(r)' /\ (Pair[r] # NoRes => CurrentOrdered(Pair[r])')
<1> DEFINE cand2 == candidate'  cvs2 == candidatesValue'  p == Pair[r]
           limit == LimitFlag \/ PerfLvlLimit(r, cvs2, lvl2)
           bit == IF lvl2 = 0 THEN 0 ELSE 1
           new == PairCurrent(r, cand2, currentValue, limit)
<1>1. /\ candidate \in [Res -> Candidates] /\ currentValue \in [Res -> Candidates]
      /\ currentEndTime \in [Res -> EndTime] /\ thermalLvl \in Int
      /\ powerLimitBoost \in BOOLEAN /\ thermalLimitBoost \in BOOLEAN
      /\ cand2 \in [Res -> Candidates]
  BY DEF TypeOK, JustArbitrated
<1>2. /\ UNCHANGED <<powerLimitBoost, thermalLimitBoost>>
      /\ currentValue' = new
      /\ cand2[r] = ArbitratedCandidate(cvs2[r], powerLimitBoost, thermalLimitBoost,
                                        thermalLvl)
  BY <1>1 DEF JustArbitrated
<1>3. CandidateArbitrated(r)'
  <2> DEFINE b == IF thermalLvl = 0 THEN 0 ELSE 1
  <2>1. b \in {0, 1}
    OBVIOUS
  <2>2. cand2[r] = ArbitratedCandidate(cvs2[r], powerLimitBoost, thermalLimitBoost, b)
    BY <1>1, <1>2, ArbitratedCandidateLevel
  <2> HIDE DEF b
  <2> QED BY <1>2, <2>1, <2>2 DEF CandidateArbitrated
<1>4. currentEndTime'[r] = ArbitratedEndTime(candidatesEndTime'[r])
  BY <1>1 DEF JustArbitrated
<1>5. /\ limit \in BOOLEAN /\ bit \in {0, 1}
      /\ limit = (LimitFlag \/ PerfLvlLimit(r, cvs2, bit))
      /\ p # NoRes => limit = (LimitFlag \/ PerfLvlLimit(p, cvs2, bit))
  <2>1. /\ PerfLvlLimit(r, cvs2, lvl2) \in BOOLEAN
        /\ PerfLvlLimit(r, cvs2, lvl2) = PerfLvlLimit(r, cvs2, bit)
    BY PerfLvlLimitLocal
  <2>2. p # NoRes => PerfLvlLimit(p, cvs2, bit) = PerfLvlLimit(r, cvs2, bit)
    <3>1. bit \in Int /\ bit = IF bit = 0 THEN 0 ELSE 1
      OBVIOUS
    <3> HIDE DEF bit
    <3> QED BY <3>1, PerfLvlLimitLocal
  <2>3. LimitFlag \in BOOLEAN
    BY <1>1 DEF LimitFlag
  <2> QED BY <2>1, <2>2, <2>3
<1> HIDE DEF limit, bit
<1>6. CurrentArbitrated(r)'
  <2>1. \A c, u \in [Res -> Candidates], l \in BOOLEAN :
          PairCurrent(r, c, u, l)[r] = PairCurrent(r, c, c, l)[r]
    BY PairCurrentLocal
  <2>2. new[r] = PairCurrent(r, cand2, cand2, limit)[r]
    BY <1>1, <1>5, <2>1
  <2> QED BY <1>2, <1>5, <2>2 DEF CurrentArbitrated, LimitFlag
<1>7. ASSUME p # NoRes PROVE CurrentArbitrated(p)'
  <2>1. p \in Res /\ Pair[p] = r /\ r # NoRes
    BY <1>7, PairEnds, ResConfigAssumption DEF PairAssumption
  <2>2. \A c, u \in [Res -> Candidates], l \in BOOLEAN :
          PairCurrent(r, c, u, l)[p] = PairCurrent(p, c, c, l)[p]
    <3>1. ASSUME NEW q \in Res, Pair[q] = r,
                 NEW c \in [Res -> Candidates], NEW u \in [Res -> Candidates],
                 NEW l \in BOOLEAN
          PROVE  PairCurrent(Pair[q], c, u, l)[q] = PairCurrent(q, c, c, l)[q]
      BY <2>1, <3>1, PairCurrentLocal
    <3> HIDE DEF p
    <3> QED BY <2>1, <3>1
  <2>3. new[p] = PairCurrent(p, cand2, cand2, limit)[p]
    BY <1>1, <1>5, <2>2
  <2> QED BY <1>2, <1>5, <1>7, <2>3 DEF CurrentArbitrated, LimitFlag
<1>8. CurrentOrdered(r)' /\ (p # NoRes => CurrentOrdered(p)')
  <2> SUFFICES ASSUME p # NoRes,
                      NODE_DEFAULT_VALUE \notin {new[r], new[p]}
               PROVE  new[Low(r)] <= new[High(r)]
    BY <1>2, PairEnds DEF CurrentOrdered
  <2>1. /\ NODE_DEFAULT_VALUE \notin {cand2[r], cand2[Pair[r]]}
              => new[Low(r)] <= new[High(r)]
        /\ \A x \in {r, Pair[r]} : cand2[x] = NODE_DEFAULT_VALUE => new[x] = cand2[x]
    <3>1. \A c, u \in [Res -> Candidates], l \in BOOLEAN :
            /\ NODE_DEFAULT_VALUE \notin {c[r], c[Pair[r]]}
                 => PairCurrent(r, c, u, l)[Low(r)] <= PairCurrent(r, c, u, l)[High(r)]
            /\ \A x \in {r, Pair[r]} :
                 c[x] = NODE_DEFAULT_VALUE => PairCurrent(r, c, u, l)[x] = c[x]
      BY PairCurrentProperties
    <3> HIDE DEF cand2
    <3> QED BY <1>1, <1>5, <3>1
  <2> HIDE DEF new, cand2
  <2> QED BY <2>1
<1> QED BY <1>3, <1>4, <1>6, <1>7, <1>8

\* Arbitrating r leaves the candidate of every other resource in line, and the
\* current value of those that are not its pair.
LEMMA ArbitrateElsewhere ==
    ASSUME TypeOK, NEW r \in Res, NEW lvl2 \in Int, JustArbitrated(r, lvl2),
           NEW x \in Res, x # r
    PROVE  /\ CandidateArbitrated(x) => CandidateArbitrated(x)'
           /\ currentEndTime'[x] = currentEndTime[x]
           /\ x # Pair[r] /\ CurrentArbitrated(x) => CurrentArbitrated(x)'
           /\ x # Pair[r] /\ CurrentOrdered(x) => CurrentOrdered(x)'
<1> DEFINE cand2 == candidate'  cvs2 == candidatesValue'
           limit == LimitFlag \/ PerfLvlLimit(r, cvs2, lvl2)
<1>1. /\ candidate \in [Res -> Candidates] /\ currentValue \in [Res -> Candidates]
      /\ currentEndTime \in [Res -> EndTime] /\ cand2 \in [Res -> Candidates]
      /\ powerLimitBoost \in BOOLEAN /\ thermalLimitBoost \in BOOLEAN
  BY DEF TypeOK, JustArbitrated
<1>2. /\ UNCHANGED <<powerLimitBoost, thermalLimitBoost>>
      /\ currentValue' = PairCurrent(r, cand2, currentValue, limit)
      /\ \A y \in Res : y # r => cand2[y] = candidate[y] /\ cvs2[y] = candidatesValue[y]
      /\ currentEndTime'[x] = currentEndTime[x]
  BY <1>1 DEF JustArbitrated
<1>3. limit \in BOOLEAN
  BY <1>1 DEF LimitFlag, PerfLvlLimit
<1>4. CandidateArbitrated(x) => CandidateArbitrated(x)'
  BY <1>2 DEF CandidateArbitrated
<1>5. ASSUME x # Pair[r]
      PROVE  /\ currentValue'[x] = currentValue[x]
             /\ Pair[x] # NoRes => /\ Pair[x] \in Res /\ Pair[x] # r
                                   /\ currentValue'[Pair[x]] = currentValue[Pair[x]]
  <2> HIDE DEF limit
  <2>1. \A c \in [Res -> Candidates], u \in [Res -> Candidates], l \in BOOLEAN, y \in Res :
          y # r /\ y # Pair[r] => PairCurrent(r, c, u, l)[y] = u[y]
    BY PairCurrentElsewhere
  <2>2. Pair[x] # NoRes => Pair[x] \in Res /\ Pair[x] # r /\ Pair[x] # Pair[r]
    BY <1>5, ResConfigAssumption DEF PairAssumption
  <2>3. \A y \in Res : y # r /\ y # Pair[r] => currentValue'[y] = currentValue[y]
    BY <1>1, <1>2, <1>3, <2>1
  <2> QED BY <1>5, <2>2, <2>3
<1>6. ASSUME x # Pair[r], CurrentArbitrated(x) PROVE CurrentArbitrated(x)'
  <2>1. PICK lvl \in {0, 1} :
          currentValue[x] = PairCurrent(x, candidate, candidate,
                                        \/ powerLimitBoost \/ thermalLimitBoost
                                        \/ PerfLvlLimit(x, candidatesValue, lvl))[x]
    BY <1>6 DEF CurrentArbitrated
  <2> DEFINE lim == \/ powerLimitBoost \/ thermalLimitBoost
                    \/ PerfLvlLimit(x, candidatesValue, lvl)
  <2>2. PerfLvlLimit(x, cvs2, lvl) = PerfLvlLimit(x, candidatesValue, lvl)
    BY <1>2, <1>5, <1>6 DEF PerfLvlLimit
  <2>3. lim \in BOOLEAN
    BY <1>1 DEF PerfLvlLimit
  <2>4. \A c, d \in [Res -> Candidates], l \in BOOLEAN :
          c[x] = d[x] /\ (Pair[x] # NoRes => c[Pair[x]] = d[Pair[x]])
          => PairCurrent(x, c, c, l)[x] = PairCurrent(x, d, d, l)[x]
    BY PairCurrentLocal
  <2>5. cand2[x] = candidate[x] /\ (Pair[x] # NoRes => cand2[Pair[x]] = candidate[Pair[x]])
    BY <1>2, <1>5, <1>6
  <2>6. PairCurrent(x, cand2, cand2, lim)[x] = PairCurrent(x, candidate, candidate, lim)[x]
    <3> HIDE DEF lim
    <3> QED BY <1>1, <2>3, <2>4, <2>5
  <2>7. currentValue'[x] = PairCurrent(x, cand2, cand2, lim)[x]
    BY <1>5, <1>6, <2>1, <2>6
  <2> QED BY <1>2, <2>2, <2>7 DEF CurrentArbitrated
<1>7. ASSUME x # Pair[r], CurrentOrdered(x) PROVE CurrentOrdered(x)'
  <2>1. Pair[x] # NoRes => {Low(x), High(x)} = {x, Pair[x]}
    BY PairEnds
  <2>2. Pair[x] # NoRes => /\ currentValue'[Low(x)] = currentValue[Low(x)]
                           /\ currentValue'[High(x)] = currentValue[High(x)]
    BY <1>5, <1>7, <2>1
  <2> QED BY <1>5, <1>7, <2>2 DEF CurrentOrdered
<1> QED BY <1>2, <1>4, <1>6, <1>7

\* A step that arbitrates one resource of a task that goes on.
LEMMA ArbitrationInvOne ==
    ASSUME TypeOK, ArbitrationInv, NEW r \in Res, NEW lvl2 \in Int,
           JustArbitrated(r, lvl2),
           phase' = phase, phase \notin {"idle", "inter"},
           phase = "arbitrate" => todo' = todo \ {r}
    PROVE  ArbitrationInv'
<1>1. ReportedPairOrdered' /\ ~ Settled'
  BY DEF ArbitrationInv, ReportedPairOrdered, JustArbitrated, Settled
<1>2. \A y : y # r /\ Pending(y) => Pending(y)'
  BY DEF Pending
<1>3. ASSUME NEW x \in Res
      PROVE  /\ currentEndTime'[x] = ArbitratedEndTime(candidatesEndTime'[x])
             /\ Pending(x)' \/ CandidateArbitrated(x)'
             /\ Pending(x)' \/ Pending(Pair[x])' \/ CurrentArbitrated(x)'
             /\ CurrentOrdered(x)'
  <2>1. /\ currentEndTime[x] = ArbitratedEndTime(candidatesEndTime[x])
        /\ Pending(x) \/ CandidateArbitrated(x)
        /\ Pending(x) \/ Pending(Pair[x]) \/ CurrentArbitrated(x)
        /\ CurrentOrdered(x)
    BY DEF ArbitrationInv
  <2>2. CASE x = r
    BY <2>2, ArbitrateOne
  <2>3. CASE x # r
    <3>1. currentEndTime'[x] = ArbitratedEndTime(candidatesEndTime'[x])
      BY <2>1, <2>3, ArbitrateElsewhere DEF JustArbitrated
    <3>2. Pending(x)' \/ CandidateArbitrated(x)'
      BY <1>2, <2>1, <2>3, ArbitrateElsewhere
    <3>3. CASE x = Pair[r]
      <4>1. Pair[r] # NoRes
        BY <3>3, ResConfigAssumption DEF PairAssumption
      <4>2. CurrentArbitrated(x)' /\ CurrentOrdered(x)'
        BY <3>3, <4>1, ArbitrateOne
      <4> QED BY <3>1, <3>2, <4>2
    <3>4. CASE x # Pair[r]
      <4>1. Pair[x] # r
        BY <3>4, ResConfigAssumption DEF PairAssumption
      <4>2. Pending(x)' \/ Pending(Pair[x])' \/ CurrentArbitrated(x)'
        BY <1>2, <2>1, <2>3, <3>4, <4>1, ArbitrateElsewhere
      <4>3. CurrentOrdered(x)'
        BY <2>1, <2>3, <3>4, ArbitrateElsewhere
      <4> QED BY <3>1, <3>2, <4>2, <4>3
    <3> QED BY <3>3, <3>4
  <2> QED BY <2>2, <2>3
<1> QED BY <1>1, <1>3 DEF ArbitrationInv

\* An update of a list keeps the invariant, whether it arbitrates or finds no need.
LEMMA ArbitrationUpdate ==
    ASSUME TypeOK, ArbitrationInv, NEW r \in Res, NEW t \in ActionType,
           NEW S \in SUBSET ResAction, NEW lvl2 \in Int, Update(r, t, S, lvl2)
    PROVE  ArbitrationInv'
<1>1. UpdateCandidatesValue(r, t, S, lvl2)
  BY DEF Update
<1>2. /\ candidatesValue' \in [Res -> [ActionType -> Winning]]
      /\ candidatesEndTime' \in [Res -> [ActionType -> EndTime]]
      /\ candidate' \in [Res -> Candidates] /\ currentValue' \in [Res -> Candidates]
  BY <1>1, UpdateCandidatesType
<1>3. /\ candidatesValue' = [candidatesValue EXCEPT ![r][t] = CandValue(t, S)]
      /\ candidatesEndTime' = [candidatesEndTime EXCEPT ![r][t] = CandEndTime(t, S)]
  BY <1>1 DEF UpdateCandidatesValue
<1>4. CASE NeedsArbitration(r, t, CandValue(t, S), CandEndTime(t, S))
  <2>1. ArbitrateCandidate(r, candidatesValue', candidatesEndTime', lvl2)
    BY <1>1, <1>4 DEF UpdateCandidatesValue
  <2>2. \A x \in Res : x # r => /\ candidatesValue'[x] = candidatesValue[x]
                                /\ candidatesEndTime'[x] = candidatesEndTime[x]
    BY <1>3 DEF TypeOK
  <2>3. UNCHANGED <<powerLimitBoost, thermalLimitBoost, reported>>
    BY DEF Update
  <2>4. JustArbitrated(r, lvl2)
    BY <1>2, <2>1, <2>2, <2>3 DEF JustArbitrated, ArbitrateCandidate
  <2> QED BY <2>4, ArbitrationInvOne DEF Update
<1>5. CASE ~ NeedsArbitration(r, t, CandValue(t, S), CandEndTime(t, S))
  <2>1. candidatesValue' = candidatesValue /\ candidatesEndTime' = candidatesEndTime
    BY <1>3, <1>5 DEF NeedsArbitration, TypeOK
  <2>2. UNCHANGED <<candidate, currentValue, currentEndTime>>
    BY <1>1, <1>5 DEF UpdateCandidatesValue, results
  <2>3. /\ UNCHANGED <<reported, powerLimitBoost, thermalLimitBoost>>
        /\ phase \in {"items", "late", "clear"} /\ phase' = phase
    BY DEF Update
  <2> QED BY <2>1, <2>2, <2>3
          DEF ArbitrationInv, Pending, CandidateArbitrated, CurrentArbitrated,
              CurrentOrdered, Settled, ReportedPairOrdered
<1> QED BY <1>4, <1>5

\* Initially no resource has a request and all carry the default value.
LEMMA ArbitrationInit == Init => ArbitrationInv
<1> SUFFICES ASSUME Init PROVE ArbitrationInv
  OBVIOUS
<1> DEFINE none == [t \in ActionType |-> INVALID_VALUE]
           never == [t \in ActionType |-> MAX_INT_VALUE]
<1>1. ArbitratedEndTime(never) = MAX_INT_VALUE
  <2>1. never \in [ActionType -> EndTime]
    BY ValueBounds
  <2>2. {never["perf"], never["power"], never["thermal"]} = {MAX_INT_VALUE}
    BY DEF ActionType
  <2>3. MAX_INT_VALUE \in Int
    BY ResConfigAssumption DEF ValueAssumption
  <2>4. Min({MAX_INT_VALUE}) = MAX_INT_VALUE
    <3>1. {MAX_INT_VALUE} \in SUBSET Int /\ {MAX_INT_VALUE} # {}
          /\ \A x \in {MAX_INT_VALUE} : MAX_INT_VALUE <= x
      BY <2>3
    <3> QED BY <2>3, <3>1, MinProperties
  <2> QED BY <2>2, <2>4 DEF ArbitratedEndTime
<1>2. \A plb, tlb, lvl : ArbitratedCandidate(none, plb, tlb, lvl) = NODE_DEFAULT_VALUE
  BY DEF ArbitratedCandidate
<1>3. ASSUME NEW r \in Res, NEW limit \in BOOLEAN
      PROVE  PairCurrent(r, candidate, candidate, limit)[r] = NODE_DEFAULT_VALUE
  <2>1. candidate \in [Res -> Candidates] /\ candidate[r] = NODE_DEFAULT_VALUE
    BY DEF Init, Candidates
  <2> QED BY <2>1, PairCurrentProperties
<1>4. ASSUME NEW r \in Res
      PROVE  /\ currentEndTime[r] = ArbitratedEndTime(candidatesEndTime[r])
             /\ CandidateArbitrated(r) /\ CurrentArbitrated(r) /\ CurrentOrdered(r)
  <2>1. currentEndTime[r] = ArbitratedEndTime(candidatesEndTime[r])
    BY <1>1 DEF Init
  <2>2. CandidateArbitrated(r)
    BY <1>2 DEF Init, CandidateArbitrated
  <2>3. \A lvl : powerLimitBoost \/ thermalLimitBoost \/ PerfLvlLimit(r, candidatesValue, lvl)
                    \in BOOLEAN
    BY DEF Init, PerfLvlLimit
  <2>4. CurrentArbitrated(r)
    BY <1>3, <2>3 DEF Init, CurrentArbitrated
  <2>5. CurrentOrdered(r)
    BY DEF Init, CurrentOrdered
  <2> QED BY <2>1, <2>2, <2>4, <2>5
<1>5. \A r \in Res : /\ reported[r].value = currentValue[r]
                     /\ reported[r].endTime = currentEndTime[r]
  BY DEF Init
<1>6. ReportedPairOrdered
  BY DEF Init, ReportedPairOrdered
<1> QED BY <1>4, <1>5, <1>6 DEF ArbitrationInv

\* Every step keeps the invariant, one kind of step after the other.
LEMMA ArbitrationNext == TypeOK /\ ArbitrationInv /\ [Next]_vars => ArbitrationInv'
<1> SUFFICES ASSUME TypeOK, ArbitrationInv, [Next]_vars PROVE ArbitrationInv'
  OBVIOUS
<1>1. CASE Quiet
  BY <1>1 DEF Quiet, ArbitrationInv, Pending, CandidateArbitrated, CurrentArbitrated,
              CurrentOrdered, Settled, ReportedPairOrdered
<1>2. CASE SwitchLimit
  BY <1>2 DEF SwitchLimit, ArbitrationInv, Pending, CurrentOrdered, Settled,
              ReportedPairOrdered
<1>3. CASE SendResStatus
  <2>1. /\ UNCHANGED <<candidatesValue, candidatesEndTime>>
        /\ UNCHANGED <<candidate, currentValue, currentEndTime>>
        /\ UNCHANGED <<powerLimitBoost, thermalLimitBoost>>
        /\ \A r : ~ Pending(r)
    BY <1>3 DEF SendResStatus, lists, results, flags, Pending
  <2>2. \A r \in Res : /\ reported'[r].value = currentValue[r]
                       /\ reported'[r].endTime = currentEndTime[r]
    BY <1>3 DEF SendResStatus
  <2>3. ReportedPairOrdered'
    <3>1. \A r \in Res : Pair[r] # NoRes =>
              Pair[r] \in Res /\ Low(r) \in Res /\ High(r) \in Res
      BY PairEnds
    <3> QED BY <2>2, <3>1 DEF ReportedPairOrdered, ArbitrationInv, CurrentOrdered
  <2> QED BY <2>1, <2>2, <2>3
          DEF ArbitrationInv, CandidateArbitrated, CurrentArbitrated, CurrentOrdered
<1>4. ASSUME NEW r \in Res, NEW lvl2 \in Int, Arbitrate(r, lvl2) PROVE ArbitrationInv'
  <2>1. /\ candidatesValue' = candidatesValue /\ candidatesEndTime' = candidatesEndTime
        /\ candidatesValue \in [Res -> [ActionType -> Winning]]
        /\ candidatesEndTime \in [Res -> [ActionType -> EndTime]]
        /\ candidate \in [Res -> Candidates]
    BY <1>4 DEF Arbitrate, TypeOK
  <2>2. candidate' \in [Res -> Candidates] /\ currentValue' \in [Res -> Candidates]
    <3> DEFINE cvs == candidatesValue  ces == candidatesEndTime
    <3> QED BY <1>4, <2>1, ArbitratedType DEF ArbitrateCandidate, Arbitrate
  <2>3. JustArbitrated(r, lvl2)
    BY <1>4, <2>1, <2>2 DEF JustArbitrated, Arbitrate, ArbitrateCandidate
  <2> QED BY <1>4, <2>3, ArbitrationInvOne DEF Arbitrate
<1>5. ASSUME NEW r \in Res, NEW t \in ActionType, NEW S \in SUBSET ResAction,
             NEW lvl2 \in Int, Update(r, t, S, lvl2)
      PROVE  ArbitrationInv'
  BY <1>5, ArbitrationUpdate
<1> QED BY <1>1, <1>2, <1>3, <1>4, <1>5, StepKinds

\* Between any two steps of the worker what it keeps agrees with the winners,
\* except where a task that switches a limit has yet to arbitrate.
THEOREM ArbitrationCorrect == Spec => []ArbitrationInv
BY ArbitrationInit, ArbitrationNext, TypeCorrect, PTL DEF Spec

-----------------------------------------------------------------------------
(* What follows *)

\* The executor is never told a minimum above the maximum of the same pair, in
\* whatever order the two are arbitrated and whichever limits are in force.
THEOREM PairOrderCorrect == Spec => []ReportedPairOrdered
<1>1. ArbitrationInv => ReportedPairOrdered
  BY DEF ArbitrationInv
<1> QED BY <1>1, ArbitrationCorrect, PTL

\* What was reported last follows from the invariant and the winners.
LEMMA ReportFollows ==
    TypeOK /\ CandidatesMatchLists /\ ArbitrationInv => ReportMatchesRequests
<1> SUFFICES ASSUME TypeOK, CandidatesMatchLists, ArbitrationInv, Settled
             PROVE  /\ \A r \in Res : \E lvl \in {0, 1} :
                          candidate[r] = ArbitratedCandidate(Winner(r), powerLimitBoost,
                                                             thermalLimitBoost, lvl)
                    /\ \A r \in Res : \E lvl \in {0, 1} :
                          reported[r].value =
                             PairCurrent(r, candidate, candidate,
                                         \/ powerLimitBoost \/ thermalLimitBoost
                                         \/ PerfLvlLimit(r, candidatesValue, lvl))[r]
                    /\ \A r \in Res : reported[r].endTime =
                          ArbitratedEndTime([t \in ActionType |->
                                                CandEndTime(t, resActionList[r][t])])
  BY DEF ReportMatchesRequests
<1>1. \A r : ~ Pending(r)
  BY DEF Settled, Pending
<1>2. ASSUME NEW r \in Res
      PROVE  /\ candidatesValue[r] = Winner(r)
             /\ candidatesEndTime[r]
                   = [t \in ActionType |-> CandEndTime(t, resActionList[r][t])]
  BY DEF TypeOK, CandidatesMatchLists, Winner
<1>3. ASSUME NEW r \in Res PROVE CandidateArbitrated(r) /\ CurrentArbitrated(r)
  BY <1>1 DEF ArbitrationInv
<1>4. \A r \in Res : \E lvl \in {0, 1} :
         candidate[r] = ArbitratedCandidate(Winner(r), powerLimitBoost,
                                            thermalLimitBoost, lvl)
  BY <1>2, <1>3 DEF CandidateArbitrated
<1>5. \A r \in Res : reported[r].value = currentValue[r]
                     /\ reported[r].endTime = currentEndTime[r]
                     /\ currentEndTime[r] = ArbitratedEndTime(candidatesEndTime[r])
  BY DEF ArbitrationInv
<1>6. \A r \in Res : \E lvl \in {0, 1} :
         reported[r].value =
            PairCurrent(r, candidate, candidate,
                        \/ powerLimitBoost \/ thermalLimitBoost
                        \/ PerfLvlLimit(r, candidatesValue, lvl))[r]
  BY <1>3, <1>5 DEF CurrentArbitrated
<1> QED BY <1>2, <1>4, <1>5, <1>6

\* Once a task has reported, what the executor was last told is what the alive
\* requests and the limit switches call for: for any number of resources, pairs
\* and requests, and whenever the thermal level is written in between.
THEOREM ReportCorrect == Spec => []ReportMatchesRequests
BY ReportFollows, TypeCorrect, WinnersCorrect, ArbitrationCorrect, PTL

\* The bound by the alive limits follows from what was reported.
LEMMA LimitsFollow ==
    TypeOK /\ CandidatesMatchLists /\ ArbitrationInv => LimitsCapBoosts
<1> SUFFICES ASSUME TypeOK, CandidatesMatchLists, ArbitrationInv, Settled,
                    NEW r \in Res, candidatesValue[r]["perflvl"] = INVALID_VALUE
             PROVE  /\ powerLimitBoost => \A a \in resActionList[r]["power"] :
                                              reported[r].value <= a.value
                    /\ thermalLimitBoost => \A a \in resActionList[r]["thermal"] :
                                              reported[r].value <= a.value
  BY DEF LimitsCapBoosts
<1> DEFINE cv == candidatesValue[r]
<1>1. /\ cv \in [ActionType -> Winning] /\ candidate \in [Res -> Candidates]
      /\ powerLimitBoost \in BOOLEAN /\ thermalLimitBoost \in BOOLEAN
  BY DEF TypeOK
<1>2. /\ powerLimitBoost /\ cv["power"] # INVALID_VALUE => candidate[r] <= cv["power"]
      /\ thermalLimitBoost /\ cv["thermal"] # INVALID_VALUE => candidate[r] <= cv["thermal"]
  <2>1. PICK lvl \in {0, 1} :
          candidate[r] = ArbitratedCandidate(cv, powerLimitBoost, thermalLimitBoost, lvl)
    BY DEF ArbitrationInv, CandidateArbitrated, Settled, Pending
  <2> HIDE DEF cv
  <2> QED BY <1>1, <2>1, ArbitratedCandidateProperties DEF cv
<1>3. powerLimitBoost \/ thermalLimitBoost => reported[r].value <= candidate[r]
  <2>1. PICK lvl \in {0, 1} :
          currentValue[r] = PairCurrent(r, candidate, candidate,
                                        \/ powerLimitBoost \/ thermalLimitBoost
                                        \/ PerfLvlLimit(r, candidatesValue, lvl))[r]
    BY DEF ArbitrationInv, CurrentArbitrated, Settled, Pending
  <2>2. PairCurrent(r, candidate, candidate, TRUE)[r] <= candidate[r]
    BY <1>1, PairCurrentProperties
  <2>3. reported[r].value = currentValue[r]
    BY DEF ArbitrationInv
  <2> QED BY <2>1, <2>2, <2>3
<1>4. ASSUME NEW t \in {"power", "thermal"}, NEW a \in resActionList[r][t]
      PROVE  cv[t] # INVALID_VALUE /\ cv[t] <= a.value
  <2>1. t \in ActionType /\ t \notin PerfFirst
    BY DEF ActionType, PerfFirst
  <2>2. resActionList[r][t] \in SUBSET ResAction
    BY <2>1 DEF TypeOK
  <2>3. cv[t] = CandValue(t, resActionList[r][t])
    BY <2>1 DEF CandidatesMatchLists
  <2> QED BY <1>4, <2>1, <2>2, <2>3, ListsAreLists, CandValueProperties
<1>5. ASSUME NEW t \in {"power", "thermal"}, NEW a \in resActionList[r][t],
             reported[r].value <= candidate[r], candidate[r] <= cv[t]
      PROVE  reported[r].value <= a.value
  <2>1. /\ reported[r].value \in Int /\ candidate[r] \in Int
        /\ cv[t] \in Int /\ a.value \in Int
    BY <1>1, ValueBounds DEF TypeOK, ActionType, ResAction, Candidates, Winning
  <2>2. cv[t] <= a.value
    BY <1>4
  <2> QED BY <1>5, <2>1, <2>2
<1> QED BY <1>2, <1>3, <1>4, <1>5

\* A limit that is switched on caps what the executor is told, whatever the
\* boosts and the pair: for every configuration and all limits alive together.
THEOREM LimitsCorrect == Spec => []LimitsCapBoosts
BY LimitsFollow, TypeCorrect, WinnersCorrect, ArbitrationCorrect, PTL

-----------------------------------------------------------------------------
(* SocPerfThreadWrap implements ResourceArbiter.                              *)

\* The two modules share the arbitration of ResArbitration.
LEMMA SameArbitration ==
    /\ ActionType = Arbiter!ActionType
    /\ Candidates = Arbiter!Candidates
    /\ NODE_DEFAULT_VALUE = Arbiter!NODE_DEFAULT_VALUE
    /\ \A t, S : CandValue(t, S) = Arbiter!CandValue(t, S)
    /\ \A t, S : CandEndTime(t, S) = Arbiter!CandEndTime(t, S)
    /\ \A cv, p, th, lvl : ArbitratedCandidate(cv, p, th, lvl)
                              = Arbiter!ArbitratedCandidate(cv, p, th, lvl)
    /\ \A ce : ArbitratedEndTime(ce) = Arbiter!ArbitratedEndTime(ce)
    /\ \A r, cvs, lvl : PerfLvlLimit(r, cvs, lvl) = Arbiter!PerfLvlLimit(r, cvs, lvl)
    /\ \A r, c, cur, limit :
          PairCurrent(r, c, cur, limit) = Arbiter!PairCurrent(r, c, cur, limit)
    /\ \A r : Low(r) = Arbiter!Low(r) /\ High(r) = Arbiter!High(r)
<1>1. ActionType = Arbiter!ActionType
  BY DEF ActionType, Arbiter!ActionType
<1>2. /\ NODE_DEFAULT_VALUE = Arbiter!NODE_DEFAULT_VALUE
  BY DEF NODE_DEFAULT_VALUE, Arbiter!NODE_DEFAULT_VALUE
<1>3. Candidates = Arbiter!Candidates
  BY DEF Candidates, Arbiter!Candidates, Winning, Arbiter!Winning,
         NODE_DEFAULT_VALUE, Arbiter!NODE_DEFAULT_VALUE
<1>4. \A S : Max(S) = Arbiter!Max(S)
  BY DEF Max, Arbiter!Max
<1>5. \A S : Min(S) = Arbiter!Min(S)
  BY DEF Min, Arbiter!Min
<1>6. \A t, S : CandValue(t, S) = Arbiter!CandValue(t, S)
  BY <1>4, <1>5 DEF CandValue, Arbiter!CandValue, PerfFirst, Arbiter!PerfFirst
<1>7. \A t, S : CandEndTime(t, S) = Arbiter!CandEndTime(t, S)
  BY <1>4, <1>6 DEF CandEndTime, Arbiter!CandEndTime
<1>8. \A cv, p, th, lvl : ArbitratedCandidate(cv, p, th, lvl)
                              = Arbiter!ArbitratedCandidate(cv, p, th, lvl)
  BY <1>1, <1>2, <1>4, <1>5
     DEF ArbitratedCandidate, Arbiter!ArbitratedCandidate, LimitCase, Arbiter!LimitCase,
         LowerLimit, Arbiter!LowerLimit
<1>9. \A ce : ArbitratedEndTime(ce) = Arbiter!ArbitratedEndTime(ce)
  BY <1>5 DEF ArbitratedEndTime, Arbiter!ArbitratedEndTime
<1>10. \A r, cvs, lvl : PerfLvlLimit(r, cvs, lvl) = Arbiter!PerfLvlLimit(r, cvs, lvl)
  BY DEF PerfLvlLimit, Arbiter!PerfLvlLimit
<1>11. \A r : Low(r) = Arbiter!Low(r) /\ High(r) = Arbiter!High(r)
  BY DEF Low, Arbiter!Low, High, Arbiter!High
<1>12. \A r, c, cur, limit :
           PairCurrent(r, c, cur, limit) = Arbiter!PairCurrent(r, c, cur, limit)
  BY DEF PairCurrent, Arbiter!PairCurrent, Low, Arbiter!Low, High, Arbiter!High,
         NODE_DEFAULT_VALUE, Arbiter!NODE_DEFAULT_VALUE
<1> QED BY <1>1, <1>2, <1>3, <1>6, <1>7, <1>8, <1>9, <1>10, <1>11, <1>12

\* When no resource is left to be arbitrated, the current values and end times are
\* what the alive requests call for, for all resources at once.
LEMMA CurrentCalledFor ==
    ASSUME TypeOK, CandidatesMatchLists, ArbitrationInv, \A r : ~ Pending(r), NEW told,
           told = [r \in Res |-> [value |-> currentValue[r], endTime |-> currentEndTime[r]]]
    PROVE  Arbiter!CalledFor(told)
<1> DEFINE cvs == [x \in Res |-> Arbiter!Winner(x)]
<1>1. ASSUME NEW r \in Res
      PROVE  /\ candidatesValue[r] = Arbiter!Winner(r)
             /\ candidatesEndTime[r] = Arbiter!WinnerEnd(r)
  <2>1. /\ Arbiter!Winner(r) = [t \in ActionType |-> CandValue(t, resActionList[r][t])]
        /\ Arbiter!WinnerEnd(r) = [t \in ActionType |-> CandEndTime(t, resActionList[r][t])]
    BY SameArbitration DEF Arbiter!Winner, Arbiter!WinnerEnd
  <2>2. /\ candidatesValue[r] \in [ActionType -> Winning]
        /\ candidatesEndTime[r] \in [ActionType -> EndTime]
    BY DEF TypeOK
  <2> QED BY <2>1, <2>2 DEF CandidatesMatchLists
<1>2. candidatesValue = cvs
  BY <1>1 DEF TypeOK
<1>3. ASSUME NEW r \in Res
      PROVE  /\ CandidateArbitrated(r) /\ CurrentArbitrated(r) /\ CurrentOrdered(r)
             /\ currentEndTime[r] = ArbitratedEndTime(candidatesEndTime[r])
  BY DEF ArbitrationInv
<1>4. ASSUME NEW r \in Res
      PROVE  \E lvl \in {0, 1} :
                candidate[r] = Arbiter!ArbitratedCandidate(Arbiter!Winner(r),
                                  powerLimitBoost, thermalLimitBoost, lvl)
  BY <1>1, <1>3, SameArbitration DEF CandidateArbitrated
<1>5. ASSUME NEW r \in Res
      PROVE  \E lvl \in {0, 1} :
                told[r].value = Arbiter!PairCurrent(r, candidate, candidate,
                                   \/ powerLimitBoost \/ thermalLimitBoost
                                   \/ Arbiter!PerfLvlLimit(r, cvs, lvl))[r]
  <2>1. PICK lvl \in {0, 1} :
           currentValue[r] = PairCurrent(r, candidate, candidate,
                                \/ powerLimitBoost \/ thermalLimitBoost
                                \/ PerfLvlLimit(r, candidatesValue, lvl))[r]
    BY <1>3 DEF CurrentArbitrated
  <2>2. PerfLvlLimit(r, candidatesValue, lvl) = Arbiter!PerfLvlLimit(r, cvs, lvl)
    BY <1>2, SameArbitration
  <2> HIDE DEF cvs
  <2>3. told[r].value = Arbiter!PairCurrent(r, candidate, candidate,
                           \/ powerLimitBoost \/ thermalLimitBoost
                           \/ Arbiter!PerfLvlLimit(r, cvs, lvl))[r]
    BY <2>1, <2>2, SameArbitration
  <2> QED BY <2>3
<1>6. ASSUME NEW r \in Res
      PROVE  told[r].endTime = Arbiter!ArbitratedEndTime(Arbiter!WinnerEnd(r))
  BY <1>1, <1>3, SameArbitration
<1>7. ASSUME NEW r \in Res, Pair[r] # NoRes,
             NODE_DEFAULT_VALUE \notin {told[r].value, told[Pair[r]].value}
      PROVE  told[Low(r)].value <= told[High(r)].value
  <2>1. Pair[r] \in Res /\ Low(r) \in Res /\ High(r) \in Res
    BY <1>7, ResConfigAssumption DEF PairAssumption, Low, High
  <2> QED BY <1>3, <1>7, <2>1 DEF CurrentOrdered
<1>8. candidate \in [Res -> Arbiter!Candidates]
  BY SameArbitration DEF TypeOK
<1> HIDE DEF cvs
<1> QED BY <1>4, <1>5, <1>6, <1>7, <1>8, SameArbitration DEF Arbiter!CalledFor, cvs

LEMMA ArbiterInit == Init => Arbiter!Init
BY SameArbitration DEF Init, Arbiter!Init, Settled

\* A change of a list is a request accepted or ended, or a list cleared.
LEMMA ListChangeAllowed ==
    ASSUME TypeOK, NoTwoTotalSame, NEW r \in Res, NEW t \in ActionType,
           NEW S \in SUBSET ResAction, NEW lvl2, Update(r, t, S, lvl2),
           ListChange(resActionList[r][t], t, S)
    PROVE  Arbiter!Accept(r, t) \/ Arbiter!End(r, t) \/ Arbiter!Clear(r)
<1> DEFINE L == resActionList[r][t]
<1>1. /\ resActionList' = [resActionList EXCEPT ![r][t] = S]
      /\ UNCHANGED <<powerLimitBoost, thermalLimitBoost, reported>>
      /\ ~Settled /\ ~Settled'
  BY DEF Update, UpdateCandidatesValue, Settled
<1>2. resActionList'[r][t] = S
  BY <1>1 DEF TypeOK
<1>3. CASE t = "perf" /\ S = {}
  BY <1>1, <1>3 DEF Arbiter!Clear
<1>4. CASE \E b \in L : S = L \ {b}
  BY <1>1, <1>4 DEF Arbiter!End
<1>5. ASSUME NEW a \in S, a.type = t,
             \/ Replaced(a, L) = {} /\ S = L \cup {a}
             \/ \E b \in Replaced(a, L) : S = (L \ {b}) \cup {a}
      PROVE  Arbiter!Accept(r, t)
  <2>1. \A x, y : TotalSame(x, y) <=> Arbiter!SameRequest(x, y)
    BY DEF TotalSame, PartSame, Arbiter!SameRequest
  <2>2. \A b \in Replaced(a, L), c \in Replaced(a, L) : b = c
    BY DEF Replaced, NoTwoTotalSame, TotalSame, PartSame
  <2>3. S = {b \in L : ~ TotalSame(a, b)} \cup {a}
    BY <1>5, <2>2 DEF Replaced
  <2>4. S = {b \in L : ~ Arbiter!SameRequest(a, b)} \cup {a}
    BY <2>1, <2>3
  <2>5. resActionList' = [resActionList EXCEPT
                            ![r][t] = {b \in @ : ~ Arbiter!SameRequest(a, b)} \cup {a}]
    BY <1>1, <2>4
  <2> QED BY <1>1, <1>2, <1>5, <2>5 DEF Arbiter!Accept
<1> QED BY <1>3, <1>4, <1>5 DEF ListChange

\* Every step is a step of the arbiter, or one it does not see.
LEMMA ArbiterNext ==
    TypeOK /\ CandidatesMatchLists /\ ArbitrationInv /\ NoTwoTotalSame /\ [Next]_vars
        => [Arbiter!Next]_(Arbiter!vars)
<1> SUFFICES ASSUME TypeOK, CandidatesMatchLists, ArbitrationInv, NoTwoTotalSame, [Next]_vars
             PROVE  Arbiter!Next \/ UNCHANGED Arbiter!vars
  OBVIOUS
<1>1. CASE Quiet
  <2>1. /\ UNCHANGED <<resActionList, powerLimitBoost, thermalLimitBoost>>
        /\ UNCHANGED reported
        /\ Settled \/ ~Settled'
    BY <1>1 DEF Quiet, Settled
  <2>2. CASE Settled /\ ~Settled'
    BY <2>1, <2>2 DEF Arbiter!BeginTask, Arbiter!Next
  <2>3. CASE (Settled /\ Settled') \/ (~Settled /\ ~Settled')
    BY <2>1, <2>3 DEF Arbiter!vars
  <2> QED BY <2>1, <2>2, <2>3
<1>2. CASE SendResStatus
  <2>1. Arbiter!CalledFor(reported')
    <3>1. \A r : ~ Pending(r)
      BY <1>2 DEF SendResStatus, Pending
    <3> QED BY <1>2, <3>1, CurrentCalledFor DEF SendResStatus
  <2>2. UNCHANGED <<resActionList, powerLimitBoost, thermalLimitBoost>>
    BY <1>2 DEF SendResStatus, lists, flags
  <2>3. ~Settled /\ Settled'
    BY <1>2 DEF SendResStatus, Settled
  <2> QED BY <2>1, <2>2, <2>3 DEF Arbiter!Report, Arbiter!Next
<1>3. ASSUME NEW r \in Res, NEW lvl2 \in Int, Arbitrate(r, lvl2)
      PROVE  UNCHANGED Arbiter!vars
  BY <1>3 DEF Arbitrate, Arbiter!vars, Settled
<1>4. ASSUME NEW r \in Res, NEW t \in ActionType, NEW S \in SUBSET ResAction,
             NEW lvl2 \in Int, Update(r, t, S, lvl2), ListChange(resActionList[r][t], t, S)
      PROVE  Arbiter!Next
  BY <1>4, ListChangeAllowed, SameArbitration DEF Arbiter!Next
<1>5. CASE SwitchLimit
  BY <1>5 DEF SwitchLimit, Arbiter!Switch, Arbiter!Next, Settled
<1> QED BY <1>1, <1>2, <1>3, <1>4, <1>5, StepKinds

\* For every configuration and any number of requests, what SocPerfThreadWrap does
\* is, seen from outside, what ResourceArbiter allows.
THEOREM WrapImplementsArbiter == Spec => ImplementsArbiter
<1>1. Init => Arbiter!Init
  BY ArbiterInit
<1> QED BY <1>1, ArbiterNext, TypeCorrect, WinnersCorrect, ArbitrationCorrect, NoDoubles,
           PTL DEF Spec, ImplementsArbiter, Arbiter!Spec
=============================================================================
