--------------------------- MODULE ResArbitration ---------------------------
(***************************************************************************)
(* The arbitration of one resource and of a pair of resources, as pure     *)
(* operators: what socperf_thread_wrap.cpp computes from the lists of alive *)
(* requests (UpdateCandidatesValue ... UpdateCurrentValue).                 *)
(*                                                                         *)
(* A list of requests is a SET here: each of these functions only takes an  *)
(* extremum over the list, so the order of the list is not observable.      *)
(***************************************************************************)
EXTENDS Integers, FiniteSetsExt

CONSTANTS
    Res,            \* ids of the configured resources (resourceNodeInfo_)
    NoRes,          \* "no pair"; also what a governor resource has
    Pair,           \* [Res -> Res \cup {NoRes}], ResNode::pair
    IsMax,          \* [Res -> BOOLEAN], ResourceNode::isMaxValue
    Available,      \* [Res -> SUBSET Value], ResourceNode::available
    Value,          \* the values requests carry
    INVALID_VALUE,  \* INT_MIN in the code: below every value
    MAX_INT_VALUE   \* the end time of a request that does not expire

NODE_DEFAULT_VALUE == -1

\* ACTION_TYPE_BATTERY never reaches this layer: the facade folds it into POWER.
ActionType == {"perf", "power", "thermal", "perflvl"}
PerfFirst == {"perf", "perflvl"}

EndTime == 0 .. MAX_INT_VALUE

\* What candidatesValue holds for a type, and candidate for a resource.
Winning == Value \cup {INVALID_VALUE}
Candidates == Winning \cup {NODE_DEFAULT_VALUE}

(***************************************************************************)
(* Pairs are mutual, and one of the two is the maximum of the range. The    *)
(* configuration loader checks only that the pair exists.                   *)
(***************************************************************************)
PairAssumption ==
    /\ NoRes \notin Res
    /\ Pair \in [Res -> Res \cup {NoRes}]
    /\ IsMax \in [Res -> BOOLEAN]
    /\ \A r \in Res : Pair[r] # NoRes =>
          /\ Pair[r] # r
          /\ Pair[Pair[r]] = r
          /\ IsMax[r] # IsMax[Pair[r]]

ValueAssumption ==
    /\ INVALID_VALUE \in Int /\ INVALID_VALUE < NODE_DEFAULT_VALUE
    /\ MAX_INT_VALUE \in Nat
    /\ Value \subseteq {v \in Int : INVALID_VALUE < v /\ v <= MAX_INT_VALUE}
    /\ Available \in [Res -> SUBSET Value]

ASSUME ResConfigAssumption == PairAssumption /\ ValueAssumption

-----------------------------------------------------------------------------
(* UpdateCandidatesValue, InnerArbitrateCandidatesValue *)

\* The winner of the alive requests of one type: the largest value for the
\* types that ask for performance, the smallest for the types that limit it.
CandValue(type, S) ==
    IF S = {} THEN INVALID_VALUE
    ELSE IF type \in PerfFirst THEN Max({a.value : a \in S})
                               ELSE Min({a.value : a \in S})

\* The latest end among the requests that carry the winning value.
CandEndTime(type, S) ==
    IF S = {} THEN MAX_INT_VALUE
    ELSE Max({a.endTime : a \in {b \in S : b.value = CandValue(type, S)}})

-----------------------------------------------------------------------------
(* ExistNoCandidate, ProcessLimitCase, ArbitratePairResInPerfLvl. The        *)
(* argument cv is [ActionType -> value], the candidate of each type.         *)

LowerLimit(power, thermal) ==
    IF power = INVALID_VALUE THEN thermal
    ELSE IF thermal = INVALID_VALUE THEN power
    ELSE Min({power, thermal})

LimitCase(cv, powerLimitBoost, thermalLimitBoost) ==
    CASE ~powerLimitBoost /\ ~thermalLimitBoost ->
            IF cv["perf"] # INVALID_VALUE
            THEN Max({cv["perf"], cv["power"], cv["thermal"]})
            ELSE LowerLimit(cv["power"], cv["thermal"])
      [] ~powerLimitBoost /\ thermalLimitBoost ->
            IF cv["thermal"] # INVALID_VALUE THEN cv["thermal"]
            ELSE Max({cv["perf"], cv["power"]})
      [] powerLimitBoost /\ ~thermalLimitBoost ->
            IF cv["power"] # INVALID_VALUE THEN cv["power"]
            ELSE Max({cv["perf"], cv["thermal"]})
      [] OTHER ->
            IF cv["power"] = INVALID_VALUE /\ cv["thermal"] = INVALID_VALUE
            THEN cv["perf"]
            ELSE LowerLimit(cv["power"], cv["thermal"])

\* lvl is the thermal level read by ArbitratePairResInPerfLvl.
ArbitratedCandidate(cv, powerLimitBoost, thermalLimitBoost, lvl) ==
    LET c == LimitCase(cv, powerLimitBoost, thermalLimitBoost)
    IN  IF \A t \in ActionType : cv[t] = INVALID_VALUE THEN NODE_DEFAULT_VALUE
        ELSE IF cv["perflvl"] = INVALID_VALUE THEN c
        ELSE IF lvl = 0 /\ c # INVALID_VALUE THEN Min({c, cv["perflvl"]})
        ELSE cv["perflvl"]

\* A PERFLVL request does not count for the end time.
ArbitratedEndTime(ce) == Min({ce["perf"], ce["power"], ce["thermal"]})

-----------------------------------------------------------------------------
(* ArbitratePairRes *)

\* The extra reason to lower the minimum of a pair rather than to raise its
\* maximum: a PERFLVL request on either of the two while the device is hot.
PerfLvlLimit(r, cvs, lvl) ==
    /\ Pair[r] # NoRes
    /\ lvl # 0
    /\ \/ cvs[r]["perflvl"] # INVALID_VALUE
       \/ cvs[Pair[r]]["perflvl"] # INVALID_VALUE
    /\ IsMax[r] \/ IsMax[Pair[r]]

Low(r) == IF IsMax[r] THEN Pair[r] ELSE r
High(r) == IF IsMax[r] THEN r ELSE Pair[r]

\* Mutant: only the resource just arbitrated is brought into the range.
PairCurrent_OwnOnly(r, cand, cur, limit) ==
    LET common == IF limit THEN cand[High(r)] ELSE cand[Low(r)]
    IN  IF \/ Pair[r] = NoRes
           \/ NODE_DEFAULT_VALUE \in {cand[Low(r)], cand[High(r)]}
           \/ cand[Low(r)] <= cand[High(r)]
        THEN [cur EXCEPT ![r] = cand[r]]
        ELSE [cur EXCEPT ![r] = common]

\* The current values after r was arbitrated: r's candidate alone when it has
\* no pair, otherwise both, made equal if the minimum would exceed the maximum.
PairCurrent(r, cand, cur, limit) ==
    LET lo == Low(r)
        hi == High(r)
        common == IF limit THEN cand[hi] ELSE cand[lo]
    IN  IF Pair[r] = NoRes THEN [cur EXCEPT ![r] = cand[r]]
        ELSE IF \/ NODE_DEFAULT_VALUE \in {cand[lo], cand[hi]}
                \/ cand[lo] <= cand[hi]
        THEN [cur EXCEPT ![lo] = cand[lo], ![hi] = cand[hi]]
        ELSE [cur EXCEPT ![lo] = common, ![hi] = common]

-----------------------------------------------------------------------------
(* GetResValueByLevel: level 0 is the largest available value; a level past  *)
(* the end gives the smallest one.                                           *)

HasLevel(r, level) == Available[r] # {} /\ level >= 0

ValueByLevel(r, level) ==
    LET A == Available[r]
    IN  IF level < Cardinality(A)
        THEN CHOOSE v \in A : Cardinality({x \in A : x > v}) = level
        ELSE Min(A)
=============================================================================
