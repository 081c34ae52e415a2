--------------------------- MODULE SocPerfServer ---------------------------
(***************************************************************************)
(* SocPerfServer: every call that arrives on an IPC thread is checked, with *)
(* the caller's token, and handed to SocPerf. The answers of the access     *)
(* token service are kept in an LRU cache that nothing invalidates. The     *)
(* check and the call of SocPerf are separate steps: other IPC threads run  *)
(* in between.                                                              *)
(***************************************************************************)
EXTENDS SocPerfLRUCache

CONSTANTS
    OpName,     \* operations of ISocPerf
    PlainHap,   \* tokens of HAPs that are no system application
    Hiview,     \* tokens of callers whose uid is HIVIEW_UID
    Debuggable, \* ENG_MODE, const.debuggable: TRUE if not 0
    Arrivals,   \* calls that arrive: records with a token and an op at least
    Slot        \* bound: how many calls are at the service at a time

Token == Key

ASSUME ServerAssumption ==
    /\ Decision = BOOLEAN
    /\ PlainHap \subseteq Token /\ Hiview \subseteq Token
    /\ Debuggable \in BOOLEAN
    /\ \A c \in Arrivals : c.token \in Token /\ c.op \in OpName
    /\ Slot \subseteq Nat

VARIABLES
    requests,        \* calls on an IPC thread, and how far each has got
    permissionCache,
    permitted,       \* what the access token service would answer now
    verdict, used    \* history: its last answer for each token; tokens by last use

cacheVars == <<permissionCache, verdict, used>>
serverVars == <<requests, cacheVars, permitted>>

Stage == {"arrived", "allowed", "counting"}
Request == [slot : Slot, call : Arrivals, at : Stage]

\* The cache of a service that has just started.
EmptyServer ==
    /\ requests = {}
    /\ permissionCache = EmptyCache
    /\ verdict = [t \in Token |-> FALSE]
    /\ used = <<>>

ServerInit ==
    /\ EmptyServer
    /\ permitted \in [Token -> BOOLEAN]

-----------------------------------------------------------------------------
(* HasPerfPermission, under permissionCacheMutex_ from the lookup to the put. *)

\* Mutant: the lookup happens, but what it found is taken for a permission.
CacheHit_AnyDecision(t, ok) ==
    /\ ok
    /\ permissionCache' = Get(permissionCache, t)
    /\ UNCHANGED verdict

\* The decision kept for the token stands, whatever was granted since.
CacheHit(t, ok) ==
    /\ ok = EntryOf(permissionCache, t).value
    /\ permissionCache' = Get(permissionCache, t)
    /\ UNCHANGED verdict

VerifyAccessToken(t, ok) ==
    /\ ok = permitted[t]
    /\ permissionCache' = Put(permissionCache, t, permitted[t])
    /\ verdict' = [verdict EXCEPT ![t] = permitted[t]]

\* A HAP that is no system application is refused before the cache is looked at.
HasPerfPermission(t, ok) ==
    \/ t \in PlainHap /\ ~ok /\ UNCHANGED cacheVars
    \/ /\ t \notin PlainHap
       /\ used' = Used(used, t)
       /\ IF Known(permissionCache, t) THEN CacheHit(t, ok)
                                       ELSE VerifyAccessToken(t, ok)

\* RequestCmdIdCount asks for more, before the permission.
Forbidden(c) == c.op = "RequestCmdIdCount" /\ ~Debuggable /\ c.token \notin Hiview

-----------------------------------------------------------------------------
\* A call reaches an IPC thread.
Free == Slot \ {q.slot : q \in requests}

Receive(c) ==
    /\ Free # {}
    /\ requests' = requests \cup
          {[slot |-> CHOOSE s \in Free : TRUE, call |-> c, at |-> "arrived"]}
    /\ UNCHANGED <<cacheVars, permitted>>

Refuse(q) == requests' = requests \ {q}
Advance(q, to) == requests' = (requests \ {q}) \cup {[q EXCEPT !.at = to]}

CheckPermission(q) ==
    /\ q.at = "arrived"
    /\ \/ Forbidden(q.call) /\ Refuse(q) /\ UNCHANGED cacheVars
       \/ /\ ~Forbidden(q.call)
          /\ \/ HasPerfPermission(q.call.token, FALSE) /\ Refuse(q)
             \/ HasPerfPermission(q.call.token, TRUE) /\ Advance(q, "allowed")
    /\ UNCHANGED permitted

\* The operation of SocPerf with the same name and arguments.
Forward(q) ==
    /\ q.at = "allowed"
    /\ requests' = requests \ {q}
    /\ UNCHANGED <<cacheVars, permitted>>

\* The user, or an installation, grants or revokes the permission.
PermissionChanges(t) ==
    /\ permitted' = [permitted EXCEPT ![t] = ~@]
    /\ UNCHANGED <<requests, cacheVars>>

ServerNext ==
    \/ \E c \in Arrivals : Receive(c)
    \/ \E q \in requests : CheckPermission(q) \/ Forward(q)
    \/ \E t \in Token : PermissionChanges(t)

ServerSpec == ServerInit /\ [][ServerNext]_serverVars

-----------------------------------------------------------------------------
(* Properties *)

\* Every variable stays in the set its member ranges over.
ServerTypeOK ==
    /\ requests \subseteq Request
    /\ permissionCache.lruList \in Seq(Entry)
    /\ DOMAIN permissionCache.relationMap \subseteq Token
    /\ Range(permissionCache.relationMap) \subseteq NodeId
    /\ permitted \in [Token -> BOOLEAN]
    /\ verdict \in [Token -> BOOLEAN]
    /\ used \in Seq(Token)

\* The cache holds the most recently used tokens, as many as fit, each in one
\* place that the map knows, with the answer last given for it: put, get and the
\* eviction keep the list and the map of SocPerfLRUCache in step.
CacheCorrect ==
    /\ InStep(permissionCache)
    /\ MostRecent(permissionCache, used)
    /\ \A i \in DOMAIN permissionCache.lruList :
          LET e == permissionCache.lruList[i] IN e.value = verdict[e.key]

Newly == {q \in requests' \ requests : q.at = "allowed"}

\* A call gets past the check only if the last answer of the access token service
\* for its token was yes and, for RequestCmdIdCount, only on a debuggable device
\* or for Hiview; a HAP that is no system application never does, even with the
\* permission.
OnlyVerifiedServed ==
    [][\A q \in Newly : /\ verdict'[q.call.token]
                        /\ q.call.token \notin PlainHap
                        /\ ~Forbidden(q.call)]_serverVars

\* A token whose permission was revoked is still served only while it is one of
\* the Capacity tokens used last: a decision never outlives that many others.
RevokedServedWhileRecent ==
    [][\A q \in Newly : ~permitted[q.call.token] =>
          \E i \in DOMAIN used : i <= Capacity /\ used[i] = q.call.token]_serverVars
=============================================================================
