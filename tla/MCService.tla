----------------------------- MODULE MCService -----------------------------
(* Instances of SocPerfService for TLC. *)
EXTENDS SocPerfService

CONSTANTS p1, p2, app

Call(p, t, op, on, long) ==
    [from |-> p, token |-> t, op |-> op, cmd |-> "tap", on |-> on, long |-> long]

\* One process boosts and asks for the counts; the other switches a boost and
\* names a device mode that is too long.
MCCalls ==
    { Call(p1, app, "PerfRequest", TRUE, FALSE),
      Call(p1, app, "RequestCmdIdCount", TRUE, FALSE),
      Call(p2, app, "PerfRequestEx", TRUE, FALSE),
      Call(p2, app, "PerfRequestEx", FALSE, FALSE),
      Call(p2, app, "RequestDeviceMode", TRUE, TRUE) }

\* One process alone.
MCOneCaller == {c \in MCCalls : c.from = p1}

\* The cache of SocPerfServer against its reference: all runs of up to five
\* lookups and puts of three keys, in a cache of two.
Cache == INSTANCE SocPerfLRUCache WITH Key <- 1 .. 3, Decision <- BOOLEAN, Capacity <- 2

CacheOps == [put : {TRUE}, key : 1 .. 3, value : BOOLEAN]
            \cup [put : {FALSE}, key : 1 .. 3, value : {FALSE}]

ASSUME MCCacheMatchesReference ==
    \A n \in 0 .. 5 : \A ops \in [1 .. n -> CacheOps] : Cache!ReplayCorrect(ops)
=============================================================================
