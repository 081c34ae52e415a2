------------------------------ MODULE MCServer ------------------------------
(* Instances of SocPerfServer for TLC. *)
EXTENDS SocPerfServer

CONSTANTS app, shell, daemon, hap

Call(t, op) == [token |-> t, op |-> op]

\* Three callers share a cache of two; one HAP is refused; two callers ask for
\* the counts, one of them is Hiview.
MCArrivals ==
    {Call(t, "PerfRequest") : t \in {app, shell, daemon, hap}}
        \cup {Call(t, "RequestCmdIdCount") : t \in {app, daemon}}
=============================================================================
