------------------------------ MODULE MCLimit ------------------------------
(* Instances of SocPerfLimit for TLC. *)
EXTENDS SocPerfLimit

CONSTANTS cpu

\* Two levels exist. Values fit in 3 bits: -4 is INVALID_VALUE, -1 resets.
MCLevelValue == [k \in {<<cpu, 0>>, <<cpu, 1>>} |-> IF k[2] = 0 THEN 2 ELSE 1]
MCInvalid == -4
MCConfig == {-4, -1, 0, 1, 2}

Freq(v) == [tag |-> [res |-> cpu, kind |-> "freq"], value |-> v]
ByLevel(v) == [tag |-> [res |-> cpu, kind |-> "level"], value |-> v]
Req(client, configs) == [client |-> client, configs |-> configs]

\* A limit, one by level, both at once, their withdrawal, and a battery limit.
MCRequests ==
    { Req("power", <<Freq(2)>>), Req("power", <<ByLevel(1), Freq(1)>>),
      Req("power", <<ByLevel(0)>>), Req("power", <<Freq(-1)>>),
      Req("battery", <<Freq(2)>>), Req("battery", <<ByLevel(-4)>>) }

\* The instance meets the condition of the properties about limits.
ASSUME MCConditions == ValuesFit
=============================================================================
