------------------------------ MODULE MCBoost ------------------------------
(* Instances of SocPerfBoost for TLC. *)
EXTENDS SocPerfBoost

CONSTANTS c1, c2, cpu, ddr

\* Two modes of one scene. 1 is a long-time command with a thermal command, 4; 2 and
\* 6 are timed ones, and the modes put 1 and 7 in their place; 3 would take the place
\* of 1 for the day. 5 and 7 are configured nowhere: 5 is the thermal
\* command of the day, 7 a weak command.
day == 1
night == 2
Scene == {day, night}

Act(res, value, duration, thermalCmd, lvl) ==
    [variable |-> <<[res |-> res, value |-> value]>>, duration |-> duration,
     thermalCmdId |-> thermalCmd, thermalLvl |-> lvl]
To(mode, cmd) == [mode |-> mode, cmdId |-> cmd]
Acts(actionList, modeMap) == [actionList |-> actionList, modeMap |-> modeMap]

LongTime(thermalCmd) ==
    Acts(<<Act(cpu, 2, 0, thermalCmd, -1), Act(ddr, 2, 5, NoCmd, -1)>>,
         <<To(day, 3), To(night, 5)>>)

Short == Acts(<<Act(cpu, 1, 5, NoCmd, -1)>>, <<To(day, 1), To(night, 7)>>)

MCDefault ==
    [k \in 1 .. 4 |->
        CASE k = 1 -> LongTime(4)
          [] k = 2 -> Short
          [] k = 3 -> Acts(<<Act(cpu, 1, 0, NoCmd, -1)>>, <<>>)
          [] k = 4 -> Acts(<<Act(ddr, 1, 0, NoCmd, 1), Act(ddr, 2, 0, NoCmd, 2)>>, <<>>)]

\* The default configuration alone, and with one for the day, where 6 is configured
\* for the day only.
MCConfigs ==
    { [m \in {0} |-> [k \in 1 .. 4 \cup {6} |-> IF k = 6 THEN Short ELSE MCDefault[k]]],
      [m \in {0, day} |-> IF m = 0 THEN MCDefault
                          ELSE [k \in {1, 6} |->
                                  LET duration == IF k = 1 THEN 0 ELSE 5
                                  IN  Acts(<<Act(cpu, 1, duration, 5, -1)>>, <<>>)]] }

\* The thermal command of command 1 is not configured.
MCMissingThermal == {[m \in {0} |-> [MCDefault EXCEPT ![1] = LongTime(5)]]}

Perf(cmd) == [op |-> "perf", cmdId |-> cmd]
PerfEx(cmd, on) == [op |-> "perfEx", cmdId |-> cmd, on |-> on]
Status(on) == [op |-> "status", on |-> on]
DeviceMode(mode, on) == [op |-> "mode", scene |-> Scene, mode |-> mode, on |-> on]
ThermalLevel(l) == [op |-> "level", level |-> l]

\* One thread uses the long-time command and the enable flag; another one changes
\* what commands are looked up by. Both use a command that maps to the long-time one.
MCCalls ==
    [c \in {c1, c2} |->
        IF c = c1 THEN {PerfEx(1, TRUE), PerfEx(1, FALSE), Perf(6),
                        Status(TRUE), Status(FALSE)}
        ELSE {DeviceMode(day, TRUE), DeviceMode(night, TRUE), DeviceMode(day, FALSE),
              ThermalLevel(1), PerfEx(2, TRUE)}]

\* The thermal level alone changes.
MCHotCalls ==
    [c \in {c1, c2} |-> IF c = c1 THEN {PerfEx(1, TRUE), PerfEx(1, FALSE)}
                        ELSE {ThermalLevel(0), ThermalLevel(1)}]

\* A command that a hot device looks up, and no configuration has.
MCMissingCalls ==
    [c \in {c1, c2} |-> IF c = c1 THEN {PerfEx(1, TRUE), ThermalLevel(1)}
                        ELSE {Perf(5)}]

\* The instance with device modes meets the conditions of the properties it checks.
ASSUME MCConditions ==
    Calls = MCCalls => ScenesDisjoint /\ OneUser(c1)
=============================================================================
