------------------------------ MODULE MCConfig ------------------------------
(* An instance of SocPerfConfig for TLC. *)
EXTENDS SocPerfConfig

CONSTANTS cpu, cpumax, gov, game

\* Resources: two names for one id, two ids for one name, a pair that is loaded
\* or not, a default that is available or not, and contents that do not parse.
Node(id, name, pair, isGov, toPerfSo, def) ==
    [id |-> id, name |-> name, pair |-> pair, isGov |-> isGov, toPerfSo |-> toPerfSo,
     def |-> def, available |-> IF toPerfSo THEN {} ELSE {1, 2}]
Element(node, content) == [node |-> node, tags |-> TRUE, content |-> content]

MCRes ==
    { Element(Node(1, cpu, 2, FALSE, FALSE, 1), TRUE),
      Element(Node(2, cpumax, 1, FALSE, FALSE, 2), TRUE),
      Element(Node(2, cpu, NoRes, FALSE, FALSE, 1), TRUE),
      Element(Node(1, cpumax, NoRes, FALSE, TRUE, 1), TRUE),
      Element(Node(1, cpu, NoRes, FALSE, FALSE, 3), FALSE),
      [Element(Node(2, cpu, NoRes, FALSE, FALSE, 1), TRUE) EXCEPT !.tags = FALSE] }

MCGov ==
    { Element(Node(2, gov, NoRes, TRUE, FALSE, 1), TRUE),
      Element(Node(1, gov, NoRes, TRUE, FALSE, 3), TRUE) }

MCScene ==
    { [name |-> game, items |-> 2, tags |-> TRUE, content |-> TRUE],
      [name |-> game, items |-> 1, tags |-> TRUE, content |-> FALSE] }

\* Commands: one without end among others, one for all modes of the device, one
\* that asks for a value that is not available, and one with a bad child after a
\* thermal level.
Duration(d) == [duration |-> d, content |-> TRUE]
Res(n, v) == [name |-> n, value |-> v, content |-> TRUE]
Act(children, lvl) == [children |-> children, thermalLvl |-> lvl]
Cmd(id, actions, modes) ==
    [id |-> id, actions |-> actions, modes |-> modes, interaction |-> TRUE, tags |-> TRUE]
To(mode, cmd) == [mode |-> mode, cmdId |-> cmd]

MCCmds ==
    { Cmd("down", <<Act(<<Duration(0), Res(cpu, 1)>>, 2),
                    Act(<<Res(cpu, 2), Duration(5)>>, -1)>>, <<>>),
      Cmd("down", <<Act(<<Res(gov, 1), Duration(5)>>, 1)>>, <<>>),
      Cmd("up", <<Act(<<Duration(5), Res(cpu, 3)>>, 3)>>, <<>>),
      Cmd("up", <<Act(<<Res(cpumax, 1), Duration(5)>>, -1)>>,
          <<To("car", "down"), To("tv", "down"), To("car", "up")>>),
      Cmd("drag", <<Act(<<Res(cpu, 1), Duration(5)>>, -1),
                    Act(<<[Duration(5) EXCEPT !.content = FALSE]>>, 0)>>, <<>>),
      [Cmd("drag", <<>>, <<>>) EXCEPT !.tags = FALSE] }

MCInter == {[cmdId |-> "down", timerType |-> 1, delayTime |-> 3]}

MCCopies == <<<<"down", "up">>, <<"fling", "drag">>>>

MCMaxElements == [resource |-> 3, boost |-> 3, camera |-> 2]

\* The loop of ParseModeCmd, pair by pair: ParseModeCmd is what it leaves.
ModeLoop(modes) ==
    FoldLeft(LAMBDA mm, x :
                IF \E k \in DOMAIN mm : mm[k].mode = x.mode
                THEN [k \in DOMAIN mm |-> IF mm[k].mode = x.mode
                                          THEN [mm[k] EXCEPT !.cmdId = x.cmdId] ELSE mm[k]]
                ELSE Append(mm, [mode |-> x.mode, cmdId |-> x.cmdId]),
             <<>>, modes)

ASSUME MCModesMatchLoop ==
    \A n \in 0 .. 4 : \A modes \in [1 .. n -> [mode : Mode, cmdId : {"down", "up"}]] :
        ParseModeCmd(modes) = ModeLoop(modes)
=============================================================================
