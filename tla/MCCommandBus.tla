---------------------------- MODULE MCCommandBus ----------------------------
(* An instance of CommandBus for TLC.                                      *)
EXTENDS CommandBus

CONSTANTS a, b, poll, long, w1, w2, s1

\* Two lanes with one worker each, and two commands of one scope: a hangs in
\* the long lane, b fills its pipe and has a timeout.
TwoLanes == {poll, long}
TwoWorkers == {w1, w2}
TwoPools == [w \in TwoWorkers |-> IF w = w1 THEN poll ELSE long]
TwoJobs == {a, b}
ALong == [j \in TwoJobs |-> IF j = a THEN long ELSE poll]
OneScope == {s1}
SameScope == [j \in TwoJobs |-> s1]
JustA == {a}
JustB == {b}
None == {}
=============================================================================
