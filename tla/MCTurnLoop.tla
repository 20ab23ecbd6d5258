---------------------------- MODULE MCTurnLoop ----------------------------
EXTENDS TurnLoop
CONSTANTS t1, s1, s2
MCTasks == {t1}
MCSessions == {s1, s2}
=============================================================================
