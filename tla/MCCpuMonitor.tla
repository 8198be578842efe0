---------------------------- MODULE MCCpuMonitor ---------------------------
EXTENDS CpuMonitor

CONSTANTS l1, l2, r1

MCLoops == {l1, l2}
MCAskers == {r1}
MCWorlds == {"monolith", "patient", "hasty"}
=============================================================================
