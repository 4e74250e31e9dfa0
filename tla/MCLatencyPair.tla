---------------------------- MODULE MCLatencyPair ---------------------------
(* TLC instances of LatencyPair: two threads of one process.               *)
EXTENDS LatencyPair, TLC

CONSTANTS p1

OneProcess == [t \in CPUs |-> p1]

ByThread   == {S2Kretprobe, S2Fentry, S2Uretprobe}
ByProcess  == {S1Fentry, S1Uretprobe}
AllPairs   == ByThread \cup ByProcess

Symmetry == Permutations(CPUs)
=============================================================================
