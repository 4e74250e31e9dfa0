---------------------------- MODULE MCXdpCounter -----------------------------
(* TLC instances of XdpCounter. *)
EXTENDS XdpCounter, TLC

\* Keys, elements and CPUs are interchangeable.
Symmetry == Permutations(Keys) \cup Permutations(Entries) \cup Permutations(CPUs)

\* S2 xdp and the programs that only count.
CountingOnly == {S1Uprobe, S1SkLookup, S2Xdp}
=============================================================================
