-------------------------------- MODULE MCBvt --------------------------------
(* TLC instances of Bvt. *)
EXTENDS Bvt

\* Tested by the script although they do not attach.
Detached == {S2SkLookup, S2Tc}

\* The same main() everywhere.
Alike(mains) == {[p \in Processes |-> m] : m \in mains}
DetachedAlike == Alike(Detached)
AttachingAlike == Alike(Attaching)

\* The script tests one loader, another one being a user's; or both, in turn.
CONSTANTS p1, p2
OneTest  == {<<p1>>}
OneOrTwo == {<<p1>>, <<p1, p2>>}

\* Each main first, then one that has nothing to do with it ...
Unrelated == {[p \in Processes |-> IF p = p1 THEN m ELSE S1Kretprobe] : m \in Attaching}

\* ... and all those that share an interface, in any order.
OnOneInterface == {S1Xdp, S1Tc, S2Xdp}
Together == Unrelated \cup [Processes -> OnOneInterface]

\* What the theorems about loaders and tests ask of a main().
ASSUME MainsAssumption == /\ \A m \in AllMains : Ordered(m) /\ Detaches(m)
                          /\ \A m \in Attaching : Attaches(m)
=============================================================================
