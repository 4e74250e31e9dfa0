--------------------------- MODULE CounterService ---------------------------
(***************************************************************************)
(* What a program that counts, together with the loader that prints the    *)
(* counts every second, promises its user: a printed count is one that the *)
(* counter really had between the moment the loader asked and the moment   *)
(* it got the answer.  So a count is never invented, never lags behind     *)
(* what was counted before the question, and never goes back.              *)
(***************************************************************************)
EXTENDS Naturals

CONSTANTS Names, \* what is counted
          NoName

VARIABLES total,   \* events of each name so far
          asked,   \* the count the loader is reading, or NoName
          low,     \* its total when the loader asked
          printed  \* the last count printed for each name

vars == <<total, asked, low, printed>>

Init == /\ total = [n \in Names |-> 0]
        /\ asked = NoName
        /\ low = 0
        /\ printed = [n \in Names |-> 0]

Count(n) == /\ total' = [total EXCEPT ![n] = @ + 1]
            /\ UNCHANGED <<asked, low, printed>>

Ask(n) == /\ asked = NoName
          /\ asked' = n
          /\ low' = total[n]
          /\ UNCHANGED <<total, printed>>

Answer == /\ asked # NoName
          /\ \E v \in low..total[asked] : printed' = [printed EXCEPT ![asked] = v]
          /\ asked' = NoName
          /\ UNCHANGED <<total, low>>

Next == Answer \/ \E n \in Names : Count(n) \/ Ask(n)

Spec == Init /\ [][Next]_vars
=============================================================================
