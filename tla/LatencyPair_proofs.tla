------------------------- MODULE LatencyPair_proofs -------------------------
(***************************************************************************)
(* What is proved about the entry/return pairs, for any number of threads, *)
(* processes and map entries, and any depth of recursion.                  *)
(***************************************************************************)
EXTENDS LatencyPair, BpfHash_proofs, SequenceTheorems

(* Facts about the stack of calls of a thread.                             *)
LEMMA UntrackedType ==
    ASSUME NEW s \in Seq(Frame)
    PROVE  Untracked(s) \in Seq(Frame) /\ Len(Untracked(s)) = Len(s) /\ Len(s) \in Nat
<1> DEFINE g(x) == [start |-> x.start, tracked |-> FALSE]
<1>1. \A x \in Frame : g(x) \in Frame
  BY DEF Frame
<1>2. Untracked(s) = [i \in 1..Len(s) |-> g(s[i])]
  BY DEF Untracked
<1> HIDE DEF g
<1> QED
  BY <1>1, <1>2

LEMMA PushStack ==
    ASSUME NEW s \in Seq(Frame), NEW f \in Frame, NEW p, p = Append(Untracked(s), f)
    PROVE  p \in Seq(Frame) /\ p # <<>> /\ Len(p) = Len(s) + 1
BY UntrackedType, AppendProperties

LEMMA PushTop ==
    ASSUME NEW s \in Seq(Frame), NEW f \in Frame, NEW p, p = Append(Untracked(s), f)
    PROVE  p[Len(s) + 1] = f
BY UntrackedType, AppendProperties

LEMMA PushRest ==
    ASSUME NEW s \in Seq(Frame), NEW f \in Frame, NEW i \in 1..Len(s)
    PROVE  Append(Untracked(s), f)[i].start = s[i].start
<1>1. Append(Untracked(s), f)[i] = Untracked(s)[i]
  BY UntrackedType, AppendProperties
<1>2. Untracked(s)[i] = [start |-> s[i].start, tracked |-> FALSE]
  BY DEF Untracked
<1> QED
  BY <1>1, <1>2

LEMMA PushUntracks ==
    ASSUME NEW s \in Seq(Frame), NEW f \in Frame, NEW i \in 1..Len(s)
    PROVE  ~Append(Untracked(s), f)[i].tracked
<1>1. Append(Untracked(s), f)[i] = Untracked(s)[i]
  BY UntrackedType, AppendProperties
<1>2. Untracked(s)[i] = [start |-> s[i].start, tracked |-> FALSE]
  BY DEF Untracked
<1> QED
  BY <1>1, <1>2

LEMMA PopStack ==
    ASSUME NEW s \in Seq(Frame), s # <<>>, NEW p, p = SubSeq(s, 1, Len(s) - 1)
    PROVE  /\ p \in Seq(Frame) /\ Len(p) = Len(s) - 1
           /\ Len(s) \in 1..Len(s) /\ s[Len(s)] \in Frame
           /\ \A i \in 1..Len(p) : p[i] = s[i]
<1>1. Len(s) \in Nat \ {0} /\ \A i \in 1..Len(s) : s[i] \in Frame
  BY EmptySeq
<1>2. \A i \in 1..Len(s) - 1 : s[i] \in Frame
  BY <1>1
<1>3. p \in Seq(Frame) /\ Len(p) = Len(s) - 1
  <2> DEFINE n == Len(s) - 1
  <2>1. n \in Nat /\ p = SubSeq(s, 1, n) /\ \A i \in 1..n : s[i] \in Frame
    BY <1>1, <1>2
  <2> HIDE DEF n
  <2>2. p \in Seq(Frame) /\ Len(p) = IF 1 <= n THEN n - 1 + 1 ELSE 0
    BY <2>1, SubSeqProperties
  <2>3. Len(p) = n
    BY <2>1, <2>2
  <2> QED
    BY <2>2, <2>3 DEF n
<1>4. \A i \in 1..Len(s) - 1 : p[i] = s[i]
  BY <1>1
<1> QED
  BY <1>1, <1>3, <1>4

LEMMA EntryRest ==
    ASSUME NEW t, NEW f \in Frame, stack[t] \in Seq(Frame),
           stack'[t] = Append(Untracked(stack[t]), f)
    PROVE  /\ \A i \in 1..Len(stack[t]) : stack'[t][i].start = stack[t][i].start
           /\ \A i \in 1..Len(stack[t]) : ~stack'[t][i].tracked
BY PushRest, PushUntracks

(* The part of the assumption on the constants that the proofs use.        *)
LEMMA ThreadKeys == CPUs \subseteq Keys /\ ProcOf \in [CPUs -> Keys]
BY PairAssumption DEF Threads

USE HashAssumption, ThreadKeys DEF Threads

(* The types of the variables are preserved by every step.                 *)
LEMMA MeasuredType ==
    ASSUME NEW t \in Threads, TypeOK, stack[t] # <<>>, NEW found \in BOOLEAN, NEW lat \in Int,
           NEW exit \in Nat, Measured(t, found, lat, exit)
    PROVE  reports' \in SUBSET Report
<1>1. Innermost(t) \in Frame
  BY PopStack DEF Innermost, TypeOK
<1>2. exit - Innermost(t).start \in Int /\ Innermost(t).tracked \in BOOLEAN
  BY <1>1 DEF Frame
<1>3. [thread |-> t, tracked |-> Innermost(t).tracked, found |-> found,
       latency |-> lat, own |-> exit - Innermost(t).start] \in Report
  BY <1>2 DEF Report
<1> QED
  BY <1>3 DEF Measured, TypeOK

LEMMA OuterType ==
    ASSUME NEW t \in Threads, TypeOK, stack[t] # <<>>, stack' = [stack EXCEPT ![t] = Outer(t)]
    PROVE  stack' \in [Threads -> Seq(Frame)]
<1>1. Outer(t) \in Seq(Frame)
  BY PopStack DEF Outer, TypeOK
<1> QED
  BY <1>1 DEF TypeOK

LEMMA TypeStep == TypeOK /\ [Next]_vars => TypeOK'
<1> SUFFICES ASSUME TypeOK, [Next]_vars PROVE TypeOK'
  OBVIOUS
<1>0. /\ HashTypeOK(Nat) /\ now \in Nat /\ run \in [Threads -> Run]
      /\ stack \in [Threads -> Seq(Frame)] /\ \A t \in Threads : KeyOf(t) \in Keys
  BY DEF TypeOK, KeyOf
<1>1. ASSUME Tick PROVE TypeOK'
  BY <1>1 DEF Tick, TypeOK, HashTypeOK, hashVars, hist
<1>2. ASSUME NEW t \in Threads, Entry(t) PROVE TypeOK'
  <2>0. [start |-> now, tracked |-> entry[KeyOf(t)] # NoElem \/ free # {}] \in Frame
    BY <1>0 DEF Frame
  <2>1. PICK f \in Frame : stack' = [stack EXCEPT ![t] = Append(Untracked(stack[t]), f)]
    BY <1>2, <2>0 DEF Entry
  <2>2. stack'[t] = Append(Untracked(stack[t]), f) /\ stack[t] \in Seq(Frame)
    BY <1>0, <2>1
  <2>3. stack' \in [Threads -> Seq(Frame)] /\ stack'[t] # <<>>
    BY <1>0, <2>1, <2>2, PushStack
  <2>4. HashTypeOK(Nat)'
    BY <1>0, <1>2, UpdateType DEF Entry
  <2> QED
    BY <1>2, <2>1, <2>3, <2>4 DEF Entry, TypeOK
<1>3. ASSUME NEW t \in Threads, Lookup(t) PROVE TypeOK'
  BY <1>0, <1>3 DEF Lookup, TypeOK, HashTypeOK, hashVars, hist, Run
<1>4. ASSUME NEW t \in Threads, Missing(t) PROVE TypeOK'
  <2>1. reports' \in SUBSET Report
    <3>1. stack[t] # <<>> /\ Measured(t, FALSE, 0, now)
      BY <1>4 DEF Missing
    <3>2. FALSE \in BOOLEAN /\ 0 \in Int /\ now \in Nat
      BY <1>0
    <3> QED
      BY <3>1, <3>2, MeasuredType, Zenon
  <2>2. CASE handler.zeroIfMissing
    <3>1. run' = [run EXCEPT ![t] = [Idle EXCEPT !.next = "report"]] /\ stack[t] # <<>>
      BY <1>4, <2>2 DEF Missing
    <3>2. [Idle EXCEPT !.next = "report"] \in Run
          /\ [Idle EXCEPT !.next = "report"].next = "report"
      BY DEF Run, Idle
    <3> QED
      BY <1>0, <1>4, <2>1, <2>2, <3>1, <3>2 DEF Missing, TypeOK, HashTypeOK, hashVars
  <2>3. CASE ~handler.zeroIfMissing
    <3>1. stack' \in [Threads -> Seq(Frame)]
      BY <1>4, <2>3, OuterType DEF Missing
    <3> QED
      BY <1>0, <1>4, <2>1, <2>3, <3>1 DEF Missing, TypeOK, HashTypeOK, hashVars
  <2> QED
    BY <2>2, <2>3
<1>9. ASSUME NEW t \in Threads, Clock(t) PROVE TypeOK'
  <2> DEFINE r == [run[t] EXCEPT !.next = "read", !.exit = now]
  <2>1. stack[t] # <<>> /\ run[t].ptr \in Elems /\ run[t] \in Run
    BY <1>0, <1>9 DEF Clock, TypeOK
  <2>2. r \in Run /\ r.ptr = run[t].ptr
    BY <1>0, <2>1 DEF Run
  <2>3. run' = [run EXCEPT ![t] = r]
    BY <1>9 DEF Clock
  <2> HIDE DEF r
  <2>4. run' \in [Threads -> Run] /\ run'[t] = r /\ \A j \in Threads : j # t => run'[j] = run[j]
    BY <1>0, <2>2, <2>3
  <2> QED
    BY <1>0, <1>9, <2>1, <2>2, <2>4 DEF Clock, TypeOK, HashTypeOK, hashVars, hist
<1>5. ASSUME NEW t \in Threads, Read(t) PROVE TypeOK'
  <2>1. stack[t] # <<>> /\ run[t].ptr \in Elems /\ run[t].exit \in Nat
    BY <1>0, <1>5 DEF Read, TypeOK, Run
  <2>2. run[t].exit - value[run[t].ptr] \in Int
    BY <1>0, <2>1 DEF HashTypeOK
  <2>3. reports' \in SUBSET Report
    BY <1>5, <2>1, <2>2, MeasuredType DEF Read
  <2>4. \E n \in {"delete", "report"} : run' = [run EXCEPT ![t] = [Idle EXCEPT !.next = n]]
    BY <1>5 DEF Read
  <2>5. PICK n \in {"delete", "report"} : run' = [run EXCEPT ![t] = [Idle EXCEPT !.next = n]]
    BY <2>4
  <2>6. [Idle EXCEPT !.next = n] \in Run /\ [Idle EXCEPT !.next = n].next = n
    BY DEF Run, Idle
  <2>7. run' \in [Threads -> Run] /\ \A j \in Threads : j # t => run'[j] = run[j]
    BY <1>0, <2>5, <2>6
  <2>8. run'[t].next \notin {"clock", "read"}
    BY <1>0, <2>5, <2>6
  <2> QED
    BY <1>0, <1>5, <2>1, <2>3, <2>7, <2>8 DEF Read, TypeOK, HashTypeOK, hashVars
<1>6. ASSUME NEW t \in Threads, Emit(t) \/ DeleteEntry(t) PROVE TypeOK'
  <2>1. HashTypeOK(Nat)' /\ now' = now /\ UNCHANGED <<handler, reports, calls, gone>>
    BY <1>0, <1>6, DeleteType DEF Emit, DeleteEntry, HashTypeOK, hashVars
  <2>2. stack[t] # <<>> /\ run[t].next # "idle"
    BY <1>6 DEF Emit, DeleteEntry, TypeOK
  <2>3. CASE Return(t)
    <3>1. stack' \in [Threads -> Seq(Frame)]
      BY <2>2, <2>3, OuterType DEF Return
    <3> QED
      BY <1>0, <2>1, <2>3, <3>1 DEF Return, TypeOK, Run, Idle
  <2>4. CASE ~Return(t)
    <3>1. /\ stack' = stack
          /\ \E n \in {"delete", "report"} : run' = [run EXCEPT ![t] = [run[t] EXCEPT !.next = n]]
      BY <1>6, <2>4 DEF Emit, DeleteEntry
    <3>2. PICK n \in {"delete", "report"} : run' = [run EXCEPT ![t] = [run[t] EXCEPT !.next = n]]
      BY <3>1
    <3>3. [run[t] EXCEPT !.next = n] \in Run /\ [run[t] EXCEPT !.next = n].next = n
      BY <1>0 DEF Run
    <3> QED
      BY <1>0, <2>1, <2>2, <3>1, <3>2, <3>3 DEF TypeOK
  <2> QED
    BY <2>3, <2>4
<1>7. ASSUME NEW t \in Threads, Vanish(t) PROVE TypeOK'
  <2>1. <<>> \in Seq(Frame) /\ Len(<<>>) = 0
    OBVIOUS
  <2> QED
    BY <1>0, <1>7, <2>1 DEF Vanish, TypeOK, HashTypeOK, hashVars
<1>8. ASSUME UNCHANGED vars PROVE TypeOK'
  BY <1>8 DEF vars, TypeOK, HashTypeOK, hashVars, hist
<1> QED
  BY <1>1, <1>2, <1>3, <1>4, <1>5, <1>6, <1>7, <1>8, <1>9 DEF Next, Exit

(* Type correctness of every pair, S1 and S2.                              *)
THEOREM TypeCorrect == Spec => []TypeOK
<1>1. Init => TypeOK
  BY DEF Init, HashInit, TypeOK, HashTypeOK, Run, Idle, Elems
<1>2. QED
  BY <1>1, TypeStep, PTL DEF Spec
-----------------------------------------------------------------------------
(* The pairs that key the map by thread measure the right call.            *)
ByThread == handler.byThread

Inv == TypeOK /\ OneOwner /\ OwnEntry /\ MeasuresOwnCall

LEMMA InvFacts ==
    ASSUME ByThread, Inv
    PROVE  /\ TypeOK /\ OneOwner /\ OwnEntry /\ MeasuresOwnCall
           /\ HashTypeOK(Nat) /\ now \in Nat
           /\ run \in [CPUs -> Run] /\ stack \in [CPUs -> Seq(Frame)]
           /\ \A t \in CPUs : KeyOf(t) = t /\ t \in Keys
           /\ entry \in [Keys -> Elems \cup {NoElem}] /\ NoElem \notin Elems
BY DEF ByThread, Inv, TypeOK, KeyOf, HashTypeOK, Elems

(* A thread whose entry, call stack and program are not touched keeps its  *)
(* part of OwnEntry.                                                       *)
LEMMA OthersKeep ==
    ASSUME NEW j, OwnEntryOf(j), run'[j] = run[j], stack'[j] = stack[j], handler' = handler,
           entry'[j] = entry[j], entry[j] # NoElem => value'[entry[j]] = value[entry[j]]
    PROVE  OwnEntryOf(j)'
BY DEF OwnEntryOf, Innermost

(* The calls a thread is nested in are untracked, so it goes on with no    *)
(* entry once the innermost one has returned.                              *)
LEMMA ReturnKeeps ==
    ASSUME NEW t, OwnEntryOf(t), stack[t] \in Seq(Frame), stack[t] # <<>>,
           stack'[t] = Outer(t), run'[t].next = "idle", entry'[t] = NoElem
    PROVE  OwnEntryOf(t)'
<1>1. /\ stack'[t] \in Seq(Frame) /\ Len(stack'[t]) = Len(stack[t]) - 1
      /\ Len(stack[t]) \in Nat
      /\ \A i \in 1..Len(stack'[t]) : stack'[t][i] = stack[t][i]
  BY PopStack DEF Outer
<1>2. \A i \in 1..Len(stack'[t]) : ~stack'[t][i].tracked
  BY <1>1 DEF OwnEntryOf
<1>3. stack'[t] # <<>> => Len(stack'[t]) \in 1..Len(stack'[t])
  BY <1>1, PopStack
<1>4. stack'[t] # <<>> => ~Innermost(t)'.tracked
  BY <1>2, <1>3 DEF Innermost
<1>5. \A i \in 1..Len(stack'[t]) - 1 : ~stack'[t][i].tracked
  BY <1>1, <1>2
<1> QED
  BY <1>4, <1>5 DEF OwnEntryOf

(* What a return program reports keeps MeasuresOwnCall when it is right.   *)
LEMMA ReportKeeps ==
    ASSUME NEW t, NEW found, NEW lat, NEW exit, MeasuresOwnCall, Measured(t, found, lat, exit),
           found <=> Innermost(t).tracked, found => lat = exit - Innermost(t).start
    PROVE  MeasuresOwnCall'
BY DEF MeasuresOwnCall, Measured

LEMMA EntryKeeps ==
    ASSUME ByThread, Inv, NEW t \in CPUs, Entry(t)
    PROVE  OneOwner' /\ OwnEntry'
<1>0. PICK f : /\ f \in Frame /\ f.start = now /\ (f.tracked <=> entry[t] # NoElem \/ free # {})
               /\ stack' = [stack EXCEPT ![t] = Append(Untracked(stack[t]), f)]
  <2> DEFINE f == [start |-> now, tracked |-> entry[KeyOf(t)] # NoElem \/ free # {}]
  <2>1. f \in Frame /\ f.start = now /\ (f.tracked <=> entry[t] # NoElem \/ free # {})
    BY InvFacts DEF Frame
  <2> QED
    BY <2>1 DEF Entry
<1>1. Update(t, t, now) /\ run[t].next = "idle" /\ UNCHANGED <<handler, now, run>>
  BY InvFacts DEF Entry
<1>2. OneOwner'
  BY <1>1, InvFacts, UpdateOneOwner
<1>3. ASSUME NEW j \in CPUs, j # t PROVE OwnEntryOf(j)'
  <2>1. OwnEntryOf(j) /\ handler' = handler /\ run' = run
    BY <1>1, InvFacts DEF OwnEntry
  <2>2. entry'[j] = entry[j] /\ (entry[j] # NoElem => value'[entry[j]] = value[entry[j]])
    BY <1>1, <1>3, InvFacts, UpdateFrame
  <2>3. stack'[j] = stack[j]
    BY <1>0, <1>3, InvFacts
  <2> QED
    BY <2>1, <2>2, <2>3 DEF OwnEntryOf, Innermost
<1>5. /\ entry'[t] # NoElem <=> f.tracked
      /\ entry'[t] # NoElem => value'[entry'[t]] = now
  BY <1>0, <1>1, InvFacts DEF Update, Replace, Link, Refuse, hashVars, HashTypeOK
<1>6. stack'[t] = Append(Untracked(stack[t]), f) /\ stack[t] \in Seq(Frame)
  BY <1>0, InvFacts
<1>7. /\ stack'[t] # <<>> /\ Len(stack'[t]) = Len(stack[t]) + 1 /\ Len(stack[t]) \in Nat
      /\ stack'[t][Len(stack[t]) + 1] = f
  <2> DEFINE new == Append(Untracked(stack[t]), f)
  <2>1. f \in Frame
    BY <1>0
  <2>2. new # <<>> /\ Len(new) = Len(stack[t]) + 1 /\ Len(stack[t]) \in Nat
    BY <1>6, <2>1, PushStack
  <2>3. new[Len(stack[t]) + 1] = f
    BY <1>6, <2>1, PushTop
  <2> HIDE DEF new
  <2>4. stack'[t] = new
    BY <1>6 DEF new
  <2> QED
    BY <2>2, <2>3, <2>4
<1>8. Innermost(t)' = f
  BY <1>7 DEF Innermost
<1>9. \A i \in 1..Len(stack'[t]) - 1 : ~stack'[t][i].tracked
  <2>1. \A i \in 1..Len(stack[t]) : ~stack'[t][i].tracked
    BY <1>0, <1>6, EntryRest
  <2> QED
    BY <2>1, <1>7
<1>10. OwnEntryOf(t)'
  BY <1>0, <1>1, <1>5, <1>8, <1>9 DEF OwnEntryOf
<1> QED
  BY <1>2, <1>3, <1>10 DEF OwnEntry

LEMMA InvStep == ByThread /\ Inv /\ [Next]_vars => Inv'
<1> SUFFICES ASSUME ByThread, Inv, [Next]_vars PROVE Inv'
  OBVIOUS
<1>0. TypeOK'
  BY InvFacts, TypeStep
<1>1. CASE Tick
  BY <1>0, <1>1, InvFacts DEF Tick, Inv, OneOwner, OwnEntry, OwnEntryOf, Innermost,
     MeasuresOwnCall, hashVars, hist
<1>2. ASSUME NEW t \in CPUs, Entry(t) PROVE Inv'
  <2>1. MeasuresOwnCall'
    BY <1>2, InvFacts DEF Entry, MeasuresOwnCall
  <2> QED
    BY <1>0, <1>2, <2>1, EntryKeeps DEF Inv
<1>9. ASSUME NEW t \in CPUs, OneOwner', MeasuresOwnCall', OwnEntryOf(t)', handler' = handler,
             \A j \in CPUs \ {t} : entry'[j] = entry[j] /\ run'[j] = run[j] /\ stack'[j] = stack[j],
             value' = value
      PROVE  Inv'
  <2>1. \A j \in CPUs \ {t} : OwnEntryOf(j)'
    BY <1>9, InvFacts, OthersKeep DEF OwnEntry
  <2> QED
    BY <1>0, <1>9, <2>1 DEF Inv, OwnEntry
<1>3. ASSUME NEW t \in CPUs, Lookup(t) PROVE Inv'
  <2>1. OneOwner' /\ MeasuresOwnCall' /\ handler' = handler /\ value' = value
    BY <1>3, InvFacts DEF Lookup, OneOwner, MeasuresOwnCall, hashVars, hist
  <2>2. \A j \in CPUs \ {t} : entry'[j] = entry[j] /\ run'[j] = run[j] /\ stack'[j] = stack[j]
    BY <1>3, InvFacts DEF Lookup, hashVars, hist
  <2>3. run'[t].next = "clock" /\ run'[t].ptr = entry[t]
    BY <1>3, InvFacts DEF Lookup
  <2>4. OwnEntryOf(t)'
    BY <1>3, <2>3, InvFacts DEF Lookup, OwnEntry, OwnEntryOf, Innermost, hashVars, hist
  <2> QED
    BY <1>9, <2>1, <2>2, <2>4
<1>4. ASSUME NEW t \in CPUs, Missing(t) PROVE Inv'
  <2>0. OwnEntryOf(t) /\ entry[t] = NoElem /\ run[t].next = "idle" /\ stack[t] # <<>>
        /\ stack[t] \in Seq(Frame)
    BY <1>4, InvFacts DEF Missing, OwnEntry
  <2>1. MeasuresOwnCall'
    BY <1>4, <2>0, InvFacts, ReportKeeps DEF Missing, OwnEntryOf
  <2>2. OneOwner' /\ handler' = handler /\ value' = value /\ entry' = entry
    BY <1>4, InvFacts DEF Missing, OneOwner, hashVars
  <2>3. \A j \in CPUs \ {t} : run'[j] = run[j] /\ stack'[j] = stack[j]
    BY <1>4, InvFacts DEF Missing
  <2>4. OwnEntryOf(t)'
    <3>1. CASE handler.zeroIfMissing
      BY <1>4, <2>0, <2>2, <3>1, InvFacts DEF Missing, OwnEntryOf, Idle
    <3>2. CASE ~handler.zeroIfMissing
      <4>1. stack'[t] = Outer(t) /\ run' = run
        BY <1>4, <3>2, InvFacts DEF Missing
      <4> QED
        BY <2>0, <2>2, <4>1, ReturnKeeps
    <3> QED
      BY <3>1, <3>2
  <2> QED
    BY <1>9, <2>1, <2>2, <2>3, <2>4
<1>11. ASSUME NEW t \in CPUs, Clock(t) PROVE Inv'
  <2>0. OwnEntryOf(t) /\ run[t].next = "clock" /\ run[t] \in Run
    BY <1>11, InvFacts DEF Clock, OwnEntry
  <2>1. OneOwner' /\ MeasuresOwnCall' /\ UNCHANGED <<handler, value, entry, stack>>
    BY <1>11, InvFacts DEF Clock, OneOwner, MeasuresOwnCall, hashVars, hist
  <2>2. \A j \in CPUs \ {t} : run'[j] = run[j]
    BY <1>11, InvFacts DEF Clock
  <2>3. run'[t].next = "read" /\ run'[t].ptr = run[t].ptr
    BY <1>11, <2>0, InvFacts DEF Clock, Run
  <2>4. OwnEntryOf(t)'
    BY <2>0, <2>1, <2>3 DEF OwnEntryOf, Innermost
  <2> QED
    BY <1>9, <2>1, <2>2, <2>4
<1>5. ASSUME NEW t \in CPUs, Read(t) PROVE Inv'
  <2>0. OwnEntryOf(t) /\ run[t].next = "read" /\ run[t].ptr \in Elems /\ stack[t] # <<>>
    BY <1>5, InvFacts DEF Read, OwnEntry, TypeOK
  <2>1. entry[t] # NoElem /\ Innermost(t).tracked /\ value[run[t].ptr] = Innermost(t).start
    BY <2>0, InvFacts DEF OwnEntryOf
  <2>2. MeasuresOwnCall'
    BY <1>5, <2>1, InvFacts, ReportKeeps DEF Read
  <2>3. OneOwner' /\ handler' = handler /\ value' = value /\ entry' = entry /\ stack' = stack
    BY <1>5, InvFacts DEF Read, OneOwner, hashVars
  <2>4. \A j \in CPUs \ {t} : run'[j] = run[j]
    BY <1>5, InvFacts DEF Read
  <2>5. run'[t].next = IF handler.deleteFirst THEN "delete" ELSE "report"
    BY <1>5, InvFacts DEF Read, Idle
  <2>6. OwnEntryOf(t)'
    BY <2>0, <2>3, <2>5 DEF OwnEntryOf
  <2> QED
    BY <1>9, <2>2, <2>3, <2>4, <2>6
<1>6. ASSUME NEW t \in CPUs, Emit(t) PROVE Inv'
  <2>0. OwnEntryOf(t) /\ run[t].next = "report" /\ stack[t] # <<>> /\ stack[t] \in Seq(Frame)
    BY <1>6, InvFacts DEF Emit, OwnEntry, TypeOK
  <2>1. OneOwner' /\ MeasuresOwnCall' /\ handler' = handler /\ value' = value /\ entry' = entry
    BY <1>6, InvFacts DEF Emit, OneOwner, MeasuresOwnCall, hashVars
  <2>2. \A j \in CPUs \ {t} : run'[j] = run[j] /\ stack'[j] = stack[j]
    BY <1>6, InvFacts DEF Emit, Return
  <2>3. OwnEntryOf(t)'
    <3>1. CASE handler.deleteFirst
      <4>1. stack'[t] = Outer(t) /\ run'[t].next = "idle" /\ entry'[t] = NoElem
        BY <1>6, <2>0, <2>1, <3>1, InvFacts DEF Emit, Return, Idle, OwnEntryOf
      <4> QED
        BY <2>0, <4>1, ReturnKeeps
    <3>2. CASE ~handler.deleteFirst
      <4>1. stack' = stack /\ run'[t].next = "delete"
        BY <1>6, <3>2, InvFacts DEF Emit, Run
      <4> QED
        BY <2>0, <2>1, <4>1 DEF OwnEntryOf
    <3> QED
      BY <3>1, <3>2
  <2> QED
    BY <1>9, <2>1, <2>2, <2>3
<1>7. ASSUME NEW t \in CPUs, DeleteEntry(t) PROVE Inv'
  <2>0. /\ OwnEntryOf(t) /\ run[t].next = "delete" /\ stack[t] # <<>> /\ stack[t] \in Seq(Frame)
        /\ Delete(t)
    BY <1>7, InvFacts DEF DeleteEntry, OwnEntry, TypeOK
  <2>1. OneOwner'
    BY <2>0, InvFacts, DeleteOneOwner
  <2>2. MeasuresOwnCall' /\ handler' = handler
    BY <1>7, InvFacts DEF DeleteEntry, MeasuresOwnCall
  <2>3. value' = value /\ entry'[t] = NoElem /\ \A j \in CPUs \ {t} : entry'[j] = entry[j]
    BY <2>0, InvFacts DEF Delete
  <2>4. \A j \in CPUs \ {t} : run'[j] = run[j] /\ stack'[j] = stack[j]
    BY <1>7, InvFacts DEF DeleteEntry, Return
  <2>5. OwnEntryOf(t)'
    <3>1. CASE handler.deleteFirst
      <4>1. stack' = stack /\ run'[t].next = "report"
        BY <1>7, <3>1, InvFacts DEF DeleteEntry, Run
      <4> QED
        BY <2>0, <2>3, <4>1 DEF OwnEntryOf
    <3>2. CASE ~handler.deleteFirst
      <4>1. stack'[t] = Outer(t) /\ run'[t].next = "idle"
        BY <1>7, <3>2, InvFacts DEF DeleteEntry, Return, Idle
      <4> QED
        BY <2>0, <2>3, <4>1, ReturnKeeps
    <3> QED
      BY <3>1, <3>2
  <2> QED
    BY <1>9, <2>1, <2>2, <2>3, <2>4, <2>5
<1>8. ASSUME NEW t \in CPUs, Vanish(t) PROVE Inv'
  <2>1. OneOwner' /\ MeasuresOwnCall' /\ UNCHANGED <<handler, entry, value, run>>
    BY <1>8, InvFacts DEF Vanish, OneOwner, MeasuresOwnCall, hashVars
  <2>2. stack'[t] = <<>> /\ run[t].next = "idle" /\ \A j \in CPUs \ {t} : stack'[j] = stack[j]
    BY <1>8, InvFacts DEF Vanish
  <2>3. \A i \in 1..Len(stack'[t]) - 1 : ~stack'[t][i].tracked
    BY <2>2
  <2>4. OwnEntryOf(t)'
    BY <2>1, <2>2, <2>3 DEF OwnEntryOf
  <2> QED
    BY <1>9, <2>1, <2>2, <2>4
<1>10. CASE UNCHANGED vars
  BY <1>0, <1>10, InvFacts DEF vars, hashVars, hist, Inv, OneOwner, OwnEntry, OwnEntryOf,
     Innermost, MeasuresOwnCall
<1> QED
  BY <1>1, <1>2, <1>3, <1>4, <1>5, <1>6, <1>7, <1>8, <1>10, <1>11 DEF Next, Exit

(* The pair that is attached stays attached.                               *)
LEMMA HandlerFixed == [Next]_vars => handler' = handler
BY DEF Next, Exit, Tick, Entry, Lookup, Missing, Clock, Read, Emit, DeleteEntry, Vanish, vars

(* The S2 pairs measure the call that returns, whatever the other threads  *)
(* do, however deep the recursion and whether or not the map is full.      *)
THEOREM MeasureCorrect == Spec => []ThreadPairsExact
<1> DEFINE J == TypeOK /\ (ByThread => Inv)
<1>1. Init => J
  BY DEF Init, HashInit, Inv, TypeOK, HashTypeOK, Run, Idle, Elems,
     OneOwner, OwnEntry, OwnEntryOf, MeasuresOwnCall
<1>2. J /\ [Next]_vars => J'
  <2>1. J /\ [Next]_vars => TypeOK'
    BY TypeStep
  <2>2. [Next]_vars => (ByThread' <=> ByThread)
    BY HandlerFixed DEF ByThread
  <2> QED
    BY <2>1, <2>2, InvStep
<1>3. J => ThreadPairsExact
  BY DEF ThreadPairsExact, ByThread, Inv
<1>4. QED
  BY <1>1, <1>2, <1>3, PTL DEF Spec
-----------------------------------------------------------------------------
(* No element is in two places, for any pair.                              *)
LEMMA OwnerStep == TypeOK /\ OneOwner /\ [Next]_vars => OneOwner'
<1> SUFFICES ASSUME TypeOK, OneOwner, [Next]_vars PROVE OneOwner'
  OBVIOUS
<1>0. HashTypeOK(Nat) /\ \A t \in CPUs : KeyOf(t) \in Keys
  BY DEF TypeOK, KeyOf
<1>1. ASSUME NEW t \in CPUs, Entry(t) PROVE OneOwner'
  BY <1>0, <1>1, UpdateOneOwner DEF Entry
<1>2. ASSUME NEW t \in CPUs, DeleteEntry(t) PROVE OneOwner'
  BY <1>0, <1>2, DeleteOneOwner DEF DeleteEntry
<1>3. ASSUME UNCHANGED hashVars PROVE OneOwner'
  BY <1>3 DEF hashVars, OneOwner
<1>4. ASSUME NEW t \in CPUs,
             Lookup(t) \/ Missing(t) \/ Clock(t) \/ Read(t) \/ Emit(t) \/ Vanish(t)
      PROVE  OneOwner'
  BY <1>3, <1>4 DEF Lookup, Missing, Clock, Read, Emit, Vanish
<1>5. CASE Tick \/ UNCHANGED vars
  BY <1>3, <1>5 DEF Tick, vars
<1> QED
  BY <1>1, <1>2, <1>4, <1>5 DEF Next, Exit

(* The reason why the pairs keyed by thread are right, in every state; and *)
(* for all pairs that an element has one owner.                            *)
THEOREM PairCorrect == Spec => []PairInv
<1> DEFINE J == TypeOK /\ OneOwner /\ (ByThread => Inv)
<1>1. Init => J
  BY DEF Init, HashInit, Inv, TypeOK, HashTypeOK, Run, Idle, Elems,
     OneOwner, OwnEntry, OwnEntryOf, MeasuresOwnCall
<1>2. J /\ [Next]_vars => J'
  <2>1. [Next]_vars => (ByThread' <=> ByThread)
    BY HandlerFixed DEF ByThread
  <2> QED
    BY <2>1, TypeStep, OwnerStep, InvStep
<1>3. J => PairInv
  BY DEF PairInv, ByThread, Inv
<1> QED
  BY <1>1, <1>2, <1>3, PTL DEF Spec
-----------------------------------------------------------------------------
(* Nothing is left behind.                                                 *)

(* t is in the function and will look its entry up, or has yet to delete it. *)
Owes(t) == /\ stack[t] # <<>>
           /\ \/ run[t].next \in {"idle", "clock", "read", "delete"}
              \/ run[t].next = "report" /\ ~handler.deleteFirst

(* For every entry there is a thread that will delete it, or was killed.   *)
OwedInv == \A k \in Keys : entry[k] # NoElem =>
              \E t \in CPUs : KeyOf(t) = k /\ (Owes(t) \/ t \in gone)

(* A step of t that touches at most the entry of its own key: what other   *)
(* threads owe they still do.                                              *)
LEMMA OwedKeeps ==
    ASSUME TypeOK, OwedInv, NEW t \in CPUs, UNCHANGED handler, gone \subseteq gone',
           \A k \in Keys \ {KeyOf(t)} : entry'[k] = entry[k],
           \A j \in CPUs \ {t} : run'[j] = run[j] /\ stack'[j] = stack[j],
           \/ Owes(t)' \/ t \in gone' \/ entry'[KeyOf(t)] = NoElem
           \/ ~Owes(t) /\ t \notin gone /\ UNCHANGED entry
    PROVE  OwedInv'
<1> SUFFICES ASSUME NEW k \in Keys, entry'[k] # NoElem
             PROVE  \E j \in CPUs : KeyOf(j)' = k /\ (Owes(j)' \/ j \in gone')
  BY DEF OwedInv
<1>1. \A j \in CPUs : KeyOf(j)' = KeyOf(j)
  BY DEF KeyOf
<1>2. \A j \in CPUs \ {t} : Owes(j) \/ j \in gone => Owes(j)' \/ j \in gone'
  BY DEF Owes
<1>3. CASE Owes(t)' \/ t \in gone'
  <2>1. CASE k = KeyOf(t)
    BY <1>1, <1>3, <2>1
  <2>2. CASE k # KeyOf(t)
    <3>1. PICK j \in CPUs : KeyOf(j) = k /\ (Owes(j) \/ j \in gone)
      BY <2>2 DEF OwedInv
    <3> QED
      BY <1>1, <1>2, <2>2, <3>1
  <2> QED
    BY <2>1, <2>2
<1>4. CASE entry'[KeyOf(t)] = NoElem
  <2>1. PICK j \in CPUs : KeyOf(j) = k /\ (Owes(j) \/ j \in gone)
    BY <1>4 DEF OwedInv
  <2> QED
    BY <1>1, <1>2, <1>4, <2>1
<1>5. CASE ~Owes(t) /\ t \notin gone /\ UNCHANGED entry
  <2>1. PICK j \in CPUs : KeyOf(j) = k /\ (Owes(j) \/ j \in gone)
    BY <1>5 DEF OwedInv
  <2> QED
    BY <1>1, <1>2, <1>5, <2>1
<1> QED
  BY <1>3, <1>4, <1>5

LEMMA OwedStep == TypeOK /\ OneOwner /\ OwedInv /\ [Next]_vars => OwedInv'
<1> SUFFICES ASSUME TypeOK, OneOwner, OwedInv, [Next]_vars PROVE OwedInv'
  OBVIOUS
<1>0. /\ HashTypeOK(Nat) /\ run \in [CPUs -> Run] /\ stack \in [CPUs -> Seq(Frame)]
      /\ entry \in [Keys -> Elems \cup {NoElem}]
      /\ \A t \in CPUs : KeyOf(t) \in Keys
  BY DEF TypeOK, HashTypeOK, KeyOf
<1>1. ASSUME NEW t \in CPUs, Entry(t) PROVE OwedInv'
  <2>1. /\ run[t].next = "idle" /\ UNCHANGED <<handler, run, gone>>
        /\ \A j \in CPUs \ {t} : stack'[j] = stack[j]
    BY <1>0, <1>1 DEF Entry
  <2>2. stack'[t] # <<>>
    <3>1. PICK f \in Frame : stack' = [stack EXCEPT ![t] = Append(Untracked(stack[t]), f)]
      <4> DEFINE f == [start |-> now, tracked |-> entry[KeyOf(t)] # NoElem \/ free # {}]
      <4>1. f \in Frame
        BY DEF Frame, TypeOK
      <4> QED
        BY <1>1, <4>1 DEF Entry
    <3>2. stack'[t] = Append(Untracked(stack[t]), f) /\ stack[t] \in Seq(Frame)
      BY <1>0, <3>1
    <3> QED
      BY <3>1, <3>2, PushStack
  <2>3. \A k \in Keys \ {KeyOf(t)} : entry'[k] = entry[k]
    BY <1>0, <1>1, UpdateFrame DEF Entry
  <2>4. Owes(t)'
    BY <2>1, <2>2 DEF Owes
  <2> QED
    BY <2>1, <2>3, <2>4, OwedKeeps
<1>2. ASSUME NEW t \in CPUs, Lookup(t) \/ Clock(t) \/ Read(t) PROVE OwedInv'
  <2>1. /\ UNCHANGED <<handler, gone, entry, stack>>
        /\ \A j \in CPUs \ {t} : run'[j] = run[j]
    BY <1>0, <1>2 DEF Lookup, Clock, Read, hashVars, hist
  <2>2. stack[t] # <<>>
    BY <1>2 DEF Lookup, Clock, Read, TypeOK
  <2>3. \/ run'[t].next \in {"clock", "read", "delete"}
        \/ run'[t].next = "report" /\ ~handler.deleteFirst
    <3>1. CASE Lookup(t)
      BY <1>0, <3>1 DEF Lookup
    <3>2. CASE Clock(t)
      <4>1. run[t] \in Run
        BY <1>0
      <4> QED
        BY <1>0, <3>2, <4>1 DEF Clock, Run
    <3>3. CASE Read(t)
      <4>1. run'[t].next = IF handler.deleteFirst THEN "delete" ELSE "report"
        BY <1>0, <3>3 DEF Read, Idle
      <4> QED
        BY <4>1
    <3> QED
      BY <1>2, <3>1, <3>2, <3>3
  <2>4. Owes(t)'
    BY <2>1, <2>2, <2>3 DEF Owes
  <2> QED
    BY <2>1, <2>4, OwedKeeps
<1>3. ASSUME NEW t \in CPUs, Missing(t) PROVE OwedInv'
  <2>1. /\ UNCHANGED <<handler, gone, entry>> /\ entry[KeyOf(t)] = NoElem
        /\ \A j \in CPUs \ {t} : run'[j] = run[j] /\ stack'[j] = stack[j]
    BY <1>0, <1>3 DEF Missing, hashVars
  <2> QED
    BY <2>1, OwedKeeps
<1>4. ASSUME NEW t \in CPUs, Emit(t) PROVE OwedInv'
  <2>1. /\ UNCHANGED <<handler, gone, entry>> /\ run[t].next = "report"
        /\ \A j \in CPUs \ {t} : run'[j] = run[j] /\ stack'[j] = stack[j]
    BY <1>0, <1>4 DEF Emit, Return, hashVars
  <2>2. CASE handler.deleteFirst
    <3>1. ~Owes(t)
      BY <2>1, <2>2 DEF Owes
    <3>2. CASE t \in gone
      BY <2>1, <3>2, OwedKeeps
    <3>3. CASE t \notin gone
      BY <2>1, <3>1, <3>3, OwedKeeps
    <3> QED
      BY <3>2, <3>3
  <2>3. CASE ~handler.deleteFirst
    <3>1. run'[t].next = "delete" /\ stack' = stack /\ stack[t] # <<>>
      BY <1>0, <1>4, <2>1, <2>3 DEF Emit, Run, TypeOK
    <3>2. Owes(t)'
      BY <3>1 DEF Owes
    <3> QED
      BY <2>1, <3>2, OwedKeeps
  <2> QED
    BY <2>2, <2>3
<1>5. ASSUME NEW t \in CPUs, DeleteEntry(t) PROVE OwedInv'
  <2>1. /\ UNCHANGED <<handler, gone>> /\ Delete(KeyOf(t))
        /\ \A j \in CPUs \ {t} : run'[j] = run[j] /\ stack'[j] = stack[j]
    BY <1>0, <1>5 DEF DeleteEntry, Return
  <2>2. entry'[KeyOf(t)] = NoElem /\ \A k \in Keys \ {KeyOf(t)} : entry'[k] = entry[k]
    BY <1>0, <2>1 DEF Delete
  <2> QED
    BY <2>1, <2>2, OwedKeeps
<1>6. ASSUME NEW t \in CPUs, Vanish(t) PROVE OwedInv'
  <2>1. /\ UNCHANGED <<handler, entry, run>> /\ gone' = gone \cup {t}
        /\ \A j \in CPUs \ {t} : stack'[j] = stack[j]
    BY <1>0, <1>6 DEF Vanish, hashVars
  <2> QED
    BY <2>1, OwedKeeps
<1>7. CASE Tick \/ UNCHANGED vars
  BY <1>7 DEF Tick, vars, hashVars, hist, OwedInv, Owes, KeyOf
<1> QED
  BY <1>1, <1>2, <1>3, <1>4, <1>5, <1>6, <1>7 DEF Next, Exit

(* For every pair, keyed by process too: the time map holds only the times *)
(* of threads that are in the function or were killed there, however many  *)
(* threads share a key, whichever updates are refused, reports dropped or  *)
(* returns unmeasured.                                                     *)
THEOREM NoOrphanCorrect == Spec => []NoOrphan
<1> DEFINE J == TypeOK /\ OneOwner /\ OwedInv
<1>1. Init => J
  BY DEF Init, HashInit, TypeOK, HashTypeOK, Run, Idle, Elems, OneOwner, OwedInv
<1>2. J /\ [Next]_vars => J'
  BY TypeStep, OwnerStep, OwedStep
<1>3. J => NoOrphan
  BY DEF OwedInv, Owes, NoOrphan
<1> QED
  BY <1>1, <1>2, <1>3, PTL DEF Spec
=============================================================================
