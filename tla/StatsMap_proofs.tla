--------------------------- MODULE StatsMap_proofs ---------------------------
(***************************************************************************)
(* What is proved about the programs that keep a struct of statistics per  *)
(* key, for any number of CPUs, keys and elements and any well-formed      *)
(* profiles.                                                               *)
(***************************************************************************)
EXTENDS StatsMap, BpfHash_proofs, SequenceTheorems

USE HashAssumption, StatsAssumption

(* Some step of S is among the steps s.                                    *)
Some(s, S) == \E i \in DOMAIN s : s[i] \in S

(* The steps that use the pointer of the lookup.                           *)
PtrSteps == {"copy", "count", "class", "total", "min", "store min", "max", "store max", "sample"}

PointerTyped == \A c \in CPUs : Some(run[c].todo, PtrSteps) => run[c].ptr \in Elems

(* What is left to do after the first step was to do before it.            *)
LEMMA SomeTail ==
    ASSUME NEW S, NEW s \in Seq(Steps), s # <<>>
    PROVE  /\ Tail(s) \in Seq(Steps) /\ Head(s) \in Steps
           /\ Some(Tail(s), S) => Some(s, S)
           /\ Head(s) \in S => Some(s, S)
<1>1. Tail(s) \in Seq(Steps) /\ Head(s) \in Steps /\ Len(Tail(s)) = Len(s) - 1 /\ Len(s) \in Nat \ {0}
      /\ DOMAIN s = 1..Len(s) /\ DOMAIN Tail(s) = 1..Len(Tail(s))
      /\ \A i \in 1..Len(Tail(s)) : Tail(s)[i] = s[i+1]
  OBVIOUS
<1>2. Some(Tail(s), S) => Some(s, S)
  BY <1>1 DEF Some
<1>3. Head(s) = s[1]
  OBVIOUS
<1> QED
  BY <1>1, <1>2, <1>3 DEF Some

LEMMA OneStep ==
    ASSUME NEW s \in Steps, NEW S
    PROVE  /\ <<s>> \in Seq(Steps)
           /\ Some(<<s>>, S) => s \in S
<1>1. <<s>> \in Seq(Steps) /\ DOMAIN <<s>> = {1} /\ <<s>>[1] = s
  OBVIOUS
<1> QED
  BY <1>1 DEF Some

LEMMA SomeConcat ==
    ASSUME NEW S, NEW s \in Seq(Steps), NEW t \in Seq(Steps)
    PROVE  /\ s \o t \in Seq(Steps)
           /\ Some(s \o t, S) => Some(s, S) \/ Some(t, S)
<1>1. s \o t \in Seq(Steps) /\ Len(s \o t) = Len(s) + Len(t)
      /\ \A i \in 1..Len(s) + Len(t) : (s \o t)[i] = IF i <= Len(s) THEN s[i] ELSE t[i - Len(s)]
  BY ConcatProperties
<1>2. DOMAIN s = 1..Len(s) /\ DOMAIN t = 1..Len(t) /\ DOMAIN (s \o t) = 1..Len(s) + Len(t)
      /\ Len(s) \in Nat /\ Len(t) \in Nat
  BY <1>1
<1>3. ASSUME NEW i \in 1..Len(s) + Len(t), (s \o t)[i] \in S, ~Some(s, S)
      PROVE  Some(t, S)
  <2>1. i \notin 1..Len(s)
    BY <1>1, <1>2, <1>3 DEF Some
  <2>2. i - Len(s) \in DOMAIN t /\ t[i - Len(s)] \in S
    BY <1>1, <1>2, <1>3, <2>1
  <2> QED
    BY <2>2 DEF Some
<1> QED
  BY <1>1, <1>2, <1>3 DEF Some

(* The parts of a profile.                                                 *)
LEMMA Parts ==
    ASSUME NEW p \in Programs
    PROVE  /\ p.before \in Seq(Steps) /\ p.miss \in Seq(Steps)
           /\ p.hit \in Seq(Steps) /\ p.after \in Seq(Steps)
           /\ p.zeroed \in BOOLEAN /\ p.unmeasured \in BOOLEAN /\ p.extra \in Nat
           /\ \A i \in DOMAIN p.before : p.before[i] \in {"reserve", "submit"}
           /\ \A i \in DOMAIN p.miss : p.miss[i] \in {"insert", "relookup"}
           /\ \A i \in DOMAIN p.after : p.after[i] \in {"reserve", "reload", "submit"}
           /\ \A i \in DOMAIN p.hit :
                 p.hit[i] \in {"copy", "insert", "count", "class", "positive", "total",
                                     "min", "max", "sample", "reload"}
<1>1. WellFormed(p)
  BY ProgramAssumption
<1>2. \A S \in SUBSET Steps : Seq(S) \subseteq Seq(Steps)
  OBVIOUS
<1>3. \A S : \A s \in Seq(S) : \A i \in DOMAIN s : s[i] \in S
  OBVIOUS
<1>4. /\ {"reserve", "submit"} \in SUBSET Steps /\ {"insert", "relookup"} \in SUBSET Steps
      /\ {"reserve", "reload", "submit"} \in SUBSET Steps
      /\ {"copy", "insert", "count", "class", "positive", "total", "min", "max", "sample",
          "reload"} \in SUBSET Steps
  BY DEF Steps
<1>5. p.miss \in Seq({"insert", "relookup"})
  <2>1. <<"insert">> \in Seq({"insert", "relookup"})
        /\ <<"insert", "relookup">> \in Seq({"insert", "relookup"})
    OBVIOUS
  <2> QED
    BY <1>1, <2>1 DEF WellFormed
<1> QED
  BY <1>1, <1>2, <1>3, <1>4, <1>5 DEF WellFormed

LEMMA Profile ==
    ASSUME program \in Programs
    PROVE  /\ program.before \in Seq(Steps) /\ program.miss \in Seq(Steps)
           /\ program.hit \in Seq(Steps) /\ program.after \in Seq(Steps)
           /\ program.zeroed \in BOOLEAN /\ program.unmeasured \in BOOLEAN /\ program.extra \in Nat
           /\ \A i \in DOMAIN program.before : program.before[i] \in {"reserve", "submit"}
           /\ \A i \in DOMAIN program.miss : program.miss[i] \in {"insert", "relookup"}
           /\ \A i \in DOMAIN program.after : program.after[i] \in {"reserve", "reload", "submit"}
           /\ \A i \in DOMAIN program.hit :
                 program.hit[i] \in {"copy", "insert", "count", "class", "positive", "total",
                                     "min", "max", "sample", "reload"}
BY Parts, Zenon

(* What GoOn does to the locals of a program.                              *)
LEMMA GoOnRun ==
    ASSUME NEW c \in CPUs, NEW todo \in Seq(Steps), NEW r \in Run, run \in [CPUs -> Run],
           GoOn(c, todo, r)
    PROVE  /\ run' \in [CPUs -> Run]
           /\ \A b \in CPUs \ {c} : run'[b] = run[b]
           /\ run'[c].todo = todo
           /\ todo = <<>> => run'[c] = Idle
           /\ todo # <<>> => /\ run'[c].key = r.key /\ run'[c].amount = r.amount
                             /\ run'[c].ptr = r.ptr /\ run'[c].base = r.base
                             /\ run'[c].own = r.own /\ run'[c].shown = r.shown
<1>1. Idle \in Run /\ Idle.todo = <<>>
  BY DEF Idle, Run, Zero, Stats
<1>2. /\ [r EXCEPT !.todo = todo] \in Run /\ [r EXCEPT !.todo = todo].todo = todo
      /\ [r EXCEPT !.todo = todo].key = r.key /\ [r EXCEPT !.todo = todo].amount = r.amount
      /\ [r EXCEPT !.todo = todo].ptr = r.ptr /\ [r EXCEPT !.todo = todo].base = r.base
      /\ [r EXCEPT !.todo = todo].own = r.own /\ [r EXCEPT !.todo = todo].shown = r.shown
  BY DEF Run
<1> DEFINE q == IF todo = <<>> THEN Idle ELSE [r EXCEPT !.todo = todo]
<1>3. run' = [run EXCEPT ![c] = q]
  BY DEF GoOn
<1>4. q \in Run
  BY <1>1, <1>2
<1>5. run' \in [CPUs -> Run] /\ run'[c] = q /\ \A b \in CPUs \ {c} : run'[b] = run[b]
  BY <1>3, <1>4
<1> QED
  BY <1>1, <1>2, <1>5
-----------------------------------------------------------------------------
(* Types.                                                                  *)

HistTypeOK == /\ calls \in [Keys -> Nat] /\ spent \in [Keys -> Nat]
              /\ measured \in [Keys -> SUBSET Amounts] /\ lossy \in SUBSET Keys

LEMMA HeadSome ==
    ASSUME NEW c \in CPUs, run \in [CPUs -> Run], NEW s, At(c, s), NEW S, s \in S
    PROVE  /\ run[c] \in Run /\ run[c].todo \in Seq(Steps) /\ run[c].todo # <<>>
           /\ Some(run[c].todo, S)
<1>1. run[c] \in Run /\ run[c].todo \in Seq(Steps) /\ run[c].todo # <<>> /\ Head(run[c].todo) = s
  BY DEF At, Run
<1> QED
  BY <1>1, SomeTail

(* A step of the program on c preserves the types when what is left to do  *)
(* uses a pointer only if there is one.                                    *)
LEMMA RunKeeps ==
    ASSUME TypeOK, PointerTyped, NEW c \in CPUs, NEW todo \in Seq(Steps), NEW r \in Run,
           GoOn(c, todo, r), r.key \in Keys, Some(todo, PtrSteps) => r.ptr \in Elems,
           HashTypeOK(Stats)', program' = program, HistTypeOK'
    PROVE  TypeOK' /\ PointerTyped'
<1>1. run \in [CPUs -> Run]
  BY DEF TypeOK
<1>2. /\ run' \in [CPUs -> Run]
      /\ \A b \in CPUs \ {c} : run'[b] = run[b]
      /\ run'[c].todo = todo
      /\ todo # <<>> => run'[c].key = r.key /\ run'[c].ptr = r.ptr
  BY <1>1, GoOnRun
<1>3. PointerTyped'
  <2>1. todo = <<>> => ~Some(todo, PtrSteps)
    BY DEF Some
  <2> QED
    BY <1>2, <2>1 DEF PointerTyped
<1>4. \A b \in CPUs : run'[b].todo # <<>> => run'[b].key \in Keys
  BY <1>2 DEF TypeOK
<1>5. ASSUME NEW b \in CPUs, NEW s \in PtrSteps, At(b, s)' PROVE run'[b].ptr \in Elems
  <2>1. run'[b].todo \in Seq(Steps) /\ run'[b].todo # <<>> /\ Head(run'[b].todo) \in PtrSteps
    BY <1>2, <1>5 DEF At, Run
  <2>2. Some(run'[b].todo, PtrSteps)
    BY <2>1, SomeTail
  <2> QED
    BY <1>3, <2>2 DEF PointerTyped
<1> QED
  BY <1>2, <1>3, <1>4, <1>5 DEF TypeOK, HistTypeOK, PtrSteps

(* So it is for the next step in order.                                    *)
LEMMA NextKeeps ==
    ASSUME TypeOK, PointerTyped, NEW c \in CPUs, run[c].todo # <<>>, NEW r \in Run,
           r.key = run[c].key, r.ptr = run[c].ptr,
           GoOn(c, Tail(run[c].todo), r) \/ GoOn(c, <<>>, r),
           HashTypeOK(Stats)', program' = program, HistTypeOK'
    PROVE  TypeOK' /\ PointerTyped'
<1>1. run[c] \in Run /\ run[c].todo \in Seq(Steps) /\ run[c].key \in Keys
  BY DEF TypeOK, Run
<1>2. CASE GoOn(c, Tail(run[c].todo), r)
  <2>1. Tail(run[c].todo) \in Seq(Steps)
        /\ (Some(Tail(run[c].todo), PtrSteps) => Some(run[c].todo, PtrSteps))
    BY <1>1, SomeTail
  <2>2. Some(Tail(run[c].todo), PtrSteps) => r.ptr \in Elems
    BY <2>1 DEF PointerTyped
  <2> QED
    BY <1>1, <1>2, <2>1, <2>2, RunKeeps
<1>3. CASE GoOn(c, <<>>, r)
  <2>1. <<>> \in Seq(Steps) /\ ~Some(<<>>, PtrSteps)
    BY DEF Some
  <2> QED
    BY <1>1, <1>3, <2>1, RunKeeps
<1> QED
  BY <1>2, <1>3

(* The struct with one more call is a struct, with that call's extremes.   *)
LEMMA PlusType ==
    ASSUME NEW s \in Stats, NEW n \in Nat
    PROVE  /\ Plus(s, n) \in Stats
           /\ Does("min") => Plus(s, n).min = n
           /\ Does("max") => Plus(s, n).max = n
<1> DEFINE t == IF Does("total") \/ Does("copy") THEN s.total + n ELSE s.total
           l == IF Does("min") THEN n ELSE s.min
           m == IF Does("max") THEN n ELSE s.max
           q1 == [s EXCEPT !.count = @ + 1]
           q2 == [q1 EXCEPT !.total = t]
           q3 == [q2 EXCEPT !.min = l]
           q4 == [q3 EXCEPT !.max = m]
<1>1. t \in Nat /\ l \in Nat /\ m \in Nat
  BY DEF Stats
<1>2. q1 \in Stats /\ q1.total = s.total /\ q1.min = s.min /\ q1.max = s.max
  BY DEF Stats
<1>3. Plus(s, n) = q4
  BY <1>2, Zenon DEF Plus
<1> HIDE DEF t, l, m, q1
<1>4. q2 \in Stats
  BY <1>1, <1>2 DEF Stats
<1> HIDE DEF q2
<1>5. q3 \in Stats /\ q3.min = l
  BY <1>1, <1>4 DEF Stats
<1> HIDE DEF q3
<1>6. q4 \in Stats /\ q4.min = l /\ q4.max = m
  BY <1>1, <1>5 DEF Stats
<1> HIDE DEF q4
<1> QED
  BY <1>3, <1>6 DEF l, m

(* The struct with a field changed is a struct.                            *)
LEMMA StatsType ==
    ASSUME NEW s \in Stats, NEW n \in Nat
    PROVE  /\ Zero \in Stats
           /\ \A f \in {"count", "classed", "total", "min", "max"} :
                 /\ [s EXCEPT ![f] = @ + n] \in Stats
                 /\ [s EXCEPT ![f] = n] \in Stats
<1>1. Zero \in Stats
  BY DEF Zero, Stats
<1>2. ASSUME NEW f \in {"count", "classed", "total", "min", "max"}
      PROVE  [s EXCEPT ![f] = @ + n] \in Stats /\ [s EXCEPT ![f] = n] \in Stats
  BY DEF Stats
<1> QED
  BY <1>1, <1>2

(* The locals of a program that starts.                                    *)
Started(todo, k, a) == [todo |-> todo, key |-> k, amount |-> a,
                        ptr |-> NoElem, base |-> Zero, own |-> 0, shown |-> 1]

LEMMA StartedIs ==
    ASSUME NEW todo, NEW k, NEW a
    PROVE  [Idle EXCEPT !.todo = todo, !.key = k, !.amount = a, !.shown = 1] = Started(todo, k, a)
<1> DEFINE q1 == [Idle EXCEPT !.todo = todo]
           q2 == [q1 EXCEPT !.key = k]
           q3 == [q2 EXCEPT !.amount = a]
           q4 == [q3 EXCEPT !.shown = 1]
           Base == Zero
<1> HIDE DEF Base
<1>1. q1 = [todo |-> todo, key |-> NoElem, amount |-> 0,
            ptr |-> NoElem, base |-> Base, own |-> 0, shown |-> 0]
  BY DEF Idle, Base
<1> HIDE DEF q1
<1>2. q2 = [todo |-> todo, key |-> k, amount |-> 0,
            ptr |-> NoElem, base |-> Base, own |-> 0, shown |-> 0]
  BY <1>1
<1> HIDE DEF q2
<1>3. q3 = [todo |-> todo, key |-> k, amount |-> a,
            ptr |-> NoElem, base |-> Base, own |-> 0, shown |-> 0]
  BY <1>2
<1> HIDE DEF q3
<1>4. q4 = Started(todo, k, a)
  BY <1>3 DEF Started, Base
<1> QED
  BY <1>4, Zenon DEF q1, q2, q3, q4

(* A program that starts has no pointer, and nothing to do with one before *)
(* the lookup.                                                             *)
LEMMA StartRun ==
    ASSUME NEW c \in CPUs, NEW k \in Keys, Start(c, k), TypeOK
    PROVE  \E todo \in Seq(Steps), a \in Amounts \cup {0} :
              /\ a = 0 => program.unmeasured
              /\ \A i \in DOMAIN todo : todo[i] \in {"reserve", "submit", "lookup"}
              /\ run' = [run EXCEPT ![c] = Started(todo, k, a)]
<1> DEFINE todo == Append(program.before, "lookup")
<1>1. PICK a \in IF program.unmeasured THEN Amounts \cup {0} ELSE Amounts :
         run' = [run EXCEPT ![c] = [Idle EXCEPT !.todo = todo, !.key = k,
                                                !.amount = a, !.shown = 1]]
  BY DEF Start
<1>2. a \in Amounts \cup {0} /\ (a = 0 => program.unmeasured)
  OBVIOUS
<1>3. run' = [run EXCEPT ![c] = Started(todo, k, a)]
  BY <1>1, StartedIs, Zenon
<1>4. todo \in Seq(Steps) /\ \A i \in DOMAIN todo : todo[i] \in {"reserve", "submit", "lookup"}
  <2>1. program.before \in Seq(Steps) /\ "lookup" \in Steps
        /\ \A i \in DOMAIN program.before : program.before[i] \in {"reserve", "submit"}
    BY Profile DEF Steps, TypeOK
  <2> QED
    BY <2>1, AppendProperties
<1> QED
  BY <1>2, <1>3, <1>4

LEMMA StatsTypeStep == TypeOK /\ PointerTyped /\ [Next]_vars => TypeOK' /\ PointerTyped'
<1> SUFFICES ASSUME TypeOK, PointerTyped, [Next]_vars PROVE TypeOK' /\ PointerTyped'
  OBVIOUS
<1>0. /\ HashTypeOK(Stats) /\ run \in [CPUs -> Run] /\ program \in Programs /\ HistTypeOK
      /\ \A c \in CPUs : run[c].todo # <<>> => run[c].key \in Keys
  BY DEF TypeOK, HistTypeOK
<1>01. UNCHANGED hashVars => HashTypeOK(Stats)'
  BY <1>0 DEF hashVars, HashTypeOK
<1>02. UNCHANGED hist => HistTypeOK'
  BY <1>0 DEF hist, HistTypeOK
<1>03. \A c \in CPUs : run[c].amount \in Nat /\ run[c].base \in Stats
  <2> SUFFICES ASSUME NEW c \in CPUs PROVE run[c].amount \in Nat /\ run[c].base \in Stats
    OBVIOUS
  <2>1. run[c] \in Run
    BY <1>0
  <2>2. run[c].amount \in Amounts \cup {0} /\ run[c].base \in Stats
    BY <2>1 DEF Run
  <2>3. Amounts \cup {0} \subseteq Nat
    BY StatsAssumption
  <2> QED
    BY <2>2, <2>3
<1>1. ASSUME NEW c \in CPUs, NEW k \in Keys, Start(c, k) PROVE TypeOK' /\ PointerTyped'
  <2>1. PICK todo \in Seq(Steps), a \in Amounts \cup {0} :
              /\ a = 0 => program.unmeasured
              /\ \A i \in DOMAIN todo : todo[i] \in {"reserve", "submit", "lookup"}
              /\ run' = [run EXCEPT ![c] = Started(todo, k, a)]
    BY <1>1, StartRun
  <2>2. Started(todo, k, a) \in Run /\ Started(todo, k, a).todo = todo /\ Started(todo, k, a).key = k
    BY StatsType DEF Started, Run, Zero, Stats
  <2>3. /\ run' \in [CPUs -> Run] /\ \A b \in CPUs \ {c} : run'[b] = run[b]
        /\ run'[c].todo = todo /\ run'[c].key = k
    BY <1>0, <2>1, <2>2
  <2>4. ~Some(todo, PtrSteps)
    BY <2>1 DEF Some, PtrSteps
  <2>5. PointerTyped'
    BY <2>3, <2>4 DEF PointerTyped
  <2>6. ASSUME NEW b \in CPUs, NEW s \in PtrSteps, At(b, s)' PROVE run'[b].ptr \in Elems
    <3>1. run'[b].todo \in Seq(Steps) /\ run'[b].todo # <<>> /\ Head(run'[b].todo) \in PtrSteps
      BY <2>3, <2>6 DEF At, Run
    <3> QED
      BY <2>5, <3>1, SomeTail DEF PointerTyped
  <2>7. HashTypeOK(Stats)' /\ program' = program /\ HistTypeOK'
    BY <1>1, <1>01, <1>02 DEF Start
  <2> QED
    BY <1>0, <2>3, <2>5, <2>6, <2>7 DEF TypeOK, HistTypeOK, PtrSteps
<1>2. ASSUME NEW c \in CPUs, Reserve(c) \/ Submit(c) \/ Sample(c)
      PROVE  TypeOK' /\ PointerTyped'
  <2>1. run[c].todo # <<>> /\ run[c] \in Run /\ Idle \in Run
    BY <1>0, <1>2 DEF Reserve, Submit, Sample, At, Idle, Run, Zero, Stats
  <2>2. UNCHANGED <<program, hashVars, hist>>
    BY <1>2 DEF Reserve, Submit, Sample
  <2>3. GoOn(c, Tail(run[c].todo), run[c]) \/ GoOn(c, <<>>, run[c])
    BY <1>2 DEF Reserve, Submit, Sample, Proceed, GoOn
  <2> QED
    BY <1>01, <1>02, <2>1, <2>2, <2>3, NextKeeps
<1>3. ASSUME NEW c \in CPUs, Lookup(c) PROVE TypeOK' /\ PointerTyped'
  <2> DEFINE k == run[c].key
             r == [run[c] EXCEPT !.ptr = entry[k]]
             todo == (IF entry[k] = NoElem THEN program.miss ELSE program.hit) \o program.after
  <2>1. run[c] \in Run /\ k \in Keys /\ entry[k] \in Elems \cup {NoElem}
        /\ run[c].amount \in Amounts \cup {0}
    BY <1>0, <1>3 DEF Lookup, At, HashTypeOK, Run
  <2>2. r \in Run /\ r.key = k /\ r.ptr = entry[k]
    BY <2>1 DEF Run
  <2>3. /\ program.miss \in Seq(Steps) /\ program.hit \in Seq(Steps) /\ program.after \in Seq(Steps)
        /\ ~Some(program.miss, PtrSteps) /\ ~Some(program.after, PtrSteps)
    BY <1>0, Profile DEF Some, PtrSteps
  <2>4. todo \in Seq(Steps) /\ (Some(todo, PtrSteps) => r.ptr \in Elems)
    BY <2>1, <2>2, <2>3, SomeConcat
  <2>5. GoOn(c, todo, r) /\ UNCHANGED <<program, hashVars>>
    BY <1>3 DEF Lookup
  <2>6. HistTypeOK'
    BY <1>0, <1>3, <2>1 DEF Lookup, HistTypeOK
  <2> HIDE DEF r, todo
  <2> QED
    BY <1>01, <2>1, <2>2, <2>4, <2>5, <2>6, RunKeeps
<1>4. ASSUME NEW c \in CPUs, Relookup(c) PROVE TypeOK' /\ PointerTyped'
  <2> DEFINE e == entry[run[c].key]
             r == [run[c] EXCEPT !.ptr = e]
             todo == (IF e = NoElem THEN <<>> ELSE program.hit) \o program.after
  <2>1. run[c] \in Run /\ run[c].key \in Keys /\ e \in Elems \cup {NoElem}
    BY <1>0, <1>4 DEF Relookup, At, HashTypeOK
  <2>2. r \in Run /\ r.key = run[c].key /\ r.ptr = e
    BY <2>1 DEF Run
  <2>3. /\ program.hit \in Seq(Steps) /\ program.after \in Seq(Steps) /\ <<>> \in Seq(Steps)
        /\ ~Some(<<>>, PtrSteps) /\ ~Some(program.after, PtrSteps)
    <3>1. ~Some(<<>>, PtrSteps) /\ <<>> \in Seq(Steps)
      BY DEF Some
    <3>2. ~Some(program.after, PtrSteps)
      BY <1>0, Profile DEF Some, PtrSteps
    <3> QED
      BY <1>0, <3>1, <3>2, Profile
  <2>4. todo \in Seq(Steps) /\ (Some(todo, PtrSteps) => r.ptr \in Elems)
    BY <2>1, <2>2, <2>3, SomeConcat
  <2>5. GoOn(c, todo, r) /\ UNCHANGED <<program, hashVars, hist>>
    BY <1>4 DEF Relookup
  <2> HIDE DEF e, r, todo
  <2> QED
    BY <1>01, <1>02, <2>1, <2>2, <2>4, <2>5, RunKeeps
<1>5. ASSUME NEW c \in CPUs, Copy(c) PROVE TypeOK' /\ PointerTyped'
  <2> DEFINE r == [run[c] EXCEPT !.base = value[run[c].ptr]]
  <2>1. run[c] \in Run /\ run[c].todo # <<>> /\ run[c].ptr \in Elems
    BY <1>0, <1>5 DEF Copy, At, TypeOK
  <2>2. r \in Run /\ r.key = run[c].key /\ r.ptr = run[c].ptr
    BY <1>0, <2>1 DEF Run, HashTypeOK
  <2>3. GoOn(c, Tail(run[c].todo), r) /\ UNCHANGED <<program, hashVars, hist>>
    BY <1>5 DEF Copy
  <2> HIDE DEF r
  <2> QED
    BY <1>01, <1>02, <2>1, <2>2, <2>3, NextKeeps
<1>6. ASSUME NEW c \in CPUs, Insert(c) PROVE TypeOK' /\ PointerTyped'
  <2> DEFINE v == IF program.zeroed THEN Zero ELSE Plus(run[c].base, run[c].amount)
  <2>1. run[c] \in Run /\ run[c].todo # <<>> /\ run[c].key \in Keys
    BY <1>0, <1>6 DEF Insert, At
  <2>2. v \in Stats
    BY <1>03, PlusType, StatsType
  <2>3. Update(c, run[c].key, v) /\ GoOn(c, Tail(run[c].todo), run[c]) /\ program' = program
    BY <1>6 DEF Insert, Proceed
  <2> HIDE DEF v
  <2>4. HashTypeOK(Stats)'
    BY <1>0, <2>1, <2>2, <2>3, UpdateType
  <2>5. HistTypeOK'
    BY <1>0, <1>6, <2>1 DEF Insert, HistTypeOK
  <2> QED
    BY <2>1, <2>3, <2>4, <2>5, NextKeeps
<1>7. ASSUME NEW c \in CPUs, NEW e \in Elems, NEW v \in Stats, Write(e, v) PROVE HashTypeOK(Stats)'
  BY <1>0, <1>7 DEF Write, HashTypeOK
<1>8. ASSUME NEW c \in CPUs, AddCount(c) PROVE TypeOK' /\ PointerTyped'
  <2> DEFINE r == [run[c] EXCEPT !.own = value[run[c].ptr].count + 1]
  <2>1. run[c] \in Run /\ run[c].todo # <<>> /\ run[c].ptr \in Elems
    BY <1>0, <1>8 DEF AddCount, Add, At, TypeOK
  <2>2. value[run[c].ptr] \in Stats /\ value[run[c].ptr].count \in Nat
    BY <1>0, <2>1 DEF HashTypeOK, Stats
  <2>3. r \in Run /\ r.key = run[c].key /\ r.ptr = run[c].ptr
    BY <2>1, <2>2 DEF Run
  <2>4. GoOn(c, Tail(run[c].todo), r) /\ UNCHANGED <<program, hist>>
    BY <1>8 DEF AddCount, Add
  <2>5. Write(run[c].ptr, [value[run[c].ptr] EXCEPT !["count"] = @ + 1])
    BY <1>8 DEF AddCount, Add
  <2>6. [value[run[c].ptr] EXCEPT !["count"] = @ + 1] \in Stats
    BY <2>2, StatsType
  <2>7. HashTypeOK(Stats)'
    BY <1>7, <2>1, <2>5, <2>6
  <2> HIDE DEF r
  <2> QED
    BY <1>02, <2>1, <2>3, <2>4, <2>7, NextKeeps
<1>9. ASSUME NEW c \in CPUs, NEW s \in {"class", "total"}, NEW f \in {"classed", "total"},
             NEW n \in Nat, Add(c, s, f, n), Proceed(c)
      PROVE  TypeOK' /\ PointerTyped'
  <2>1. run[c] \in Run /\ run[c].todo # <<>> /\ run[c].ptr \in Elems
    BY <1>0, <1>9 DEF Add, At, TypeOK
  <2>2. value[run[c].ptr] \in Stats
    BY <1>0, <2>1 DEF HashTypeOK
  <2>3. [value[run[c].ptr] EXCEPT ![f] = @ + n] \in Stats
    BY <2>2, StatsType
  <2>4. HashTypeOK(Stats)'
    BY <1>7, <1>9, <2>1, <2>3 DEF Add
  <2> QED
    BY <1>02, <1>9, <2>1, <2>4, NextKeeps DEF Add, Proceed
<1>10. ASSUME NEW c \in CPUs, AddClass(c) \/ AddTotal(c) PROVE TypeOK' /\ PointerTyped'
  BY <1>03, <1>9, <1>10 DEF AddClass, AddTotal
<1>11. ASSUME NEW c \in CPUs, NEW s \in {"store min", "store max"}, NEW f \in {"min", "max"},
              Store(c, s, f)
       PROVE  TypeOK' /\ PointerTyped'
  <2>1. run[c] \in Run /\ run[c].todo # <<>> /\ run[c].ptr \in Elems
    BY <1>0, <1>11 DEF Store, At, TypeOK
  <2>2. value[run[c].ptr] \in Stats /\ run[c].amount \in Nat
    BY <1>0, <1>03, <2>1 DEF HashTypeOK
  <2>3. [value[run[c].ptr] EXCEPT ![f] = run[c].amount] \in Stats
    BY <2>2, StatsType
  <2>4. HashTypeOK(Stats)'
    BY <1>7, <1>11, <2>1, <2>3 DEF Store
  <2> QED
    BY <1>02, <1>11, <2>1, <2>4, NextKeeps DEF Store, Proceed
<1>12. ASSUME NEW c \in CPUs, TestMin(c) \/ TestMax(c) PROVE TypeOK' /\ PointerTyped'
  <2>1. run[c] \in Run /\ run[c].todo # <<>> /\ run[c].ptr \in Elems /\ run[c].key \in Keys
        /\ run[c].todo \in Seq(Steps)
    BY <1>0, <1>12 DEF TestMin, TestMax, At, TypeOK, Run
  <2>2. PICK s \in {"store min", "store max"} :
           \/ GoOn(c, <<s>> \o Tail(run[c].todo), run[c])
           \/ GoOn(c, Tail(run[c].todo), run[c])
    BY <1>12 DEF TestMin, TestMax, GoOn
  <2>3. <<s>> \in Seq(Steps) /\ Tail(run[c].todo) \in Seq(Steps)
    <3>1. s \in Steps
      BY DEF Steps
    <3>2. Tail(run[c].todo) \in Seq(Steps)
      BY <2>1, HeadTailProperties
    <3> QED
      BY <3>1, <3>2, OneStep
  <2>4. <<s>> \o Tail(run[c].todo) \in Seq(Steps)
    BY <2>3, SomeConcat
  <2>5. UNCHANGED <<program, hashVars, hist>>
    BY <1>12 DEF TestMin, TestMax
  <2> QED
    BY <1>01, <1>02, <2>1, <2>2, <2>4, <2>5, NextKeeps, RunKeeps
<1>13. ASSUME NEW c \in CPUs, Positive(c) PROVE TypeOK' /\ PointerTyped'
  <2>1. run[c] \in Run /\ run[c].todo # <<>> /\ run[c].key \in Keys
        /\ UNCHANGED <<program, hashVars, hist>>
    BY <1>0, <1>13 DEF Positive, At
  <2>2. CASE run[c].amount = 0
    <3>1. program.after \in Seq(Steps) /\ ~Some(program.after, PtrSteps)
      BY <1>0, Profile DEF Some, PtrSteps
    <3>2. GoOn(c, program.after, run[c])
      BY <1>13, <2>2 DEF Positive
    <3> QED
      BY <1>01, <1>02, <2>1, <3>1, <3>2, RunKeeps
  <2>3. CASE run[c].amount # 0
    <3>1. GoOn(c, Tail(run[c].todo), run[c])
      BY <1>13, <2>3 DEF Positive
    <3> QED
      BY <1>01, <1>02, <2>1, <3>1, NextKeeps
  <2> QED
    BY <2>2, <2>3
<1>14. ASSUME NEW c \in CPUs, Reload(c) PROVE TypeOK' /\ PointerTyped'
  <2> DEFINE n == IF run[c].ptr = NoElem THEN 1 ELSE value[run[c].ptr].count + program.extra
             r == [run[c] EXCEPT !.shown = n]
  <2>1. run[c] \in Run /\ run[c].todo # <<>>
    BY <1>0, <1>14 DEF Reload, At
  <2>2. n \in Nat
    <3>1. program.extra \in Nat
      BY <1>0, Profile
    <3>2. run[c].ptr # NoElem => value[run[c].ptr].count \in Nat
      BY <1>0, <2>1 DEF Run, HashTypeOK, Stats
    <3> QED
      BY <3>1, <3>2
  <2> HIDE DEF n
  <2>3. r \in Run /\ r.key = run[c].key /\ r.ptr = run[c].ptr
    BY <2>1, <2>2 DEF Run
  <2>4. GoOn(c, Tail(run[c].todo), r) /\ UNCHANGED <<program, hashVars, hist>>
    BY <1>14 DEF Reload, n
  <2> HIDE DEF r
  <2> QED
    BY <1>01, <1>02, <2>1, <2>3, <2>4, NextKeeps
<1>15. CASE UNCHANGED vars
  BY <1>0, <1>15 DEF vars, hashVars, hist, TypeOK, HashTypeOK, PointerTyped, At
<1> QED
  BY <1>1, <1>2, <1>3, <1>4, <1>5, <1>6, <1>8, <1>10, <1>11, <1>12, <1>13, <1>14, <1>15
     DEF Next, RunStep, StoreMin, StoreMax

LEMMA StatsTypeInit == Init => TypeOK /\ PointerTyped
<1> SUFFICES ASSUME Init PROVE TypeOK /\ PointerTyped
  OBVIOUS
<1>1. HashTypeOK(Stats)
  BY StatsType DEF Init, HashInit, HashTypeOK, Elems, Zero, Stats
<1>2. Idle \in Run /\ Idle.todo = <<>>
  BY DEF Idle, Run, Zero, Stats
<1>3. run \in [CPUs -> Run] /\ \A c \in CPUs : run[c].todo = <<>>
  BY <1>2 DEF Init
<1>4. PointerTyped
  BY <1>3 DEF PointerTyped, Some
<1>5. \A c \in CPUs : \A s : ~At(c, s)
  BY <1>3 DEF At
<1> QED
  BY <1>1, <1>3, <1>4, <1>5 DEF Init, TypeOK

(* The types are as declared; in particular a program that reads or writes *)
(* through the pointer of its lookup has found something.                  *)
THEOREM StatsTypeCorrect == Spec => []TypeOK
<1>1. Init => TypeOK /\ PointerTyped
  BY StatsTypeInit
<1>2. TypeOK /\ PointerTyped /\ [Next]_vars => (TypeOK /\ PointerTyped)'
  BY StatsTypeStep
<1> QED
  BY <1>1, <1>2, PTL DEF Spec
-----------------------------------------------------------------------------
(* The extremes.                                                           *)

LEMMA NoneLeft == \A S : ~Some(<<>>, S)
BY DEF Some

(* The steps after the lookup to which the amount matters, or that lead to *)
(* such steps: by then the amount is measured.                             *)
Late == {"insert", "relookup", "min", "store min", "max", "store max"}

AmountMeasured ==
    \A c \in CPUs :
        /\ run[c].todo # <<>> /\ run[c].amount = 0 => program.zeroed
        /\ Some(run[c].todo, Late) => run[c].amount \in measured[run[c].key] \cup {0}

(* The pointers of a program that changes elements in place, as in         *)
(* EventCounter.                                                           *)
Pointers ==
    \A c \in CPUs : run[c].ptr # NoElem =>
        /\ run[c].ptr \notin free
        /\ \A k \in Keys \ lossy : run[c].key = k <=> run[c].ptr = entry[k]

InPlace == ~Does("copy")

MinStore == {"store min"}
MaxStore == {"store max"}

(* f is the amount of the first call.  The minimum is not above it nor the *)
(* maximum below it, and no store on its way changes that.                 *)
Bounded(c, f) == /\ Some(run[c].todo, MinStore) => run[c].amount <= f
                 /\ Some(run[c].todo, MaxStore) => f <= run[c].amount

Between(k, f) == /\ Cell(k).min <= f /\ f <= Cell(k).max
                 /\ \A c \in CPUs : run[c].ptr = entry[k] => Bounded(c, f)

ExtremesOf(k) ==
    entry[k] # NoElem =>
        /\ {Cell(k).min, Cell(k).max} \subseteq
               measured[k] \cup (IF program.zeroed THEN {0} ELSE {})
        /\ ~program.zeroed => \E f \in Nat : Between(k, f)

Extremes == Does("min") => \A k \in Keys \ lossy : ExtremesOf(k)

StatsInv == OneOwner /\ AmountMeasured /\ (InPlace => Pointers) /\ Extremes

(* A program that keeps extremes changes elements in place, sets both when *)
(* it inserts and never inserts over an element it has found.              *)
LEMMA KeepsExtremes ==
    ASSUME program \in Programs
    PROVE  /\ Does("min") => InPlace /\ Does("max")
           /\ InPlace => ~Has(program.hit, "insert")
           /\ program.unmeasured => program.zeroed
<1>1. WellFormed(program)
  BY ProgramAssumption
<1>2. Does("copy") => program.hit = <<"copy", "insert">>
  BY <1>1 DEF WellFormed, Does
<1>3. Does("copy") => ~Does("min")
  <2>1. ~Has(<<"copy", "insert">>, "min")
    BY DEF Has
  <2> QED
    BY <1>2, <2>1 DEF Does
<1>4. Has(program.hit, "insert") => Does("copy")
  <2>1. Has(<<"copy", "insert">>, "copy")
    <3>1. 1 \in DOMAIN <<"copy", "insert">> /\ <<"copy", "insert">>[1] = "copy"
      OBVIOUS
    <3> QED
      BY <3>1 DEF Has
  <2> QED
    BY <1>1, <2>1 DEF WellFormed, Does
<1> QED
  BY <1>1, <1>3, <1>4 DEF WellFormed, Does, InPlace

(* A step that does not touch the links, the history or the key, pointer   *)
(* and amount of its program disturbs no more than the extremes.           *)
LEMMA LocalsKeep ==
    ASSUME TypeOK, StatsInv, NEW c \in CPUs, run[c].todo # <<>>,
           NEW todo \in Seq(Steps), NEW r \in Run, GoOn(c, todo, r),
           r.key = run[c].key, r.ptr = run[c].ptr, r.amount = run[c].amount,
           Some(todo, Late) => Some(run[c].todo, Late),
           UNCHANGED <<program, entry, free, extra, hist>>
    PROVE  OneOwner' /\ AmountMeasured' /\ (InPlace => Pointers)' /\ (Does("min"))' = Does("min")
<1>0. run \in [CPUs -> Run]
  BY DEF TypeOK
<1>1. /\ run' \in [CPUs -> Run]
      /\ \A b \in CPUs \ {c} : run'[b] = run[b]
      /\ run'[c].todo = todo
      /\ todo = <<>> => run'[c] = Idle
      /\ todo # <<>> => /\ run'[c].key = run[c].key /\ run'[c].amount = run[c].amount
                        /\ run'[c].ptr = run[c].ptr
  BY <1>0, GoOnRun
<1>2. OneOwner'
  BY DEF StatsInv, OneOwner
<1>3. AmountMeasured'
  <2>1. todo = <<>> => ~Some(todo, Late)
    BY DEF Some
  <2> QED
    BY <1>1, <2>1 DEF StatsInv, AmountMeasured, hist
<1>4. (InPlace => Pointers)'
  <2>1. Idle.ptr = NoElem
    BY DEF Idle
  <2> QED
    BY <1>1, <2>1 DEF StatsInv, InPlace, Does, Pointers, hist
<1> QED
  BY <1>2, <1>3, <1>4 DEF Does

(* Nor the extremes, if the minimum and the maximum of every element stay. *)
LEMMA ExtremesKeep ==
    ASSUME TypeOK, StatsInv, NEW c \in CPUs, run[c].todo # <<>>,
           NEW todo \in Seq(Steps), NEW r \in Run, GoOn(c, todo, r),
           r.key = run[c].key, r.ptr = run[c].ptr, r.amount = run[c].amount,
           Some(todo, Late) => Some(run[c].todo, Late),
           Some(todo, MinStore) => Some(run[c].todo, MinStore),
           Some(todo, MaxStore) => Some(run[c].todo, MaxStore),
           UNCHANGED <<program, entry, free, extra, hist>>,
           \A e \in Elems : value'[e].min = value[e].min /\ value'[e].max = value[e].max
    PROVE  StatsInv'
<1>0. run \in [CPUs -> Run]
  BY DEF TypeOK
<1>01. /\ run' \in [CPUs -> Run]
       /\ \A b \in CPUs \ {c} : run'[b] = run[b]
       /\ run'[c].todo = todo
       /\ todo = <<>> => run'[c] = Idle
       /\ todo # <<>> => /\ run'[c].key = r.key /\ run'[c].amount = r.amount
                         /\ run'[c].ptr = r.ptr
  BY <1>0, GoOnRun
<1>1. OneOwner' /\ AmountMeasured' /\ (InPlace => Pointers)' /\ (Does("min"))' = Does("min")
  BY LocalsKeep
<1>2. /\ \A b \in CPUs \ {c} : run'[b] = run[b]
      /\ run'[c].todo = todo
      /\ todo = <<>> => run'[c] = Idle
      /\ todo # <<>> => run'[c].amount = run[c].amount /\ run'[c].ptr = run[c].ptr
  BY <1>01
<1>3. todo = <<>> => ~Some(todo, MinStore) /\ ~Some(todo, MaxStore)
  BY DEF Some
<1>4. ASSUME NEW k \in Keys \ lossy, ExtremesOf(k) PROVE ExtremesOf(k)'
  <2> SUFFICES ASSUME entry[k] # NoElem PROVE ExtremesOf(k)'
    BY DEF ExtremesOf
  <2>1. entry[k] \in Elems
    BY DEF TypeOK, HashTypeOK
  <2>2. Cell(k)'.min = Cell(k).min /\ Cell(k)'.max = Cell(k).max
    BY <2>1 DEF Cell
  <2>3. ASSUME NEW f \in Nat, Between(k, f) PROVE Between(k, f)'
    <3>1. ASSUME NEW b \in CPUs, run'[b].ptr = entry'[k] PROVE Bounded(b, f)'
      BY <1>2, <1>3, <2>3, <3>1 DEF Between, Bounded
    <3> QED
      BY <2>2, <2>3, <3>1 DEF Between
  <2> QED
    BY <1>4, <2>2, <2>3 DEF ExtremesOf, hist
<1> QED
  BY <1>1, <1>4 DEF StatsInv, Extremes, hist

(* The step in order, or the return.                                       *)
LEMMA TailKeeps ==
    ASSUME TypeOK, NEW c \in CPUs, run[c].todo # <<>>, NEW S
    PROVE  /\ Tail(run[c].todo) \in Seq(Steps) /\ <<>> \in Seq(Steps)
           /\ Some(Tail(run[c].todo), S) => Some(run[c].todo, S)
           /\ ~Some(<<>>, S)
           /\ run[c] \in Run /\ run[c].todo \in Seq(Steps) /\ run[c].key \in Keys
<1>1. run[c] \in Run /\ run[c].todo \in Seq(Steps) /\ run[c].key \in Keys
  BY DEF TypeOK, Run
<1>2. ~Some(<<>>, S) /\ <<>> \in Seq(Steps)
  BY DEF Some
<1> QED
  BY <1>1, <1>2, SomeTail

LEMMA ExtremesTail ==
    ASSUME TypeOK, StatsInv, NEW c \in CPUs, run[c].todo # <<>>, NEW r \in Run,
           r.key = run[c].key, r.ptr = run[c].ptr, r.amount = run[c].amount,
           GoOn(c, Tail(run[c].todo), r) \/ GoOn(c, <<>>, r),
           UNCHANGED <<program, entry, free, extra, hist>>,
           \A e \in Elems : value'[e].min = value[e].min /\ value'[e].max = value[e].max
    PROVE  StatsInv'
<1>1. CASE GoOn(c, Tail(run[c].todo), r)
  <2>1. Tail(run[c].todo) \in Seq(Steps)
    BY TailKeeps
  <2>2. Some(Tail(run[c].todo), Late) => Some(run[c].todo, Late)
    BY TailKeeps
  <2>3. Some(Tail(run[c].todo), MinStore) => Some(run[c].todo, MinStore)
    BY TailKeeps
  <2>4. Some(Tail(run[c].todo), MaxStore) => Some(run[c].todo, MaxStore)
    BY TailKeeps
  <2> QED
    BY <1>1, <2>1, <2>2, <2>3, <2>4, ExtremesKeep
<1>2. CASE GoOn(c, <<>>, r)
  <2>1. <<>> \in Seq(Steps)
    OBVIOUS
  <2>2. \A S : ~Some(<<>>, S)
    BY DEF Some
  <2> QED
    BY <1>2, <2>1, <2>2, ExtremesKeep
<1> QED
  BY <1>1, <1>2

(* A program that has looked up an element, and has measured its call.     *)
LEMMA LookupKeeps ==
    ASSUME TypeOK, StatsInv, NEW c \in CPUs, run[c].todo # <<>>,
           NEW todo \in Seq(Steps), NEW r \in Run, GoOn(c, todo, r),
           r.key = run[c].key, r.ptr = entry[run[c].key], r.amount = run[c].amount,
           ~Some(todo, MinStore), ~Some(todo, MaxStore),
           UNCHANGED <<program, hashVars, lossy>>,
           \A k \in Keys : measured[k] \subseteq measured'[k],
           Some(todo, Late) => run[c].amount \in measured'[run[c].key] \cup {0}
    PROVE  StatsInv'
<1>0. run \in [CPUs -> Run] /\ run[c].key \in Keys
  BY DEF TypeOK
<1>01. /\ run' \in [CPUs -> Run]
       /\ \A b \in CPUs \ {c} : run'[b] = run[b]
       /\ run'[c].todo = todo
       /\ todo = <<>> => run'[c] = Idle
       /\ todo # <<>> => /\ run'[c].key = r.key /\ run'[c].amount = r.amount
                         /\ run'[c].ptr = r.ptr
  BY <1>0, GoOnRun
<1>1. /\ run' \in [CPUs -> Run]
      /\ \A b \in CPUs \ {c} : run'[b] = run[b]
      /\ run'[c].todo = todo
      /\ todo = <<>> => run'[c] = Idle
      /\ todo # <<>> => /\ run'[c].key = run[c].key /\ run'[c].amount = run[c].amount
                        /\ run'[c].ptr = entry[run[c].key]
  BY <1>01
<1>2. OneOwner'
  BY DEF StatsInv, OneOwner, hashVars
<1>3. AmountMeasured'
  <2>1. todo = <<>> => ~Some(todo, Late)
    BY DEF Some
  <2>2. \A b \in CPUs : Some(run[b].todo, Late) => run[b].key \in Keys
    <3> SUFFICES ASSUME NEW b \in CPUs, Some(run[b].todo, Late) PROVE run[b].key \in Keys
      OBVIOUS
    <3>1. run[b].todo # <<>>
      BY NoneLeft, Zenon
    <3> QED
      BY <3>1 DEF TypeOK
  <2>3. \A b \in CPUs \ {c} : Some(run[b].todo, Late) => run[b].amount \in measured'[run[b].key] \cup {0}
    BY <2>2 DEF StatsInv, AmountMeasured
  <2> QED
    BY <1>1, <2>1, <2>3 DEF StatsInv, AmountMeasured
<1>4. (InPlace => Pointers)'
  <2>1. Idle.ptr = NoElem
    BY DEF Idle
  <2>2. entry[run[c].key] # NoElem =>
           /\ entry[run[c].key] \notin free
           /\ \A k \in Keys : run[c].key = k <=> entry[run[c].key] = entry[k]
    BY <1>0 DEF StatsInv, OneOwner
  <2>3. UNCHANGED <<entry, free, lossy, program>>
    BY DEF hashVars
  <2> SUFFICES ASSUME InPlace' PROVE Pointers'
    OBVIOUS
  <2>4. Pointers
    BY <2>3 DEF StatsInv, InPlace, Does
  <2>5. ASSUME NEW b \in CPUs, run'[b].ptr # NoElem
        PROVE  /\ run'[b].ptr \notin free
               /\ \A k \in Keys \ lossy : run'[b].key = k <=> run'[b].ptr = entry[k]
    <3>1. CASE b = c
      BY <1>1, <2>1, <2>2, <2>5, <3>1
    <3>2. CASE b # c
      BY <1>1, <2>4, <2>5, <3>2 DEF Pointers
    <3> QED
      BY <3>1, <3>2
  <2> QED
    BY <2>3, <2>5 DEF Pointers
<1>5. ASSUME NEW k \in Keys \ lossy, ExtremesOf(k) PROVE ExtremesOf(k)'
  <2>1. Cell(k)' = Cell(k)
    BY DEF Cell, hashVars
  <2>2. ASSUME NEW f \in Nat, Between(k, f) PROVE Between(k, f)'
    <3>1. ASSUME NEW b \in CPUs, run'[b].ptr = entry'[k] PROVE Bounded(b, f)'
      BY <1>1, <2>2, <3>1 DEF Between, Bounded, hashVars
    <3> QED
      BY <2>1, <2>2, <3>1 DEF Between
  <2> QED
    BY <1>5, <2>1, <2>2 DEF ExtremesOf, hashVars
<1> QED
  BY <1>2, <1>3, <1>4, <1>5 DEF StatsInv, Extremes, Does, hashVars

(* A store of c's amount over a minimum or maximum, f being that field.    *)
LEMMA StoreKeeps ==
    ASSUME TypeOK, PointerTyped, StatsInv, NEW c \in CPUs, StoreMin(c) \/ StoreMax(c)
    PROVE  StatsInv'
<1> DEFINE p == run[c].ptr
           a == run[c].amount
<1>1. /\ run[c].todo # <<>> /\ p \in Elems /\ run[c].key \in Keys /\ run[c] \in Run
      /\ Some(run[c].todo, Late) /\ value \in [Elems -> Stats] /\ run \in [CPUs -> Run]
      /\ StoreMin(c) => Some(run[c].todo, MinStore)
      /\ StoreMax(c) => Some(run[c].todo, MaxStore)
      /\ entry \in [Keys -> Elems \cup {NoElem}]
  <2>1. run \in [CPUs -> Run] /\ value \in [Elems -> Stats] /\ entry \in [Keys -> Elems \cup {NoElem}]
    BY DEF TypeOK, HashTypeOK
  <2>2. PICK s \in {"store min", "store max"} : At(c, s) /\ (StoreMin(c) => s = "store min")
                                                /\ (StoreMax(c) => s = "store max")
    BY DEF StoreMin, StoreMax, Store, At
  <2>3. run[c].todo # <<>> /\ Some(run[c].todo, {s}) /\ Some(run[c].todo, Late)
    BY <2>1, <2>2, HeadSome DEF Late
  <2>4. run[c].key \in Keys /\ p \in Elems
    BY <2>2, <2>3 DEF TypeOK
  <2> QED
    BY <2>1, <2>2, <2>3, <2>4 DEF MinStore, MaxStore
<1>2. /\ GoOn(c, Tail(run[c].todo), run[c]) /\ UNCHANGED <<program, entry, free, extra, hist>>
      /\ \A e \in Elems \ {p} : value'[e] = value[e]
      /\ StoreMin(c) => value'[p].min = a /\ value'[p].max = value[p].max
      /\ StoreMax(c) => value'[p].max = a /\ value'[p].min = value[p].min
  <2>1. GoOn(c, Tail(run[c].todo), run[c]) /\ UNCHANGED <<program, entry, free, extra, hist>>
    BY DEF StoreMin, StoreMax, Store, Proceed, Write
  <2>2. CASE StoreMin(c)
    <3>1. value' = [value EXCEPT ![p] = [value[p] EXCEPT !["min"] = a]]
      BY <2>2 DEF StoreMin, Store, Write
    <3>2. value'[p] = [value[p] EXCEPT !["min"] = a] /\ \A e \in Elems \ {p} : value'[e] = value[e]
      BY <1>1, <3>1
    <3>3. value[p] \in Stats
      BY <1>1
    <3>4. value'[p].min = a /\ value'[p].max = value[p].max
      BY <3>2, <3>3 DEF Stats
    <3>5. ~StoreMax(c)
      BY <2>2 DEF StoreMin, StoreMax, Store, At
    <3> QED
      BY <2>1, <3>2, <3>4, <3>5
  <2>3. CASE StoreMax(c)
    <3>1. value' = [value EXCEPT ![p] = [value[p] EXCEPT !["max"] = a]]
      BY <2>3 DEF StoreMax, Store, Write
    <3>2. value'[p] = [value[p] EXCEPT !["max"] = a] /\ \A e \in Elems \ {p} : value'[e] = value[e]
      BY <1>1, <3>1
    <3>3. value[p] \in Stats
      BY <1>1
    <3>4. value'[p].max = a /\ value'[p].min = value[p].min
      BY <3>2, <3>3 DEF Stats
    <3>5. ~StoreMin(c)
      BY <2>3 DEF StoreMin, StoreMax, Store, At
    <3> QED
      BY <2>1, <3>2, <3>4, <3>5
  <2> QED
    BY <2>2, <2>3
<1>3. /\ Tail(run[c].todo) \in Seq(Steps)
      /\ Some(Tail(run[c].todo), Late) => Some(run[c].todo, Late)
      /\ Some(Tail(run[c].todo), MinStore) => Some(run[c].todo, MinStore)
      /\ Some(Tail(run[c].todo), MaxStore) => Some(run[c].todo, MaxStore)
  <2>1. Tail(run[c].todo) \in Seq(Steps)
    BY <1>1, TailKeeps
  <2>2. Some(Tail(run[c].todo), Late) => Some(run[c].todo, Late)
    BY <1>1, TailKeeps
  <2>3. Some(Tail(run[c].todo), MinStore) => Some(run[c].todo, MinStore)
    BY <1>1, TailKeeps
  <2>4. Some(Tail(run[c].todo), MaxStore) => Some(run[c].todo, MaxStore)
    BY <1>1, TailKeeps
  <2> QED
    BY <2>1, <2>2, <2>3, <2>4
<1>4. OneOwner' /\ AmountMeasured' /\ (InPlace => Pointers)' /\ (Does("min"))' = Does("min")
  BY <1>1, <1>2, <1>3, LocalsKeep
<1>5. /\ \A b \in CPUs \ {c} : run'[b] = run[b]
      /\ run'[c].ptr \in {p, NoElem}
      /\ run'[c].ptr = p => /\ run'[c].amount = a
                            /\ Some(run'[c].todo, MinStore) => Some(run[c].todo, MinStore)
                            /\ Some(run'[c].todo, MaxStore) => Some(run[c].todo, MaxStore)
  <2> DEFINE todo == Tail(run[c].todo)
  <2>0. GoOn(c, todo, run[c]) /\ todo \in Seq(Steps) /\ run[c] \in Run /\ run \in [CPUs -> Run]
    BY <1>1, <1>2, <1>3
  <2>1. /\ \A b \in CPUs \ {c} : run'[b] = run[b]
        /\ run'[c].todo = todo
        /\ todo = <<>> => run'[c] = Idle
        /\ todo # <<>> => run'[c].amount = run[c].amount /\ run'[c].ptr = run[c].ptr
    <3> HIDE DEF todo
    <3> QED
      BY <2>0, GoOnRun
  <2>2. Idle.ptr = NoElem /\ NoElem \notin Elems
    BY DEF Idle, Elems
  <2>3. /\ Some(todo, MinStore) => Some(run[c].todo, MinStore)
        /\ Some(todo, MaxStore) => Some(run[c].todo, MaxStore)
    BY <1>3
  <2> HIDE DEF todo
  <2> QED
    BY <1>1, <2>1, <2>2, <2>3
<1>6. /\ a \in Nat
      /\ a \in measured[run[c].key] \cup {0}
      /\ a = 0 => program.zeroed
  <2>1. run[c] \in Run
    BY <1>1
  <2>2. run[c].amount \in Amounts \cup {0}
    BY <2>1 DEF Run
  <2>3. Amounts \cup {0} \subseteq Nat
    OBVIOUS
  <2> QED
    BY <1>1, <2>2, <2>3 DEF StatsInv, AmountMeasured
<1>7. ASSUME NEW k \in Keys \ lossy, ExtremesOf(k), Does("min") PROVE ExtremesOf(k)'
  <2> SUFFICES ASSUME entry[k] # NoElem PROVE ExtremesOf(k)'
    BY <1>2 DEF ExtremesOf
  <2>0. entry[k] \in Elems /\ entry' = entry /\ measured' = measured /\ program' = program
    BY <1>1, <1>2 DEF hist
  <2>1. CASE entry[k] # p
    <3>1. Cell(k)' = Cell(k)
      BY <1>2, <2>0, <2>1 DEF Cell
    <3>2. ASSUME NEW f \in Nat, Between(k, f) PROVE Between(k, f)'
      <4>1. ASSUME NEW b \in CPUs, run'[b].ptr = entry'[k] PROVE Bounded(b, f)'
        <5>1. b # c
          BY <1>5, <2>0, <2>1, <4>1
        <5> QED
          BY <1>5, <2>0, <3>2, <4>1, <5>1 DEF Between, Bounded
      <4> QED
        BY <3>1, <3>2, <4>1 DEF Between
    <3> QED
      BY <1>7, <2>0, <3>1, <3>2 DEF ExtremesOf
  <2>2. CASE entry[k] = p
    <3>1. run[c].key = k
      <4>1. Pointers
        BY <1>7, KeepsExtremes DEF StatsInv, TypeOK
      <4> QED
        BY <1>1, <2>2, <4>1 DEF Pointers, Elems
    <3>2. /\ value[p].min \in Nat /\ value[p].max \in Nat
          /\ Cell(k) = value[p] /\ Cell(k)' = value'[p]
      BY <1>1, <2>0, <2>2 DEF Cell, Stats
    <3>3. {Cell(k)'.min, Cell(k)'.max} \subseteq
               measured[k] \cup (IF program.zeroed THEN {0} ELSE {})
      BY <1>2, <1>6, <1>7, <3>1, <3>2 DEF ExtremesOf
    <3>4. ASSUME NEW f \in Nat, Between(k, f) PROVE Between(k, f)'
      <4>1. Bounded(c, f) /\ value[p].min <= f /\ f <= value[p].max
        BY <2>2, <3>2, <3>4 DEF Between
      <4>2. Cell(k)'.min <= f /\ f <= Cell(k)'.max
        BY <1>1, <1>2, <1>6, <3>2, <4>1 DEF Bounded
      <4>3. ASSUME NEW b \in CPUs, run'[b].ptr = entry'[k] PROVE Bounded(b, f)'
        <5>1. CASE b = c
          BY <1>5, <2>0, <2>2, <4>1, <4>3, <5>1 DEF Bounded
        <5>2. CASE b # c
          BY <1>5, <2>0, <3>4, <4>3, <5>2 DEF Between, Bounded
        <5> QED
          BY <5>1, <5>2
      <4> QED
        BY <4>2, <4>3 DEF Between
    <3> QED
      BY <1>7, <2>0, <3>3, <3>4 DEF ExtremesOf
  <2> QED
    BY <2>1, <2>2
<1> QED
  BY <1>2, <1>4, <1>7 DEF StatsInv, Extremes, hist

LEMMA AmountNat ==
    ASSUME TypeOK, NEW c \in CPUs
    PROVE  run[c].amount \in Nat
<1>1. run[c] \in Run
  BY DEF TypeOK
<1>2. run[c].amount \in Amounts \cup {0}
  BY <1>1 DEF Run
<1>3. Amounts \cup {0} \subseteq Nat
  OBVIOUS
<1> QED
  BY <1>2, <1>3

(* A test of an extreme: a store follows only if it improves on what there *)
(* is, or on the 0 of an empty struct.                                     *)
Improves(c, s) ==
    /\ s = "store min" /\ ~program.zeroed => run[c].amount < value[run[c].ptr].min
    /\ s = "store max" => run[c].amount > value[run[c].ptr].max

LEMMA ImprovesBounds ==
    ASSUME TypeOK, NEW c \in CPUs, run[c].ptr \in Elems, ~program.zeroed, NEW f \in Nat,
           value[run[c].ptr].min <= f, f <= value[run[c].ptr].max, NEW s, Improves(c, s)
    PROVE  /\ s = "store min" => run[c].amount <= f
           /\ s = "store max" => f <= run[c].amount
<1> DEFINE old == value[run[c].ptr]
           a == run[c].amount
<1>1. old.min \in Nat /\ old.max \in Nat /\ a \in Nat
  BY AmountNat DEF TypeOK, HashTypeOK, Stats
<1>2. old.min <= f /\ f <= old.max
  OBVIOUS
<1> HIDE DEF old, a
<1>3. a < old.min => a <= f
  BY <1>1, <1>2
<1>4. a > old.max => f <= a
  BY <1>1, <1>2
<1> QED
  BY <1>3, <1>4, Zenon DEF old, a, Improves

LEMMA TestKeeps ==
    ASSUME TypeOK, PointerTyped, StatsInv, NEW c \in CPUs,
           NEW s \in {"store min", "store max"},
           NEW todo, todo = <<s>> \o Tail(run[c].todo), GoOn(c, todo, run[c]),
           TestMin(c) \/ TestMax(c), Improves(c, s)
    PROVE  StatsInv'
<1>1. /\ run \in [CPUs -> Run] /\ run[c] \in Run /\ run[c].todo \in Seq(Steps) /\ run[c].todo # <<>>
      /\ run[c].ptr \in Elems /\ Some(run[c].todo, Late)
      /\ UNCHANGED <<program, hashVars, hist>>
  <2>1. run \in [CPUs -> Run]
    BY DEF TypeOK
  <2>2. PICK t \in {"min", "max"} : At(c, t)
    BY DEF TestMin, TestMax
  <2>3. run[c] \in Run /\ run[c].todo \in Seq(Steps) /\ run[c].todo # <<>> /\ Some(run[c].todo, Late)
    BY <2>1, <2>2, HeadSome DEF Late
  <2>4. run[c].ptr \in Elems
    BY <2>2 DEF TypeOK
  <2> QED
    BY <2>1, <2>3, <2>4 DEF TestMin, TestMax
<1>2. /\ Tail(run[c].todo) \in Seq(Steps) /\ <<s>> \in Seq(Steps) /\ todo \in Seq(Steps)
      /\ s \in Steps
  <2>1. Tail(run[c].todo) \in Seq(Steps)
    BY <1>1, TailKeeps
  <2>2. s \in Steps
    BY DEF Steps
  <2>3. <<s>> \in Seq(Steps)
    BY <2>2, OneStep
  <2> QED
    BY <2>1, <2>2, <2>3, SomeConcat
<1>3. Some(todo, MinStore) => s = "store min" \/ Some(run[c].todo, MinStore)
  <2>1. Some(todo, MinStore) => Some(<<s>>, MinStore) \/ Some(Tail(run[c].todo), MinStore)
    BY <1>2, SomeConcat
  <2>2. Some(Tail(run[c].todo), MinStore) => Some(run[c].todo, MinStore)
    BY <1>1, TailKeeps
  <2>3. Some(<<s>>, MinStore) => s = "store min"
    BY <1>2, OneStep DEF MinStore
  <2> QED
    BY <2>1, <2>2, <2>3
<1>4. Some(todo, MaxStore) => s = "store max" \/ Some(run[c].todo, MaxStore)
  <2>1. Some(todo, MaxStore) => Some(<<s>>, MaxStore) \/ Some(Tail(run[c].todo), MaxStore)
    BY <1>2, SomeConcat
  <2>2. Some(Tail(run[c].todo), MaxStore) => Some(run[c].todo, MaxStore)
    BY <1>1, TailKeeps
  <2>3. Some(<<s>>, MaxStore) => s = "store max"
    BY <1>2, OneStep DEF MaxStore
  <2> QED
    BY <2>1, <2>2, <2>3
<1>6. UNCHANGED <<program, entry, free, extra, value, hist>>
  BY <1>1 DEF hashVars
<1>7. OneOwner' /\ AmountMeasured' /\ (InPlace => Pointers)' /\ (Does("min"))' = Does("min")
  BY <1>1, <1>2, <1>6, LocalsKeep
<1>8. /\ \A b \in CPUs \ {c} : run'[b] = run[b]
      /\ run'[c].todo = todo
      /\ run'[c].ptr \in {run[c].ptr, NoElem}
      /\ run'[c].ptr = run[c].ptr => run'[c].amount = run[c].amount
  <2>1. Idle.ptr = NoElem /\ NoElem \notin Elems
    BY DEF Idle, Elems
  <2>2. /\ \A b \in CPUs \ {c} : run'[b] = run[b]
        /\ run'[c].todo = todo
        /\ todo = <<>> => run'[c] = Idle
        /\ todo # <<>> => run'[c].amount = run[c].amount /\ run'[c].ptr = run[c].ptr
    BY <1>1, <1>2, GoOnRun
  <2> QED
    BY <1>1, <2>1, <2>2
<1>9. ASSUME NEW k \in Keys \ lossy, ExtremesOf(k) PROVE ExtremesOf(k)'
  <2> SUFFICES ASSUME entry[k] # NoElem PROVE ExtremesOf(k)'
    BY <1>6 DEF ExtremesOf
  <2>1. entry[k] \in Elems /\ Cell(k)' = Cell(k) /\ Cell(k) = value[entry[k]]
        /\ value[entry[k]].min \in Nat /\ value[entry[k]].max \in Nat
    BY <1>6 DEF Cell, TypeOK, HashTypeOK, Stats
  <2>2. ASSUME ~program.zeroed, NEW f \in Nat, Between(k, f) PROVE Between(k, f)'
    <3>1. ASSUME NEW b \in CPUs, run'[b].ptr = entry'[k] PROVE Bounded(b, f)'
      <4>1. CASE b # c
        BY <1>6, <1>8, <2>2, <3>1, <4>1 DEF Between, Bounded
      <4>2. CASE b = c
        <5>1. run[c].ptr = entry[k] /\ run'[c].amount = run[c].amount
          BY <1>6, <1>8, <2>1, <3>1, <4>2 DEF Elems
        <5>2. Bounded(c, f) /\ value[run[c].ptr].min <= f /\ f <= value[run[c].ptr].max
          BY <2>1, <2>2, <5>1 DEF Between
        <5>3. s = "store min" => run[c].amount <= f
          BY <1>1, <2>2, <5>2, ImprovesBounds
        <5>4. s = "store max" => f <= run[c].amount
          BY <1>1, <2>2, <5>2, ImprovesBounds
        <5> QED
          BY <1>3, <1>4, <1>8, <4>2, <5>1, <5>2, <5>3, <5>4 DEF Bounded
      <4> QED
        BY <4>1, <4>2
    <3> QED
      BY <2>1, <2>2, <3>1 DEF Between
  <2> QED
    BY <1>6, <1>9, <2>1, <2>2 DEF ExtremesOf, hist
<1> QED
  BY <1>6, <1>7, <1>9 DEF StatsInv, Extremes, hist

(* An insertion by a program that changes elements in place finds the key  *)
(* absent, or loses what was there.                                        *)
LEMMA InsertKeeps ==
    ASSUME TypeOK, PointerTyped, StatsInv, NEW c \in CPUs, Insert(c)
    PROVE  StatsInv'
<1> DEFINE k == run[c].key
           v == IF program.zeroed THEN Zero ELSE Plus(run[c].base, run[c].amount)
<1>1. /\ HashTypeOK(Stats) /\ OneOwner /\ run \in [CPUs -> Run] /\ run[c] \in Run /\ k \in Keys
      /\ run[c].todo # <<>> /\ Some(run[c].todo, Late) /\ program \in Programs
      /\ lossy \in SUBSET Keys /\ run[c].base \in Stats
  <2>1. run \in [CPUs -> Run] /\ HashTypeOK(Stats) /\ program \in Programs /\ lossy \in SUBSET Keys
    BY DEF TypeOK
  <2>2. run[c] \in Run /\ run[c].todo # <<>> /\ Some(run[c].todo, Late)
    BY <2>1, HeadSome DEF Insert, Late
  <2>3. k \in Keys
    BY <2>2 DEF TypeOK
  <2>4. run[c].base \in Stats
    BY <2>2 DEF Run
  <2> QED
    BY <2>1, <2>2, <2>3, <2>4 DEF StatsInv
<1>2. v \in Stats
  BY <1>1, AmountNat, PlusType, StatsType
<1>3. /\ Update(c, k, v) /\ GoOn(c, Tail(run[c].todo), run[c])
      /\ UNCHANGED <<program, measured>>
      /\ lossy' = IF \/ entry[k] = NoElem /\ free = {}
                     \/ entry[k] # NoElem /\ (~Does("copy") \/ value[entry[k]] # run[c].base)
                  THEN lossy \cup {k} ELSE lossy
  BY DEF Insert, Proceed
<1>4. /\ Tail(run[c].todo) \in Seq(Steps)
      /\ Some(Tail(run[c].todo), Late) => Some(run[c].todo, Late)
      /\ Some(Tail(run[c].todo), MinStore) => Some(run[c].todo, MinStore)
      /\ Some(Tail(run[c].todo), MaxStore) => Some(run[c].todo, MaxStore)
  <2>1. Tail(run[c].todo) \in Seq(Steps)
    BY <1>1, TailKeeps
  <2>2. Some(Tail(run[c].todo), Late) => Some(run[c].todo, Late)
    BY <1>1, TailKeeps
  <2>3. Some(Tail(run[c].todo), MinStore) => Some(run[c].todo, MinStore)
    BY <1>1, TailKeeps
  <2>4. Some(Tail(run[c].todo), MaxStore) => Some(run[c].todo, MaxStore)
    BY <1>1, TailKeeps
  <2> QED
    BY <2>1, <2>2, <2>3, <2>4
<1> DEFINE todo == Tail(run[c].todo)
<1>5. /\ \A b \in CPUs \ {c} : run'[b] = run[b]
      /\ run'[c].todo = todo
      /\ todo = <<>> => run'[c] = Idle
      /\ todo # <<>> => /\ run'[c].key = run[c].key /\ run'[c].amount = run[c].amount
                        /\ run'[c].ptr = run[c].ptr
  <2>1. GoOn(c, todo, run[c]) /\ todo \in Seq(Steps) /\ run[c] \in Run /\ run \in [CPUs -> Run]
    BY <1>1, <1>3, <1>4
  <2> HIDE DEF todo
  <2> QED
    BY <2>1, GoOnRun
<1>6. /\ Some(todo, Late) => Some(run[c].todo, Late)
      /\ Some(todo, MinStore) => Some(run[c].todo, MinStore)
      /\ Some(todo, MaxStore) => Some(run[c].todo, MaxStore)
  BY <1>4
<1> HIDE DEF todo, v
<1>7. OneOwner'
  BY <1>1, <1>3, UpdateOneOwner
<1>8. AmountMeasured'
  <2>1. todo = <<>> => ~Some(todo, Late)
    BY NoneLeft, Zenon
  <2> QED
    BY <1>1, <1>3, <1>5, <1>6, <2>1 DEF StatsInv, AmountMeasured
<1>9. /\ \A j \in Keys \ {k} : /\ entry'[j] = entry[j]
                               /\ entry[j] # NoElem => value'[entry[j]] = value[entry[j]]
      /\ free' \subseteq free
  BY <1>1, <1>3, UpdateFrame
<1>10. ASSUME InPlace, k \notin lossy'
       PROVE  /\ entry[k] = NoElem /\ k \notin lossy
              /\ entry'[k] \in free /\ entry'[k] \in Elems /\ value'[entry'[k]] = v
  <2>1. entry[k] = NoElem /\ free # {} /\ k \notin lossy
    BY <1>3, <1>10 DEF InPlace
  <2>2. Link(k, v)
    BY <1>3, <2>1 DEF Update, Replace, Refuse
  <2> QED
    BY <1>1, <2>1, <2>2 DEF Link, HashTypeOK
<1>11. Idle.ptr = NoElem /\ NoElem \notin Elems
  BY DEF Idle, Elems
<1>12. ASSUME InPlace, NEW b \in CPUs, run'[b].ptr # NoElem
       PROVE  run[b].ptr = run'[b].ptr /\ run[b].key = run'[b].key
              /\ run[b].amount = run'[b].amount
  BY <1>5, <1>11, <1>12
<1>13. (InPlace => Pointers)'
  <2> SUFFICES ASSUME InPlace' PROVE Pointers'
    OBVIOUS
  <2>1. InPlace /\ Pointers
    BY <1>3 DEF InPlace, Does, StatsInv
  <2>2. ASSUME NEW b \in CPUs, run'[b].ptr # NoElem
        PROVE  /\ run'[b].ptr \notin free'
               /\ \A j \in Keys \ lossy' : run'[b].key = j <=> run'[b].ptr = entry'[j]
    <3>1. run[b].ptr \notin free /\ \A j \in Keys \ lossy : run[b].key = j <=> run[b].ptr = entry[j]
      BY <1>12, <2>1, <2>2 DEF Pointers
    <3>2. run'[b].ptr = run[b].ptr /\ run'[b].key = run[b].key
      BY <1>12, <2>1, <2>2
    <3>3. ASSUME NEW j \in Keys \ lossy', j # k
          PROVE  run'[b].key = j <=> run'[b].ptr = entry'[j]
      BY <1>3, <1>9, <3>1, <3>2, <3>3
    <3>4. ASSUME k \notin lossy' PROVE run'[b].key # k /\ run'[b].ptr # entry'[k]
      BY <1>1, <1>10, <2>1, <2>2, <3>1, <3>2, <3>4
    <3> QED
      BY <1>9, <3>1, <3>2, <3>3, <3>4
  <2> QED
    BY <2>2 DEF Pointers
<1>14. Extremes'
  <2> SUFFICES ASSUME (Does("min"))', NEW j \in Keys \ lossy' PROVE ExtremesOf(j)'
    BY DEF Extremes
  <2>1. Does("min") /\ InPlace /\ Does("max") /\ Pointers /\ j \notin lossy
    BY <1>1, <1>3, KeepsExtremes DEF Does, StatsInv
  <2>2. CASE j # k
    <3> SUFFICES ASSUME entry'[j] # NoElem PROVE ExtremesOf(j)'
      BY DEF ExtremesOf
    <3>1. ExtremesOf(j)
      BY <2>1 DEF StatsInv, Extremes
    <3>2. entry'[j] = entry[j] /\ Cell(j)' = Cell(j)
      BY <1>9, <2>2 DEF Cell
    <3>3. ASSUME NEW f \in Nat, Between(j, f) PROVE Between(j, f)'
      <4>1. ASSUME NEW b \in CPUs, run'[b].ptr = entry'[j] PROVE Bounded(b, f)'
        <5>1. run[b].ptr = entry[j] /\ run'[b].amount = run[b].amount
          BY <1>12, <2>1, <3>2, <4>1
        <5>2. Bounded(b, f)
          BY <3>3, <5>1 DEF Between
        <5> QED
          BY <1>5, <1>6, <5>1, <5>2 DEF Bounded
      <4> QED
        BY <3>2, <3>3, <4>1 DEF Between
    <3> QED
      BY <1>3, <3>1, <3>2, <3>3 DEF ExtremesOf
  <2>3. CASE j = k
    <3>1. Cell(j)' = v /\ \A b \in CPUs : run'[b].ptr # entry'[k]
      <4>1. Cell(j)' = v
        BY <1>10, <1>11, <2>1, <2>3 DEF Cell
      <4>2. ASSUME NEW b \in CPUs PROVE run'[b].ptr # entry'[k]
        <5>1. CASE run'[b].ptr = NoElem
          BY <1>10, <1>11, <2>1, <2>3, <5>1
        <5>2. CASE run'[b].ptr # NoElem
          BY <1>10, <1>12, <2>1, <2>3, <5>2 DEF Pointers
        <5> QED
          BY <5>1, <5>2
      <4> QED
        BY <4>1, <4>2
    <3>2. CASE program.zeroed
      <4>1. v.min = 0 /\ v.max = 0
        BY <3>2 DEF v, Zero
      <4> QED
        BY <1>3, <2>3, <3>1, <3>2, <4>1 DEF ExtremesOf
    <3>3. CASE ~program.zeroed
      <4>1. v.min = run[c].amount /\ v.max = run[c].amount
        BY <1>1, <2>1, <3>3, AmountNat, PlusType DEF v
      <4>2. run[c].amount \in measured[k] /\ run[c].amount \in Nat
        BY <1>1, <3>3, AmountNat DEF StatsInv, AmountMeasured
      <4>3. PICK f \in Nat : f = run[c].amount
        BY <4>2
      <4>4. Between(j, f)'
        BY <2>3, <3>1, <4>1, <4>3 DEF Between
      <4> QED
        BY <1>3, <2>3, <3>1, <3>3, <4>1, <4>2, <4>4 DEF ExtremesOf
    <3> QED
      BY <3>2, <3>3
  <2> QED
    BY <2>2, <2>3
<1> QED
  BY <1>7, <1>8, <1>13, <1>14 DEF StatsInv

LEMMA StartKeeps ==
    ASSUME TypeOK, StatsInv, NEW c \in CPUs, NEW k \in Keys, Start(c, k)
    PROVE  StatsInv'
<1>1. PICK todo \in Seq(Steps), a \in Amounts \cup {0} :
              /\ a = 0 => program.unmeasured
              /\ \A i \in DOMAIN todo : todo[i] \in {"reserve", "submit", "lookup"}
              /\ run' = [run EXCEPT ![c] = Started(todo, k, a)]
  BY StartRun
<1>2. /\ \A b \in CPUs \ {c} : run'[b] = run[b]
      /\ run'[c].todo = todo /\ run'[c].amount = a /\ run'[c].ptr = NoElem
  BY <1>1 DEF Started, TypeOK
<1>3. ~Some(todo, Late) /\ (a = 0 => program.zeroed)
  BY <1>1, KeepsExtremes DEF Some, Late, TypeOK
<1>4. UNCHANGED <<program, entry, value, free, extra, hist>>
  BY DEF Start, hashVars
<1>5. OneOwner'
  BY <1>4 DEF StatsInv, OneOwner
<1>6. AmountMeasured'
  BY <1>2, <1>3, <1>4 DEF StatsInv, AmountMeasured, hist
<1>7. (InPlace => Pointers)'
  BY <1>2, <1>4 DEF StatsInv, InPlace, Does, Pointers, hist
<1>8. ASSUME NEW j \in Keys \ lossy, ExtremesOf(j) PROVE ExtremesOf(j)'
  <2> SUFFICES ASSUME entry[j] # NoElem PROVE ExtremesOf(j)'
    BY <1>4 DEF ExtremesOf
  <2>1. Cell(j)' = Cell(j)
    BY <1>4 DEF Cell
  <2>2. ASSUME NEW f \in Nat, Between(j, f) PROVE Between(j, f)'
    <3>1. ASSUME NEW b \in CPUs, run'[b].ptr = entry'[j] PROVE Bounded(b, f)'
      BY <1>2, <1>4, <2>2, <3>1 DEF Between, Bounded
    <3> QED
      BY <2>1, <2>2, <3>1 DEF Between
  <2> QED
    BY <1>4, <1>8, <2>1, <2>2 DEF ExtremesOf, hist
<1> QED
  BY <1>4, <1>5, <1>6, <1>7, <1>8 DEF StatsInv, Extremes, Does, hist

(* The parts of a profile without a store, and without a late step.        *)
LEMMA ProfileSteps ==
    ASSUME program \in Programs
    PROVE  /\ <<>> \in Seq(Steps) /\ program.miss \in Seq(Steps)
           /\ program.hit \in Seq(Steps) /\ program.after \in Seq(Steps)
           /\ \A s \in {<<>>, program.miss, program.hit, program.after} :
                 ~Some(s, MinStore) /\ ~Some(s, MaxStore)
           /\ ~Some(program.after, Late)
<1>1. program.miss \in Seq(Steps) /\ program.hit \in Seq(Steps) /\ program.after \in Seq(Steps)
  BY Profile
<1>2. ~Some(program.miss, MinStore) /\ ~Some(program.miss, MaxStore)
  BY Profile DEF Some, MinStore, MaxStore
<1>3. ~Some(program.hit, MinStore) /\ ~Some(program.hit, MaxStore)
  BY Profile DEF Some, MinStore, MaxStore
<1>4. ~Some(program.after, MinStore) /\ ~Some(program.after, MaxStore) /\ ~Some(program.after, Late)
  BY Profile DEF Some, MinStore, MaxStore, Late
<1>5. <<>> \in Seq(Steps) /\ ~Some(<<>>, MinStore) /\ ~Some(<<>>, MaxStore)
  BY DEF Some
<1> QED
  BY <1>1, <1>2, <1>3, <1>4, <1>5

(* An atomic add leaves the extremes alone.                                *)
LEMMA AddKeeps ==
    ASSUME TypeOK, StatsInv, NEW c \in CPUs, NEW step \in {"count", "class", "total"},
           NEW field \in {"count", "classed", "total"}, NEW n, Add(c, step, field, n),
           NEW r \in Run, r.key = run[c].key, r.ptr = run[c].ptr, r.amount = run[c].amount,
           GoOn(c, Tail(run[c].todo), r)
    PROVE  StatsInv'
<1>1. run[c].todo # <<>> /\ run[c].ptr \in Elems
  BY DEF Add, At, TypeOK
<1>2. UNCHANGED <<program, entry, free, extra, hist>>
  BY DEF Add, Write
<1>3. \A e \in Elems : value'[e].min = value[e].min /\ value'[e].max = value[e].max
  <2> DEFINE p == run[c].ptr
             w == [value[p] EXCEPT ![field] = @ + n]
  <2>1. value' = [value EXCEPT ![p] = w] /\ value \in [Elems -> Stats]
    BY DEF Add, Write, TypeOK, HashTypeOK
  <2>2. value[p] \in Stats
    BY <1>1, <2>1
  <2>3. w.min = value[p].min /\ w.max = value[p].max
    BY <2>2 DEF Stats
  <2> HIDE DEF w
  <2> QED
    BY <1>1, <2>1, <2>3
<1> QED
  BY <1>1, <1>2, <1>3, ExtremesTail

LEMMA StatsInvStep == TypeOK /\ PointerTyped /\ StatsInv /\ [Next]_vars => StatsInv'
<1> SUFFICES ASSUME TypeOK, PointerTyped, StatsInv, [Next]_vars PROVE StatsInv'
  OBVIOUS
<1>0. run \in [CPUs -> Run] /\ program \in Programs
      /\ \A c \in CPUs : run[c].todo # <<>> => run[c].key \in Keys
  BY DEF TypeOK
<1>1. ASSUME NEW c \in CPUs, NEW k \in Keys, Start(c, k) PROVE StatsInv'
  BY <1>1, StartKeeps
<1>2. ASSUME NEW c \in CPUs, Reserve(c) \/ Submit(c) \/ Sample(c) PROVE StatsInv'
  <2>1. run[c].todo # <<>> /\ run[c] \in Run
    BY <1>0, <1>2 DEF Reserve, Submit, Sample, At
  <2>2. GoOn(c, Tail(run[c].todo), run[c]) \/ GoOn(c, <<>>, run[c])
    BY <1>2 DEF Reserve, Submit, Sample, Proceed, GoOn
  <2>3. UNCHANGED <<program, entry, free, extra, hist>> /\ value' = value
    BY <1>2 DEF Reserve, Submit, Sample, hashVars
  <2> QED
    BY <2>1, <2>2, <2>3, ExtremesTail
<1>3. ASSUME NEW c \in CPUs, Lookup(c) PROVE StatsInv'
  <2> DEFINE r == [run[c] EXCEPT !.ptr = entry[run[c].key]]
             found == IF entry[run[c].key] = NoElem THEN program.miss ELSE program.hit
             todo == found \o program.after
  <2>1. run[c].todo # <<>> /\ run[c] \in Run /\ run[c].key \in Keys
        /\ entry[run[c].key] \in Elems \cup {NoElem}
    BY <1>0, <1>3 DEF Lookup, At, TypeOK, HashTypeOK
  <2>2. r \in Run /\ r.key = run[c].key /\ r.ptr = entry[run[c].key] /\ r.amount = run[c].amount
    BY <2>1 DEF Run
  <2>3. found \in Seq(Steps) /\ program.after \in Seq(Steps)
        /\ ~Some(found, MinStore) /\ ~Some(found, MaxStore)
        /\ ~Some(program.after, MinStore) /\ ~Some(program.after, MaxStore)
    BY <1>0, ProfileSteps
  <2>4. GoOn(c, todo, r) /\ UNCHANGED <<program, hashVars, lossy>>
    BY <1>3 DEF Lookup
  <2>5. /\ \A k \in Keys : measured[k] \subseteq measured'[k]
        /\ run[c].amount \in measured'[run[c].key] \cup {0}
    BY <1>3, <2>1 DEF Lookup, TypeOK
  <2> HIDE DEF r, found
  <2>6. todo \in Seq(Steps)
    BY <2>3, SomeConcat
  <2>7. ~Some(todo, MinStore)
    BY <2>3, SomeConcat
  <2>8. ~Some(todo, MaxStore)
    BY <2>3, SomeConcat
  <2> HIDE DEF todo
  <2> QED
    BY <2>1, <2>2, <2>4, <2>5, <2>6, <2>7, <2>8, LookupKeeps
<1>4. ASSUME NEW c \in CPUs, Relookup(c) PROVE StatsInv'
  <2> DEFINE e == entry[run[c].key]
             r == [run[c] EXCEPT !.ptr = e]
             found == IF e = NoElem THEN <<>> ELSE program.hit
             todo == found \o program.after
  <2>1. run[c].todo # <<>> /\ run[c] \in Run /\ run[c].key \in Keys /\ e \in Elems \cup {NoElem}
    BY <1>0, <1>4 DEF Relookup, At, TypeOK, HashTypeOK
  <2>2. r \in Run /\ r.key = run[c].key /\ r.ptr = e /\ r.amount = run[c].amount
    BY <2>1 DEF Run
  <2>3. found \in Seq(Steps) /\ program.after \in Seq(Steps)
        /\ ~Some(found, MinStore) /\ ~Some(found, MaxStore)
        /\ ~Some(program.after, MinStore) /\ ~Some(program.after, MaxStore)
    BY <1>0, ProfileSteps
  <2>4. GoOn(c, todo, r) /\ UNCHANGED <<program, hashVars, hist>>
    BY <1>4 DEF Relookup
  <2>5. measured' = measured /\ lossy' = lossy /\ run[c].amount \in measured[run[c].key] \cup {0}
    <3>1. Some(run[c].todo, Late)
      BY <1>0, <1>4, HeadSome DEF Relookup, Late
    <3> QED
      BY <2>4, <3>1 DEF hist, StatsInv, AmountMeasured
  <2> HIDE DEF r, found
  <2>6. todo \in Seq(Steps)
    BY <2>3, SomeConcat
  <2>7. ~Some(todo, MinStore)
    BY <2>3, SomeConcat
  <2>8. ~Some(todo, MaxStore)
    BY <2>3, SomeConcat
  <2> HIDE DEF todo
  <2> QED
    BY <2>1, <2>2, <2>4, <2>5, <2>6, <2>7, <2>8, LookupKeeps
<1>5. ASSUME NEW c \in CPUs, Copy(c) PROVE StatsInv'
  <2> DEFINE r == [run[c] EXCEPT !.base = value[run[c].ptr]]
  <2>1. run[c] \in Run /\ run[c].todo # <<>> /\ value[run[c].ptr] \in Stats
    BY <1>0, <1>5 DEF Copy, At, TypeOK, HashTypeOK
  <2>2. r \in Run /\ r.key = run[c].key /\ r.ptr = run[c].ptr /\ r.amount = run[c].amount
    BY <2>1 DEF Run
  <2>3. GoOn(c, Tail(run[c].todo), r) /\ UNCHANGED <<program, entry, value, free, extra, hist>>
    BY <1>5 DEF Copy, hashVars
  <2> HIDE DEF r
  <2> QED
    BY <2>1, <2>2, <2>3, ExtremesTail
<1>6. ASSUME NEW c \in CPUs, Insert(c) PROVE StatsInv'
  BY <1>6, InsertKeeps
<1>7. ASSUME NEW c \in CPUs, AddCount(c) PROVE StatsInv'
  <2> DEFINE n == value[run[c].ptr].count + 1
             r == [run[c] EXCEPT !.own = n]
  <2>1. run[c] \in Run /\ run[c].ptr \in Elems /\ Add(c, "count", "count", 1)
        /\ GoOn(c, Tail(run[c].todo), r)
    BY <1>0, <1>7 DEF AddCount, Add, At, TypeOK
  <2>2. n \in Nat
    <3>1. value[run[c].ptr] \in Stats
      BY <2>1 DEF TypeOK, HashTypeOK
    <3>2. value[run[c].ptr].count \in Nat
      BY <3>1 DEF Stats
    <3> QED
      BY <3>2
  <2> HIDE DEF n
  <2>3. r \in Run /\ r.key = run[c].key /\ r.ptr = run[c].ptr /\ r.amount = run[c].amount
    BY <2>1, <2>2 DEF Run
  <2> HIDE DEF r
  <2> QED
    BY <2>1, <2>3, AddKeeps
<1>8. ASSUME NEW c \in CPUs, AddClass(c) \/ AddTotal(c) PROVE StatsInv'
  <2>1. run[c] \in Run /\ GoOn(c, Tail(run[c].todo), run[c])
    BY <1>0, <1>8 DEF AddClass, AddTotal, Proceed
  <2>2. Add(c, "class", "classed", 1) \/ Add(c, "total", "total", run[c].amount)
    BY <1>8 DEF AddClass, AddTotal
  <2> QED
    BY <2>1, <2>2, AddKeeps
<1>9. ASSUME NEW c \in CPUs, TestMin(c) \/ TestMax(c) PROVE StatsInv'
  <2>1. run[c] \in Run /\ run[c].todo # <<>>
        /\ UNCHANGED <<program, entry, value, free, extra, hist>>
    BY <1>0, <1>9 DEF TestMin, TestMax, At, hashVars
  <2>2. \/ GoOn(c, Tail(run[c].todo), run[c])
        \/ \E s \in {"store min", "store max"} :
              GoOn(c, <<s>> \o Tail(run[c].todo), run[c]) /\ Improves(c, s)
    BY <1>9 DEF TestMin, TestMax, GoOn, Improves
  <2>3. CASE GoOn(c, Tail(run[c].todo), run[c])
    BY <2>1, <2>3, ExtremesTail
  <2>4. CASE \E s \in {"store min", "store max"} :
                GoOn(c, <<s>> \o Tail(run[c].todo), run[c]) /\ Improves(c, s)
    <3>1. PICK s \in {"store min", "store max"} :
             GoOn(c, <<s>> \o Tail(run[c].todo), run[c]) /\ Improves(c, s)
      BY <2>4
    <3> DEFINE todo == <<s>> \o Tail(run[c].todo)
    <3>2. GoOn(c, todo, run[c]) /\ todo = <<s>> \o Tail(run[c].todo) /\ Improves(c, s)
      BY <3>1
    <3> HIDE DEF todo
    <3> QED
      BY <1>9, <3>2, TestKeeps
  <2> QED
    BY <2>2, <2>3, <2>4
<1>10. ASSUME NEW c \in CPUs, StoreMin(c) \/ StoreMax(c) PROVE StatsInv'
  BY <1>10, StoreKeeps
<1>11. ASSUME NEW c \in CPUs, Positive(c) PROVE StatsInv'
  <2>1. run[c] \in Run /\ run[c].todo # <<>>
        /\ UNCHANGED <<program, entry, value, free, extra, hist>>
    BY <1>0, <1>11 DEF Positive, At, hashVars
  <2>2. GoOn(c, program.after, run[c]) \/ GoOn(c, Tail(run[c].todo), run[c])
    BY <1>11 DEF Positive
  <2>3. CASE GoOn(c, program.after, run[c])
    BY <1>0, <2>1, <2>3, ProfileSteps, ExtremesKeep
  <2>4. CASE GoOn(c, Tail(run[c].todo), run[c])
    BY <2>1, <2>4, ExtremesTail
  <2> QED
    BY <2>2, <2>3, <2>4
<1>12. ASSUME NEW c \in CPUs, Reload(c) PROVE StatsInv'
  <2> DEFINE n == IF run[c].ptr = NoElem THEN 1 ELSE value[run[c].ptr].count + program.extra
             r == [run[c] EXCEPT !.shown = n]
  <2>1. run[c] \in Run /\ run[c].todo # <<>>
    BY <1>0, <1>12 DEF Reload, At
  <2>2. n \in Nat
    <3>1. program.extra \in Nat
      BY <1>0, Profile
    <3>2. run[c].ptr # NoElem => value[run[c].ptr].count \in Nat
      BY <2>1 DEF Run, TypeOK, HashTypeOK, Stats
    <3> QED
      BY <3>1, <3>2
  <2> HIDE DEF n
  <2>3. r \in Run /\ r.key = run[c].key /\ r.ptr = run[c].ptr /\ r.amount = run[c].amount
    BY <2>1, <2>2 DEF Run
  <2>4. GoOn(c, Tail(run[c].todo), r) /\ UNCHANGED <<program, entry, value, free, extra, hist>>
    BY <1>12 DEF Reload, hashVars, n
  <2> HIDE DEF r
  <2> QED
    BY <2>1, <2>3, <2>4, ExtremesTail
<1>13. CASE UNCHANGED vars
  <2>1. UNCHANGED <<program, run, entry, value, free, extra, measured, lossy>>
    BY <1>13 DEF vars, hashVars, hist
  <2> QED
    BY <2>1 DEF StatsInv, OneOwner, AmountMeasured, InPlace, Pointers, Extremes, ExtremesOf,
                Between, Bounded, Cell, Does
<1> QED
  BY <1>1, <1>2, <1>3, <1>4, <1>5, <1>6, <1>7, <1>8, <1>9, <1>10, <1>11, <1>12, <1>13
     DEF Next, RunStep

LEMMA StatsInvInit == Init => TypeOK /\ PointerTyped /\ StatsInv
<1> SUFFICES ASSUME Init PROVE TypeOK /\ PointerTyped /\ StatsInv
  OBVIOUS
<1>1. TypeOK /\ PointerTyped
  BY StatsTypeInit
<1>2. \A c \in CPUs : run[c] = Idle
  BY DEF Init
<1>3. Idle.todo = <<>> /\ Idle.ptr = NoElem
  BY DEF Idle
<1>4. OneOwner
  BY DEF Init, HashInit, OneOwner
<1>5. AmountMeasured
  BY <1>2, <1>3, NoneLeft DEF AmountMeasured
<1>6. Pointers
  BY <1>2, <1>3 DEF Pointers
<1>7. Extremes
  BY DEF Init, HashInit, Extremes, ExtremesOf
<1> QED
  BY <1>1, <1>4, <1>5, <1>6, <1>7 DEF StatsInv

(* The minimum and the maximum of a key were measured for that key, or are *)
(* the 0 of an empty struct; and where the first call sets both, the       *)
(* minimum never exceeds the maximum, whatever stores are on their way.    *)
THEOREM ExtremesCorrect == Spec => []ExtremesMeasured
<1>1. Init => TypeOK /\ PointerTyped /\ StatsInv
  BY StatsInvInit
<1>2. TypeOK /\ PointerTyped /\ StatsInv /\ [Next]_vars => (TypeOK /\ PointerTyped /\ StatsInv)'
  BY StatsTypeStep, StatsInvStep
<1>3. TypeOK /\ StatsInv => ExtremesMeasured
  <2> SUFFICES ASSUME TypeOK, StatsInv, NEW k \in Keys \ lossy, entry[k] # NoElem, Does("min")
               PROVE  /\ {Cell(k).min, Cell(k).max} \subseteq
                             measured[k] \cup (IF program.zeroed THEN {0} ELSE {})
                      /\ ~program.zeroed => Cell(k).min <= Cell(k).max
    BY DEF ExtremesMeasured
  <2>1. ExtremesOf(k)
    BY DEF StatsInv, Extremes
  <2>2. Cell(k).min \in Nat /\ Cell(k).max \in Nat
    BY DEF Cell, TypeOK, HashTypeOK, Stats
  <2>3. ASSUME ~program.zeroed PROVE Cell(k).min <= Cell(k).max
    <3>1. PICK f \in Nat : Cell(k).min <= f /\ f <= Cell(k).max
      BY <2>1, <2>3 DEF ExtremesOf, Between
    <3> QED
      BY <2>2, <3>1
  <2> QED
    BY <2>1, <2>3 DEF ExtremesOf
<1> QED
  BY <1>1, <1>2, <1>3, PTL DEF Spec
-----------------------------------------------------------------------------
(* The totals: in which order the steps come, and what each still adds.    *)

USE FiniteAssumption

LookingUp == {"lookup"}
Again     == {"relookup"}
Inserting == {"insert"}
Counting  == {"count"}
Adding    == {"count", "class", "total"}
Reloading == {"reload"}

Fields  == {"count", "classed", "total"}
AddsTo  == [count |-> "count", classed |-> "class", total |-> "total"]

(* p is a profile.  The fields it keeps, ...                               *)
Kept(p, f) == \/ f = "count"
              \/ f = "classed" /\ Has(p.hit, "class")
              \/ f = "total" /\ (Has(p.hit, "total") \/ Has(p.hit, "copy"))

(* ... the steps of which one is to come while a call has not added to f,  *)
Owing(p, f) == {AddsTo[f], "relookup"} \cup IF p.zeroed THEN {} ELSE {"insert"}

(* ... and the pairs of steps that never come in this order.               *)
Clash(p, x, y) ==
    \/ \E f \in Fields : x \in Owing(p, f) /\ y \in Owing(p, f)
    \/ x \in {"reserve", "sample"} /\ y \in {"count", "class", "total", "insert", "relookup"}
    \/ x = "positive" /\ y \in {"count", "class", "insert", "relookup"}
    \/ x = "positive" /\ y = "reload" /\ ~Has(p.after, "reload")
    \/ x \notin {"reserve", "submit"} /\ y = "lookup"
    \/ x = "relookup" /\ y = "insert"
    \/ x = "reload" /\ y = "count"
    \/ x = "submit" /\ y = "reload"

Ordered(p, s) == \A i, j \in DOMAIN s : i < j => ~Clash(p, s[i], s[j])

InOrder(p, s) ==
    /\ Ordered(p, s)
    /\ Some(s, Adding) => ~Has(p.hit, "copy")
    /\ Some(s, Counting) /\ (Has(p.hit, "reload") \/ Has(p.after, "reload")) => Some(s, Reloading)

LEMMA SomeParts ==
    ASSUME NEW S, NEW s \in Seq(Steps), s # <<>>
    PROVE  Some(s, S) <=> Head(s) \in S \/ Some(Tail(s), S)
<1>1. /\ Len(Tail(s)) = Len(s) - 1 /\ Len(s) \in Nat \ {0}
      /\ DOMAIN s = 1..Len(s) /\ DOMAIN Tail(s) = 1..Len(Tail(s))
      /\ \A i \in 1..Len(Tail(s)) : Tail(s)[i] = s[i+1]
      /\ Head(s) = s[1]
  OBVIOUS
<1>2. ASSUME NEW i \in DOMAIN s, s[i] \in S, i # 1 PROVE Some(Tail(s), S)
  <2>1. i - 1 \in DOMAIN Tail(s) /\ Tail(s)[i - 1] = s[i]
    BY <1>1, <1>2
  <2> QED
    BY <1>2, <2>1 DEF Some
<1> QED
  BY <1>1, <1>2, SomeTail DEF Some

LEMMA SomeJoin ==
    ASSUME NEW S, NEW s \in Seq(Steps), NEW t \in Seq(Steps)
    PROVE  Some(s \o t, S) <=> Some(s, S) \/ Some(t, S)
<1>1. s \o t \in Seq(Steps) /\ Len(s \o t) = Len(s) + Len(t)
      /\ \A i \in 1..Len(s) + Len(t) : (s \o t)[i] = IF i <= Len(s) THEN s[i] ELSE t[i - Len(s)]
  BY ConcatProperties
<1>2. DOMAIN s = 1..Len(s) /\ DOMAIN t = 1..Len(t) /\ DOMAIN (s \o t) = 1..Len(s) + Len(t)
      /\ Len(s) \in Nat /\ Len(t) \in Nat
  BY <1>1
<1>3. ASSUME NEW i \in DOMAIN s, s[i] \in S PROVE Some(s \o t, S)
  <2>1. i \in DOMAIN (s \o t) /\ (s \o t)[i] = s[i]
    BY <1>1, <1>2
  <2> QED
    BY <1>3, <2>1 DEF Some
<1>4. ASSUME NEW i \in DOMAIN t, t[i] \in S PROVE Some(s \o t, S)
  <2>1. i + Len(s) \in DOMAIN (s \o t) /\ (s \o t)[i + Len(s)] = t[i]
    BY <1>1, <1>2
  <2> QED
    BY <1>4, <2>1 DEF Some
<1> QED
  BY <1>3, <1>4, SomeConcat DEF Some

LEMMA OrderedTail ==
    ASSUME NEW p, NEW s \in Seq(Steps), s # <<>>, Ordered(p, s), NEW Y
    PROVE  /\ Ordered(p, Tail(s))
           /\ (\A y \in Y : Clash(p, Head(s), y)) => ~Some(Tail(s), Y)
<1>1. /\ Len(Tail(s)) = Len(s) - 1 /\ Len(s) \in Nat \ {0}
      /\ DOMAIN s = 1..Len(s) /\ DOMAIN Tail(s) = 1..Len(Tail(s))
      /\ \A i \in 1..Len(Tail(s)) : Tail(s)[i] = s[i+1]
      /\ Head(s) = s[1]
  OBVIOUS
<1>2. ASSUME NEW i \in DOMAIN Tail(s), NEW j \in DOMAIN Tail(s), i < j
      PROVE  ~Clash(p, Tail(s)[i], Tail(s)[j])
  <2>1. i + 1 \in DOMAIN s /\ j + 1 \in DOMAIN s /\ i + 1 < j + 1
        /\ Tail(s)[i] = s[i + 1] /\ Tail(s)[j] = s[j + 1]
    BY <1>1, <1>2
  <2> QED
    BY <2>1 DEF Ordered
<1>3. ASSUME NEW i \in DOMAIN Tail(s), Tail(s)[i] \in Y, \A y \in Y : Clash(p, Head(s), y)
      PROVE  FALSE
  <2>1. i + 1 \in DOMAIN s /\ 1 \in DOMAIN s /\ 1 < i + 1
        /\ Tail(s)[i] = s[i + 1] /\ Head(s) = s[1]
    BY <1>1
  <2> QED
    BY <1>3, <2>1 DEF Ordered
<1> QED
  BY <1>2, <1>3 DEF Ordered, Some

LEMMA OrderedJoin ==
    ASSUME NEW p, NEW s \in Seq(Steps), NEW t \in Seq(Steps), Ordered(p, s), Ordered(p, t),
           \A i \in DOMAIN s, j \in DOMAIN t : ~Clash(p, s[i], t[j])
    PROVE  Ordered(p, s \o t)
<1>1. s \o t \in Seq(Steps) /\ Len(s \o t) = Len(s) + Len(t)
      /\ \A i \in 1..Len(s) + Len(t) : (s \o t)[i] = IF i <= Len(s) THEN s[i] ELSE t[i - Len(s)]
  BY ConcatProperties
<1>2. DOMAIN s = 1..Len(s) /\ DOMAIN t = 1..Len(t) /\ DOMAIN (s \o t) = 1..Len(s) + Len(t)
      /\ Len(s) \in Nat /\ Len(t) \in Nat
  BY <1>1
<1> SUFFICES ASSUME NEW i \in DOMAIN (s \o t), NEW j \in DOMAIN (s \o t), i < j
             PROVE  ~Clash(p, (s \o t)[i], (s \o t)[j])
  BY DEF Ordered
<1>3. CASE j <= Len(s)
  <2>1. i \in DOMAIN s /\ j \in DOMAIN s /\ (s \o t)[i] = s[i] /\ (s \o t)[j] = s[j]
    BY <1>1, <1>2, <1>3
  <2> QED
    BY <2>1 DEF Ordered
<1>4. CASE i <= Len(s) /\ ~(j <= Len(s))
  <2>1. i \in DOMAIN s /\ j - Len(s) \in DOMAIN t
        /\ (s \o t)[i] = s[i] /\ (s \o t)[j] = t[j - Len(s)]
    BY <1>1, <1>2, <1>4
  <2> QED
    BY <2>1
<1>5. CASE ~(i <= Len(s))
  <2>1. i - Len(s) \in DOMAIN t /\ j - Len(s) \in DOMAIN t /\ i - Len(s) < j - Len(s)
        /\ (s \o t)[i] = t[i - Len(s)] /\ (s \o t)[j] = t[j - Len(s)]
    BY <1>1, <1>2, <1>5
  <2> QED
    BY <2>1 DEF Ordered
<1> QED
  BY <1>1, <1>2, <1>3, <1>4, <1>5

LEMMA OwingIs ==
    /\ \A p : \A f \in Fields : \A x :
          x \in Owing(p, f) <=> x = AddsTo[f] \/ x = "relookup" \/ (x = "insert" /\ ~p.zeroed)
    /\ AddsTo["count"] = "count" /\ AddsTo["classed"] = "class" /\ AddsTo["total"] = "total"
<1>1. AddsTo["count"] = "count" /\ AddsTo["classed"] = "class" /\ AddsTo["total"] = "total"
  BY DEF AddsTo
<1>2. ASSUME NEW p, NEW f \in Fields, NEW x
      PROVE  x \in Owing(p, f) <=> x = AddsTo[f] \/ x = "relookup" \/ (x = "insert" /\ ~p.zeroed)
  BY DEF Owing
<1> QED
  BY <1>1, <1>2

(* The parts of a profile are in order, also one after another.            *)
LEMMA BeforeInOrder ==
    ASSUME NEW p \in Programs
    PROVE  /\ Append(p.before, "lookup") \in Seq(Steps)
           /\ InOrder(p, Append(p.before, "lookup"))
           /\ Some(Append(p.before, "lookup"), LookingUp)
           /\ ~Some(Append(p.before, "lookup"), Again)
<1> DEFINE s == Append(p.before, "lookup")
<1>1. p.before \in Seq(Steps) /\ "lookup" \in Steps
      /\ \A i \in DOMAIN p.before : p.before[i] \in {"reserve", "submit"}
  BY Parts DEF Steps
<1>2. /\ s \in Seq(Steps) /\ Len(s) = Len(p.before) + 1 /\ DOMAIN s = 1..Len(s)
      /\ \A i \in DOMAIN s : s[i] \in {"reserve", "submit", "lookup"}
      /\ s[Len(s)] = "lookup" /\ Len(s) \in Nat
      /\ \A i \in DOMAIN s : i < Len(s) => s[i] \in {"reserve", "submit"}
  BY <1>1, AppendProperties
<1> HIDE DEF s
<1>3. ASSUME NEW i \in DOMAIN s, NEW j \in DOMAIN s, i < j PROVE ~Clash(p, s[i], s[j])
  <2>1. s[i] \in {"reserve", "submit"} /\ s[j] \in {"reserve", "submit", "lookup"}
    BY <1>2, <1>3
  <2>2. \A f \in Fields : s[i] \notin Owing(p, f)
    BY <2>1, OwingIs DEF Fields
  <2> QED
    BY <2>1, <2>2 DEF Clash
<1>4. ~Some(s, Adding) /\ ~Some(s, Counting) /\ ~Some(s, Again)
  BY <1>2 DEF Some, Adding, Counting, Again
<1>5. Some(s, LookingUp)
  <2>1. Len(s) \in DOMAIN s
    BY <1>2, <1>1
  <2> QED
    BY <1>2, <2>1 DEF Some, LookingUp
<1> QED
  BY <1>2, <1>3, <1>4, <1>5 DEF InOrder, Ordered, s

LEMMA HitOrdered ==
    ASSUME NEW p \in Programs
    PROVE  Ordered(p, p.hit)
<1> DEFINE h == p.hit
<1>1. WellFormed(p)
  BY ProgramAssumption
<1>2. CASE Has(h, "copy") \/ Has(h, "insert")
  <2>1. h = <<"copy", "insert">>
    BY <1>1, <1>2 DEF WellFormed
  <2>2. \A f \in Fields : "copy" \notin Owing(p, f)
    BY OwingIs DEF Fields
  <2>3. ~Clash(p, "copy", "insert")
    BY <2>2 DEF Clash
  <2> HIDE DEF h
  <2>4. DOMAIN h = {1, 2} /\ h[1] = "copy" /\ h[2] = "insert"
    BY <2>1
  <2> QED
    BY <2>3, <2>4 DEF Ordered, h
<1>3. CASE ~Has(h, "copy") /\ ~Has(h, "insert")
  <2>1. /\ \A s \in {"count", "class", "total"} : NoneAfter(h, s, {s})
        /\ NoneAfter(h, "positive", {"count", "class", "reload"})
        /\ NoneAfter(h, "sample", {"count", "class", "total"})
        /\ NoneAfter(h, "reload", {"count"})
    BY <1>1 DEF WellFormed
  <2>2. \A i \in DOMAIN h : h[i] \in {"count", "class", "positive", "total", "min", "max",
                                      "sample", "reload"}
    BY <1>3, Parts DEF Has
  <2> SUFFICES ASSUME NEW i \in DOMAIN h, NEW j \in DOMAIN h, i < j, Clash(p, h[i], h[j])
               PROVE  FALSE
    BY DEF Ordered
  <2>3. /\ \A s \in {"count", "class", "total"} : h[i] = s => h[j] # s
        /\ h[i] = "positive" => h[j] \notin {"count", "class", "reload"}
        /\ h[i] = "sample" => h[j] \notin {"count", "class", "total"}
        /\ h[i] = "reload" => h[j] # "count"
    BY <2>1 DEF NoneAfter
  <2> DEFINE x == h[i]
             y == h[j]
  <2>4. /\ x \in {"count", "class", "positive", "total", "min", "max", "sample", "reload"}
        /\ y \in {"count", "class", "positive", "total", "min", "max", "sample", "reload"}
        /\ x \in {"count", "class", "total"} => y # x
        /\ x = "positive" => y \notin {"count", "class", "reload"}
        /\ x = "sample" => y \notin {"count", "class", "total"}
        /\ x = "reload" => y # "count"
    BY <2>2, <2>3
  <2>5. Clash(p, x, y)
    OBVIOUS
  <2> HIDE DEF h, x, y
  <2>6. ASSUME NEW f \in Fields, x \in Owing(p, f), y \in Owing(p, f) PROVE FALSE
    <3>1. x = AddsTo[f] /\ y = AddsTo[f] /\ AddsTo[f] \in {"count", "class", "total"}
      BY <2>4, <2>6, OwingIs DEF Fields
    <3> QED
      BY <2>4, <3>1
  <2> QED
    BY <2>4, <2>5, <2>6 DEF Clash
<1> QED
  BY <1>2, <1>3

LEMMA AfterOrdered ==
    ASSUME NEW p \in Programs
    PROVE  Ordered(p, p.after)
<1> DEFINE a == p.after
<1>1. NoneAfter(a, "submit", {"reload"})
  BY ProgramAssumption DEF WellFormed
<1>2. \A i \in DOMAIN a : a[i] \in {"reserve", "reload", "submit"}
  BY Parts
<1> SUFFICES ASSUME NEW i \in DOMAIN a, NEW j \in DOMAIN a, i < j PROVE ~Clash(p, a[i], a[j])
  BY DEF Ordered
<1>3. a[i] = "submit" => a[j] # "reload"
  BY <1>1 DEF NoneAfter
<1> DEFINE x == a[i]
           y == a[j]
<1>4. /\ x \in {"reserve", "reload", "submit"} /\ y \in {"reserve", "reload", "submit"}
      /\ x = "submit" => y # "reload"
  BY <1>2, <1>3
<1> HIDE DEF a, x, y
<1>5. \A f \in Fields : x \notin Owing(p, f)
  BY <1>4, OwingIs DEF Fields
<1>6. ~Clash(p, x, y)
  BY <1>4, <1>5 DEF Clash
<1> QED
  BY <1>6 DEF x, y

LEMMA MissOrdered ==
    ASSUME NEW p \in Programs
    PROVE  /\ Ordered(p, p.miss) /\ Some(p.miss, Inserting)
           /\ p.zeroed => Some(p.miss, Again)
<1> DEFINE m == p.miss
<1>1. m = IF p.zeroed THEN <<"insert", "relookup">> ELSE <<"insert">>
  BY ProgramAssumption DEF WellFormed
<1>2. CASE p.zeroed
  <2>1. m = <<"insert", "relookup">>
    BY <1>1, <1>2
  <2>2. ASSUME Clash(p, "insert", "relookup") PROVE FALSE
    <3>1. \A f \in Fields : "insert" \notin Owing(p, f)
      BY <1>2, OwingIs DEF Fields
    <3> QED
      BY <2>2, <3>1 DEF Clash
  <2> HIDE DEF m
  <2>3. DOMAIN m = {1, 2} /\ m[1] = "insert" /\ m[2] = "relookup"
    BY <2>1
  <2> QED
    BY <2>2, <2>3 DEF Ordered, Some, Inserting, Again, m
<1>3. CASE ~p.zeroed
  <2>1. m = <<"insert">>
    BY <1>1, <1>3
  <2> HIDE DEF m
  <2>2. DOMAIN m = {1} /\ m[1] = "insert"
    BY <2>1
  <2> QED
    BY <1>3, <2>2 DEF Ordered, Some, Inserting, m
<1> QED
  BY <1>2, <1>3

(* The parts that follow a lookup.                                         *)
LEMMA FoundInOrder ==
    ASSUME NEW p \in Programs, NEW s \in {<<>>, p.miss, p.hit}
    PROVE  /\ s \o p.after \in Seq(Steps) /\ InOrder(p, s \o p.after)
           /\ ~Some(s \o p.after, LookingUp)
           /\ Some(s \o p.after, Again) => Some(s \o p.after, Inserting)
           /\ s # p.miss => ~Some(s \o p.after, Again)
           /\ s = p.hit /\ (Has(p.hit, "reload") \/ Has(p.after, "reload")) => Some(s \o p.after, Reloading)
<1> DEFINE a == p.after
           t == s \o a
<1>0. <<>> \in Seq(Steps) /\ \A S : ~Some(<<>>, S)
  BY NoneLeft
<1>01. s = <<>> \/ s = p.miss \/ s = p.hit
  OBVIOUS
<1>02. p.miss \in Seq(Steps) /\ p.hit \in Seq(Steps) /\ p.after \in Seq(Steps)
  BY Parts
<1>03. s \in Seq(Steps)
  <2>1. CASE s = <<>>
    BY <2>1, <1>0
  <2>2. CASE s = p.miss
    BY <2>2, <1>02
  <2>3. CASE s = p.hit
    BY <2>3, <1>02
  <2> QED
    BY <2>1, <2>2, <2>3, <1>01
<1>1. s \in Seq(Steps) /\ a \in Seq(Steps)
  BY <1>02, <1>03
<1>2. t \in Seq(Steps)
  BY <1>1, SomeJoin
<1>3. /\ \A i \in DOMAIN s : s[i] \in {"insert", "relookup", "copy", "count", "class", "positive",
                                       "total", "min", "max", "sample", "reload"}
      /\ \A i \in DOMAIN a : a[i] \in {"reserve", "reload", "submit"}
  BY Parts
<1>4. Ordered(p, s) /\ Ordered(p, a)
  <2>1. Ordered(p, <<>>)
    BY DEF Ordered
  <2> QED
    BY <2>1, HitOrdered, MissOrdered, AfterOrdered
<1>5. ASSUME NEW i \in DOMAIN s, NEW j \in DOMAIN a PROVE ~Clash(p, s[i], a[j])
  <2>1. a[j] = "reload" => Has(p.after, "reload")
    BY DEF Has
  <2> DEFINE x == s[i]
             y == a[j]
  <2>2. /\ x \in {"insert", "relookup", "copy", "count", "class", "positive",
                   "total", "min", "max", "sample", "reload"}
        /\ y \in {"reserve", "reload", "submit"}
        /\ y = "reload" => Has(p.after, "reload")
    BY <1>3, <2>1
  <2> HIDE DEF x, y
  <2>3. \A f \in Fields : y \notin Owing(p, f)
    BY <2>2, OwingIs DEF Fields
  <2>4. ~Clash(p, x, y)
    BY <2>2, <2>3 DEF Clash
  <2> QED
    BY <2>4 DEF x, y
<1>6. Ordered(p, t)
  BY <1>1, <1>4, <1>5, OrderedJoin
<1>7. ~Some(t, LookingUp)
  <2>1. ~Some(s, LookingUp) /\ ~Some(a, LookingUp)
    BY <1>3 DEF Some, LookingUp
  <2> QED
    BY <1>1, <2>1, SomeJoin
<1>8. ~Some(a, Again) /\ ~Some(a, Adding) /\ ~Some(a, Counting)
  BY <1>3 DEF Some, Again, Adding, Counting
<1>9. s # p.miss => ~Some(t, Again)
  <2>1. ~Some(p.hit, Again)
    BY Parts DEF Some, Again
  <2> QED
    BY <1>0, <1>01, <1>1, <1>8, <2>1, SomeJoin
<1>10. Some(t, Again) => Some(t, Inserting)
  <2>1. CASE s = p.miss
    BY <1>1, <2>1, MissOrdered, SomeJoin
  <2> QED
    BY <1>9, <2>1
<1>11. Some(t, Adding) => ~Has(p.hit, "copy")
  <2> SUFFICES ASSUME Some(s, Adding), Has(p.hit, "copy") PROVE FALSE
    BY <1>1, <1>8, SomeJoin
  <2>1. p.hit = <<"copy", "insert">>
    BY ProgramAssumption DEF WellFormed
  <2>2. \A i \in DOMAIN p.hit : p.hit[i] \in {"copy", "insert"}
    <3> DEFINE h == p.hit
    <3>1. h = <<"copy", "insert">>
      BY <2>1
    <3> HIDE DEF h
    <3>2. DOMAIN h = {1, 2} /\ h[1] = "copy" /\ h[2] = "insert"
      BY <3>1
    <3> QED
      BY <3>2 DEF h
  <2>3. ~Some(p.hit, Adding) /\ ~Some(p.miss, Adding)
    BY <2>2, Parts DEF Some, Adding
  <2> QED
    BY <1>0, <1>01, <2>3
<1>12. s = p.hit /\ (Has(p.hit, "reload") \/ Has(p.after, "reload")) => Some(t, Reloading)
  <2> SUFFICES ASSUME s = p.hit, Has(p.hit, "reload") \/ Has(p.after, "reload")
               PROVE  Some(s, Reloading) \/ Some(a, Reloading)
    BY <1>1, SomeJoin
  <2> QED
    BY DEF Has, Some, Reloading
<1>13. Some(t, Counting) => s = p.hit
  <2>1. ~Some(p.miss, Counting)
    BY Parts DEF Some, Counting
  <2> QED
    BY <1>0, <1>01, <1>1, <1>8, <2>1, SomeJoin
<1> QED
  BY <1>2, <1>6, <1>7, <1>9, <1>10, <1>11, <1>12, <1>13 DEF InOrder

(* What a profile changes a lookup leaves owing.                           *)
LEMMA FoundOwing ==
    ASSUME NEW p \in Programs, NEW s \in {p.miss, p.hit},
           NEW f \in Fields, Kept(p, f)
    PROVE  Some(s \o p.after, Owing(p, f))
<1>1. s \in Seq(Steps) /\ p.after \in Seq(Steps)
  BY Parts
<1>2. WellFormed(p)
  BY ProgramAssumption
<1> SUFFICES Some(s, Owing(p, f))
  BY <1>1, SomeJoin
<1>3. CASE s = p.miss
  <2>1. "insert" \in Owing(p, f) \/ (p.zeroed /\ "relookup" \in Owing(p, f))
    BY OwingIs
  <2> QED
    BY <1>3, <2>1, MissOrdered DEF Some, Inserting, Again
<1>4. CASE s = p.hit
  <2>1. CASE Has(p.hit, "copy")
    <3>1. p.hit = <<"copy", "insert">> /\ ~p.zeroed
      BY <1>2, <2>1 DEF WellFormed
    <3>2. 2 \in DOMAIN <<"copy", "insert">> /\ <<"copy", "insert">>[2] = "insert"
      OBVIOUS
    <3>3. "insert" \in Owing(p, f)
      BY <3>1, OwingIs
    <3> QED
      BY <1>4, <3>1, <3>2, <3>3 DEF Some
  <2>2. CASE ~Has(p.hit, "copy")
    <3>1. Has(p.hit, AddsTo[f])
      <4>1. Has(p.hit, "count")
        BY <1>2, <2>2 DEF WellFormed
      <4> QED
        BY <2>2, <4>1, OwingIs DEF Kept, Fields
    <3>2. AddsTo[f] \in Owing(p, f)
      BY OwingIs
    <3> QED
      BY <1>4, <3>1, <3>2 DEF Has, Some
  <2> QED
    BY <2>1, <2>2
<1> QED
  BY <1>3, <1>4

(* What a call, its locals being r, has still to add to the field f of k.  *)
Left(p, f, s) == Some(s, Owing(p, f)) /\ ~Some(s, LookingUp)
Share(f, r)   == IF f = "total" THEN r.amount ELSE 1
Owes(p, f, r, k) == IF r.key = k /\ Left(p, f, r.todo) THEN Share(f, r) ELSE 0

OwedBy(p, f, rs, k) == SumFunctionOnSet([c \in CPUs |-> Owes(p, f, rs[c], k)], CPUs)

Owed(f, k) == OwedBy(program, f, run, k)
Due(f, k)  == IF f = "total" THEN spent[k] ELSE calls[k]

Balanced(f, k) == Cell(k)[f] + Owed(f, k) = Due(f, k)

Accounted == \A f \in Fields, k \in Keys \ lossy : Kept(program, f) => Balanced(f, k)

(* Where the pointer and the copy come from, and that an insertion leaves  *)
(* the key there for the second lookup.                                    *)
Located(c) ==
    /\ run[c].ptr # NoElem \/ run[c].base # Zero
          => run[c].key \in Keys /\ entry[run[c].key] # NoElem
    /\ Some(run[c].todo, Again) /\ ~Some(run[c].todo, Inserting)
          => run[c].key \in Keys /\ (entry[run[c].key] # NoElem \/ run[c].key \in lossy)

TotalInv == Accounted /\ \A c \in CPUs : InOrder(program, run[c].todo) /\ Located(c)

LEMMA RunAmount == \A r \in Run : r.amount \in Nat
<1> SUFFICES ASSUME NEW r \in Run PROVE r.amount \in Nat
  OBVIOUS
<1>1. r.amount \in Amounts \cup {0}
  BY DEF Run
<1>2. Amounts \cup {0} \subseteq Nat
  OBVIOUS
<1> QED
  BY <1>1, <1>2

LEMMA FieldNat == \A s \in Stats, f \in Fields : s[f] \in Nat
BY DEF Stats, Fields

(* What is under a key, or would be inserted there.                        *)
LEMMA CellStats ==
    ASSUME TypeOK, NEW k \in Keys
    PROVE  Cell(k) \in Stats
<1>1. Zero \in Stats
  BY DEF Zero, Stats
<1>2. value \in [Elems -> Stats] /\ entry[k] \in Elems \cup {NoElem}
  BY DEF TypeOK, HashTypeOK
<1> QED
  BY <1>1, <1>2 DEF Cell

LEMMA OwesNat ==
    ASSUME NEW p, NEW f, NEW r \in Run, NEW k
    PROVE  Owes(p, f, r, k) \in Nat
<1>1. Share(f, r) \in Nat
  BY RunAmount DEF Share
<1> QED
  BY <1>1 DEF Owes

(* What is owed in all is not less than what one call owes, and changes    *)
(* as that does.                                                           *)
LEMMA OwedIs ==
    ASSUME TypeOK, NEW f, NEW k
    PROVE  /\ Owed(f, k) \in Nat
           /\ (\A c \in CPUs : Owes(program, f, run[c], k) = 0) => Owed(f, k) = 0
<1> DEFINE F == [c \in CPUs |-> Owes(program, f, run[c], k)]
           Z == [c \in CPUs |-> 0]
<1>1. \A c \in CPUs : Owes(program, f, run[c], k) \in Nat
  BY OwesNat DEF TypeOK
<1>2. F \in [CPUs -> Int] /\ Z \in [CPUs -> Int] /\ \A c \in CPUs : Z[c] <= F[c] /\ Z[c] = 0
  BY <1>1
<1>3. Owed(f, k) = SumFunctionOnSet(F, CPUs)
  BY DEF Owed, OwedBy
<1>4. (\A c \in CPUs : Owes(program, f, run[c], k) = 0) => \A c \in CPUs : F[c] = 0
  OBVIOUS
<1> HIDE DEF F, Z
<1>5. SumFunctionOnSet(Z, CPUs) = 0
  BY <1>2, SumZero
<1>6. SumFunctionOnSet(F, CPUs) \in Int
  BY <1>2, SumType
<1>7. SumFunctionOnSet(Z, CPUs) <= SumFunctionOnSet(F, CPUs)
  BY <1>2, SumMonotone
<1>8. (\A c \in CPUs : F[c] = 0) => SumFunctionOnSet(F, CPUs) = 0
  BY <1>2, SumZero
<1> QED
  BY <1>3, <1>4, <1>5, <1>6, <1>7, <1>8

LEMMA OwedChange ==
    ASSUME NEW r \in [CPUs -> Run], NEW q \in [CPUs -> Run], NEW c \in CPUs,
           \A b \in CPUs \ {c} : q[b] = r[b], NEW p, NEW f, NEW k
    PROVE  OwedBy(p, f, q, k) = OwedBy(p, f, r, k) + Owes(p, f, q[c], k) - Owes(p, f, r[c], k)
<1> DEFINE F == [b \in CPUs |-> Owes(p, f, r[b], k)]
           G == [b \in CPUs |-> Owes(p, f, q[b], k)]
<1>1. \A b \in CPUs : Owes(p, f, r[b], k) \in Nat /\ Owes(p, f, q[b], k) \in Nat
  BY OwesNat
<1>2. F \in [CPUs -> Int] /\ G \in [CPUs -> Int] /\ \A b \in CPUs : b # c => G[b] = F[b]
  BY <1>1
<1>3. G[c] = Owes(p, f, q[c], k) /\ F[c] = Owes(p, f, r[c], k)
  OBVIOUS
<1> HIDE DEF F, G
<1>4. SumFunctionOnSet(G, CPUs) = SumFunctionOnSet(F, CPUs) + G[c] - F[c]
  BY <1>2, SumUpdate
<1> QED
  BY <1>3, <1>4 DEF F, G, OwedBy

(* Where what is there and what c owes change as what is due does, the     *)
(* balance stays.                                                          *)
LEMMA Settles ==
    ASSUME TypeOK, TypeOK', NEW c \in CPUs, \A b \in CPUs \ {c} : run'[b] = run[b],
           program' = program, NEW f \in Fields, NEW k \in Keys, Balanced(f, k),
           Cell(k)'[f] + Owes(program, f, run'[c], k) + Due(f, k)
              = Cell(k)[f] + Owes(program, f, run[c], k) + Due(f, k)'
    PROVE  Balanced(f, k)'
<1> DEFINE o == Owed(f, k)
           x == Owes(program, f, run'[c], k)
           y == Owes(program, f, run[c], k)
           u == Cell(k)[f]
           v == Cell(k)'[f]
           d == Due(f, k)
           e == Due(f, k)'
           n == Owed(f, k)'
<1>1. run \in [CPUs -> Run] /\ run' \in [CPUs -> Run]
  BY DEF TypeOK
<1>2. o \in Nat /\ x \in Nat /\ y \in Nat
  BY <1>1, OwedIs, OwesNat
<1>3. n = o + x - y
  <2>1. n = OwedBy(program, f, run', k) /\ o = OwedBy(program, f, run, k)
    BY DEF Owed
  <2>2. OwedBy(program, f, run', k) = OwedBy(program, f, run, k) + x - y
    BY <1>1, OwedChange
  <2> HIDE DEF o, x, y, n
  <2> QED
    BY <2>1, <2>2
<1>4. Cell(k) \in Stats /\ Cell(k)' \in Stats
  <2>1. Zero \in Stats
    BY DEF Zero, Stats
  <2>2. HashTypeOK(Stats) /\ HashTypeOK(Stats)'
    BY DEF TypeOK
  <2>3. Cell(k) \in Stats
    BY <2>1, <2>2 DEF Cell, HashTypeOK
  <2>4. Cell(k)' \in Stats
    BY <2>1, <2>2 DEF Cell, HashTypeOK
  <2> QED
    BY <2>3, <2>4
<1>5. u \in Nat /\ v \in Nat
  BY <1>4, FieldNat
<1>6. d \in Nat /\ e \in Nat
  BY DEF Due, TypeOK
<1>7. v + x + d = u + y + e /\ u + o = d
  BY DEF Balanced
<1>8. v + n = e => Balanced(f, k)'
  BY DEF Balanced
<1> HIDE DEF o, x, y, u, v, d, e, n
<1> QED
  BY <1>2, <1>3, <1>5, <1>6, <1>7, <1>8

(* A step of which f is not a matter, one that settles it, and one that    *)
(* lets c go before anything is owed.                                      *)
LEMMA LeftTail ==
    ASSUME NEW p, NEW s \in Seq(Steps), s # <<>>, Ordered(p, s), NEW f \in Fields
    PROVE  /\ Head(s) \notin Owing(p, f) /\ Head(s) # "lookup" =>
                 (Left(p, f, Tail(s)) <=> Left(p, f, s))
           /\ Head(s) \in Owing(p, f) => Left(p, f, s) /\ ~Left(p, f, Tail(s))
           /\ Head(s) \in {"reserve", "sample"} =>
                 ~Left(p, f, s) /\ ~Left(p, f, Tail(s))
           /\ Head(s) = "positive" /\ f # "total" => ~Left(p, f, s)
<1> DEFINE x == Head(s)
<1>1. /\ Some(s, Owing(p, f)) <=> x \in Owing(p, f) \/ Some(Tail(s), Owing(p, f))
      /\ Some(s, LookingUp) <=> x \in LookingUp \/ Some(Tail(s), LookingUp)
  BY SomeParts
<1>2. x \in LookingUp <=> x = "lookup"
  BY DEF LookingUp
<1>3. x \in Owing(p, f) => x \notin {"lookup", "reserve", "submit"}
  BY OwingIs DEF Fields
<1>4. x \in Owing(p, f) => ~Some(Tail(s), Owing(p, f))
  <2>1. x \in Owing(p, f) => \A y \in Owing(p, f) : Clash(p, x, y)
    BY DEF Clash
  <2> QED
    BY <2>1, OrderedTail
<1>5. x \notin {"reserve", "submit"} => ~Some(Tail(s), LookingUp)
  <2>1. x \notin {"reserve", "submit"} => \A y \in LookingUp : Clash(p, x, y)
    BY DEF Clash, LookingUp
  <2> QED
    BY <2>1, OrderedTail
<1>6. x \in {"reserve", "sample"} => x \notin Owing(p, f) /\ ~Some(Tail(s), Owing(p, f))
  <2>1. x \in {"reserve", "sample"} => \A y \in Owing(p, f) : Clash(p, x, y)
    BY OwingIs DEF Clash, Fields
  <2>2. x \in {"reserve", "sample"} => x \notin Owing(p, f)
    BY OwingIs DEF Fields
  <2> QED
    BY <2>1, <2>2, OrderedTail
<1>7. x = "positive" /\ f # "total" => x \notin Owing(p, f) /\ ~Some(Tail(s), Owing(p, f))
  <2>1. x = "positive" /\ f # "total" => \A y \in Owing(p, f) : Clash(p, x, y)
    BY OwingIs DEF Clash, Fields
  <2>2. x = "positive" => x \notin Owing(p, f)
    BY OwingIs DEF Fields
  <2> QED
    BY <2>1, <2>2, OrderedTail
<1> HIDE DEF x
<1>8. x = Head(s)
  BY DEF x
<1>9. x \in Owing(p, f) => Left(p, f, s) /\ ~Left(p, f, Tail(s))
  BY <1>1, <1>2, <1>3, <1>4, <1>5 DEF Left
<1>10. x \in {"reserve", "sample"} => ~Left(p, f, s) /\ ~Left(p, f, Tail(s))
  BY <1>1, <1>6 DEF Left
<1>11. x = "positive" /\ f # "total" => ~Left(p, f, s)
  BY <1>1, <1>7 DEF Left
<1>12. x \notin Owing(p, f) /\ x # "lookup" => (Left(p, f, Tail(s)) <=> Left(p, f, s))
  BY <1>1, <1>2 DEF Left
<1> QED
  BY <1>8, <1>9, <1>10, <1>11, <1>12, Zenon

(* What is left of steps in order is in order.                             *)
LEMMA InOrderTail ==
    ASSUME NEW p, NEW s \in Seq(Steps), s # <<>>, InOrder(p, s)
    PROVE  InOrder(p, Tail(s))
<1>1. Ordered(p, s)
  BY DEF InOrder
<1>2. Ordered(p, Tail(s))
  BY <1>1, OrderedTail
<1>3. Some(Tail(s), Adding) => Some(s, Adding)
  BY SomeParts
<1>4. Some(Tail(s), Counting) => Some(s, Counting)
  BY SomeParts
<1>5. Some(s, Reloading) => Some(Tail(s), Reloading) \/ Head(s) = "reload"
  BY SomeParts DEF Reloading
<1>6. Head(s) = "reload" => ~Some(Tail(s), Counting)
  <2>1. Head(s) = "reload" => \A y \in Counting : Clash(p, Head(s), y)
    BY DEF Clash, Counting
  <2> QED
    BY <1>1, <2>1, OrderedTail
<1> QED
  BY <1>2, <1>3, <1>4, <1>5, <1>6 DEF InOrder

(* The invariant after a step of c: what it left alone, what balances,     *)
(* and what c has still to do.                                             *)
LEMMA TotalKeeps ==
    ASSUME TypeOK, TypeOK', TotalInv, NEW c \in CPUs, \A b \in CPUs \ {c} : run'[b] = run[b],
           program' = program, lossy \subseteq lossy',
           \A k \in Keys : entry[k] # NoElem => entry'[k] # NoElem,
           \A f \in Fields, k \in Keys \ lossy' : Kept(program, f) =>
              Cell(k)'[f] + Owes(program, f, run'[c], k) + Due(f, k)
                 = Cell(k)[f] + Owes(program, f, run[c], k) + Due(f, k)',
           InOrder(program, run'[c].todo), Located(c)'
    PROVE  TotalInv'
<1>1. Accounted'
  <2> SUFFICES ASSUME NEW f \in Fields, NEW k \in Keys \ lossy', Kept(program, f)
               PROVE  Balanced(f, k)'
    BY DEF Accounted
  <2>1. Balanced(f, k)
    BY DEF TotalInv, Accounted
  <2> QED
    BY <2>1, Settles
<1>2. ASSUME NEW b \in CPUs PROVE InOrder(program, run'[b].todo) /\ Located(b)'
  <2>1. CASE b = c
    BY <2>1
  <2>2. CASE b # c
    <3>1. run'[b] = run[b] /\ InOrder(program, run[b].todo) /\ Located(b)
      BY <2>2 DEF TotalInv
    <3>2. Located(b)'
      BY <3>1 DEF Located
    <3> QED
      BY <3>1, <3>2
  <2> QED
    BY <2>1, <2>2
<1> QED
  BY <1>1, <1>2 DEF TotalInv

LEMMA LocatedKeeps ==
    ASSUME TypeOK, NEW c \in CPUs, Located(c), run[c].key \in Keys,
           NEW todo \in Seq(Steps), NEW r \in Run, GoOn(c, todo, r), r.key = run[c].key,
           r.ptr # NoElem => r.ptr = run[c].ptr \/ entry[run[c].key] # NoElem,
           r.base # Zero => r.base = run[c].base \/ entry[run[c].key] # NoElem,
           \A k \in Keys : entry[k] # NoElem => entry'[k] # NoElem, lossy \subseteq lossy',
           Some(todo, Again) /\ ~Some(todo, Inserting)
              => \/ Some(run[c].todo, Again) /\ ~Some(run[c].todo, Inserting)
                 \/ entry'[run[c].key] # NoElem \/ run[c].key \in lossy'
    PROVE  Located(c)'
<1>1. run \in [CPUs -> Run]
  BY DEF TypeOK
<1>2. /\ run'[c].todo = todo
      /\ todo = <<>> => run'[c] = Idle
      /\ todo # <<>> => run'[c].key = r.key /\ run'[c].ptr = r.ptr /\ run'[c].base = r.base
  BY <1>1, GoOnRun
<1>3. Idle.ptr = NoElem /\ Idle.base = Zero /\ ~Some(<<>>, Again)
  BY NoneLeft DEF Idle
<1>4. CASE todo = <<>>
  BY <1>2, <1>3, <1>4 DEF Located
<1>5. CASE todo # <<>>
  <2>1. run'[c].ptr # NoElem \/ run'[c].base # Zero => entry'[run[c].key] # NoElem
    BY <1>2, <1>5 DEF Located
  <2>2. Some(todo, Again) /\ ~Some(todo, Inserting)
           => entry'[run[c].key] # NoElem \/ run[c].key \in lossy'
    BY DEF Located
  <2> QED
    BY <1>2, <1>5, <2>1, <2>2 DEF Located
<1> QED
  BY <1>4, <1>5

(* c owes the same when the same is left, or when it comes to nothing.     *)
LEMMA OwesSame ==
    ASSUME NEW p, NEW f, NEW k, NEW q, NEW r,
           q.todo # <<>> => q.key = r.key /\ q.amount = r.amount,
           \/ Left(p, f, q.todo) <=> Left(p, f, r.todo)
           \/ f = "total" /\ r.amount = 0
           \/ k # r.key
    PROVE  Owes(p, f, q, k) = Owes(p, f, r, k)
<1>1. Left(p, f, q.todo) => q.todo # <<>>
  BY NoneLeft, Zenon DEF Left
<1>2. CASE Left(p, f, q.todo) <=> Left(p, f, r.todo)
  BY <1>1, <1>2 DEF Owes, Share
<1>3. CASE f = "total" /\ r.amount = 0
  BY <1>1, <1>3 DEF Owes, Share
<1>4. CASE k # r.key
  BY <1>1, <1>4 DEF Owes
<1> QED
  BY <1>2, <1>3, <1>4

(* A step that changes no field that is counted on.                        *)
LEMMA QuietKeeps ==
    ASSUME TypeOK, TypeOK', TotalInv, NEW c \in CPUs, run[c].todo # <<>>,
           NEW todo \in Seq(Steps), NEW r \in Run, GoOn(c, todo, r),
           r.key = run[c].key, r.amount = run[c].amount,
           UNCHANGED <<program, entry, hist>>,
           \A e \in Elems, f \in Fields : value'[e][f] = value[e][f],
           \A f \in Fields : Kept(program, f) =>
              \/ Left(program, f, todo) <=> Left(program, f, run[c].todo)
              \/ f = "total" /\ run[c].amount = 0
              \/ run[c].key \in lossy,
           InOrder(program, todo), Located(c)'
    PROVE  TotalInv'
<1>1. run \in [CPUs -> Run] /\ entry \in [Keys -> Elems \cup {NoElem}]
  BY DEF TypeOK, HashTypeOK
<1>2. /\ \A b \in CPUs \ {c} : run'[b] = run[b]
      /\ run'[c].todo = todo
      /\ todo # <<>> => run'[c].key = run[c].key /\ run'[c].amount = run[c].amount
  BY <1>1, GoOnRun
<1>3. ASSUME NEW f \in Fields, NEW k \in Keys \ lossy, Kept(program, f)
      PROVE  Cell(k)'[f] = Cell(k)[f] /\ Due(f, k)' = Due(f, k)
             /\ Owes(program, f, run'[c], k) = Owes(program, f, run[c], k)
  <2>1. Cell(k)'[f] = Cell(k)[f]
    BY <1>1 DEF Cell
  <2>2. Due(f, k)' = Due(f, k)
    BY DEF Due, hist
  <2>3. \/ Left(program, f, todo) <=> Left(program, f, run[c].todo)
        \/ f = "total" /\ run[c].amount = 0
        \/ k # run[c].key
    BY <1>3
  <2>4. Owes(program, f, run'[c], k) = Owes(program, f, run[c], k)
    BY <1>2, <2>3, OwesSame
  <2> QED
    BY <2>1, <2>2, <2>4
<1>4. program' = program /\ lossy' = lossy /\ entry' = entry
  BY DEF hist
<1>5. \A f \in Fields, k \in Keys \ lossy' : Kept(program, f) =>
         Cell(k)'[f] + Owes(program, f, run'[c], k) + Due(f, k)
            = Cell(k)[f] + Owes(program, f, run[c], k) + Due(f, k)'
  BY <1>3, <1>4
<1>6. lossy \subseteq lossy' /\ \A k \in Keys : entry[k] # NoElem => entry'[k] # NoElem
  BY <1>4
<1>7. InOrder(program, run'[c].todo)
  BY <1>2
<1> QED
  BY <1>2, <1>4, <1>5, <1>6, <1>7, TotalKeeps

Moves == {"lookup", "insert", "relookup", "count", "class", "total"}

LEMMA QuietTail ==
    ASSUME TypeOK, TypeOK', TotalInv, NEW c \in CPUs, run[c].todo # <<>>,
           Head(run[c].todo) \notin Moves, NEW r \in Run, GoOn(c, Tail(run[c].todo), r),
           r.key = run[c].key, r.amount = run[c].amount, r.ptr = run[c].ptr,
           r.base = run[c].base \/ run[c].ptr \in Elems,
           UNCHANGED <<program, entry, hist>>,
           \A e \in Elems, f \in Fields : value'[e][f] = value[e][f]
    PROVE  TotalInv'
<1> DEFINE s == run[c].todo
           t == Tail(s)
<1>1. s \in Seq(Steps) /\ t \in Seq(Steps) /\ run[c].key \in Keys
  BY TailKeeps
<1>2. InOrder(program, s) /\ Located(c)
  BY DEF TotalInv
<1>3. InOrder(program, t) /\ Ordered(program, s)
  BY <1>1, <1>2, InOrderTail DEF InOrder
<1>4. ASSUME NEW f \in Fields PROVE Left(program, f, t) <=> Left(program, f, s)
  <2>1. Head(s) \notin Owing(program, f) /\ Head(s) # "lookup"
    BY OwingIs DEF Moves, Fields
  <2> QED
    BY <1>1, <1>3, <2>1, LeftTail
<1>5. /\ Some(t, Again) => Some(s, Again)
      /\ Some(s, Inserting) => Some(t, Inserting)
  <2>1. Head(s) \notin Inserting
    BY DEF Moves, Inserting
  <2>2. Some(s, Again) <=> Head(s) \in Again \/ Some(t, Again)
    BY <1>1, SomeParts
  <2>3. Some(s, Inserting) <=> Head(s) \in Inserting \/ Some(t, Inserting)
    BY <1>1, SomeParts
  <2> QED
    BY <2>1, <2>2, <2>3
<1>6. entry' = entry /\ lossy' = lossy
  BY DEF hist
<1>7. run[c].ptr \in Elems => entry[run[c].key] # NoElem
  BY <1>2 DEF Located, Elems
<1> DEFINE todo == t
<1>8. todo \in Seq(Steps) /\ GoOn(c, todo, r) /\ InOrder(program, todo)
      /\ (Some(todo, Again) /\ ~Some(todo, Inserting)
             => Some(run[c].todo, Again) /\ ~Some(run[c].todo, Inserting))
      /\ \A f \in Fields : Left(program, f, todo) <=> Left(program, f, run[c].todo)
  BY <1>1, <1>3, <1>4, <1>5
<1> HIDE DEF s, t, todo
<1>9. Located(c)'
  BY <1>1, <1>2, <1>6, <1>7, <1>8, LocatedKeeps
<1> QED
  BY <1>8, <1>9, QuietKeeps

(* The return of a program that has not found room, or is not sampled.     *)
LEMMA QuietReturn ==
    ASSUME TypeOK, TypeOK', TotalInv, NEW c \in CPUs, run[c].todo # <<>>,
           Head(run[c].todo) \in {"reserve", "sample"}, GoOn(c, <<>>, Idle),
           UNCHANGED <<program, hashVars, hist>>
    PROVE  TotalInv'
<1> DEFINE s == run[c].todo
           todo == <<>>
<1>1. s \in Seq(Steps) /\ run[c] \in Run /\ run[c].key \in Keys /\ todo \in Seq(Steps)
  BY TailKeeps
<1>2. InOrder(program, s) /\ Located(c) /\ Ordered(program, s)
  BY DEF TotalInv, InOrder
<1>3. \A S : ~Some(todo, S)
  BY NoneLeft
<1>4. InOrder(program, todo)
  BY <1>3 DEF InOrder, Ordered
<1>5. \A f \in Fields : Left(program, f, todo) <=> Left(program, f, s)
  <2>1. \A f \in Fields : ~Left(program, f, s)
    BY <1>1, <1>2, LeftTail
  <2> QED
    BY <1>3, <2>1 DEF Left
<1>6. GoOn(c, todo, run[c])
  BY DEF GoOn
<1>7. entry' = entry /\ lossy' = lossy /\ value' = value
  BY DEF hist, hashVars
<1> HIDE DEF todo
<1>8. Located(c)'
  BY <1>1, <1>2, <1>3, <1>6, <1>7, LocatedKeeps
<1> QED
  BY <1>1, <1>4, <1>5, <1>6, <1>7, <1>8, QuietKeeps

LEMMA PositiveBalances ==
    ASSUME TypeOK, TypeOK', TotalInv, NEW c \in CPUs, Positive(c)
    PROVE  TotalInv'
<1> DEFINE s == run[c].todo
<1>1. s # <<>> /\ Head(s) = "positive" /\ UNCHANGED <<program, hashVars, hist>>
  BY DEF Positive, At
<1>2. s \in Seq(Steps) /\ run[c] \in Run /\ run[c].key \in Keys
  BY <1>1, TailKeeps
<1>3. InOrder(program, s) /\ Located(c) /\ Ordered(program, s)
  BY DEF TotalInv, InOrder
<1>4. UNCHANGED <<program, entry, hist>> /\ value' = value /\ lossy' = lossy
  BY <1>1 DEF hashVars, hist
<1>5. CASE run[c].amount # 0
  <2>1. GoOn(c, Tail(run[c].todo), run[c])
    BY <1>5 DEF Positive
  <2>2. Head(run[c].todo) \notin Moves
    BY <1>1 DEF Moves
  <2> QED
    BY <1>1, <1>2, <1>4, <2>1, <2>2, QuietTail
<1>6. CASE run[c].amount = 0
  <2> DEFINE todo == program.after
  <2>1. GoOn(c, todo, run[c])
    BY <1>6 DEF Positive
  <2>2. program \in Programs /\ todo \in Seq(Steps) /\ Ordered(program, todo)
    BY Profile, AfterOrdered DEF TypeOK
  <2>3. \A i \in DOMAIN todo : todo[i] \in {"reserve", "reload", "submit"}
    BY <2>2, Profile
  <2>4. ~Some(todo, Again) /\ ~Some(todo, Adding) /\ ~Some(todo, Counting)
    BY <2>3 DEF Some, Again, Adding, Counting
  <2>5. InOrder(program, todo)
    BY <2>2, <2>4 DEF InOrder
  <2>6. ASSUME NEW f \in Fields
        PROVE  (Left(program, f, todo) <=> Left(program, f, s)) \/ f = "total"
    <3>1. ~Some(todo, Owing(program, f))
      BY <2>3, OwingIs DEF Some, Fields
    <3>2. f # "total" => ~Left(program, f, s)
      BY <1>1, <1>2, <1>3, LeftTail
    <3> QED
      BY <3>1, <3>2 DEF Left
  <2> HIDE DEF todo
  <2>7. Located(c)'
    BY <1>1, <1>2, <1>3, <1>4, <2>1, <2>2, <2>4, LocatedKeeps
  <2> QED
    BY <1>1, <1>2, <1>4, <1>6, <2>1, <2>2, <2>5, <2>6, <2>7, QuietKeeps
<1> QED
  BY <1>5, <1>6

LEMMA OneInOrder ==
    ASSUME NEW x \in Steps
    PROVE  /\ <<x>> \in Seq(Steps) /\ DOMAIN <<x>> = {1} /\ <<x>>[1] = x
           /\ \A p : Ordered(p, <<x>>)
<1>1. <<x>> \in Seq(Steps) /\ DOMAIN <<x>> = {1} /\ <<x>>[1] = x
  OBVIOUS
<1>2. \A i, j \in {1} : ~(i < j)
  OBVIOUS
<1> QED
  BY <1>1, <1>2, Zenon DEF Ordered

LEMMA TestBalances ==
    ASSUME TypeOK, TypeOK', TotalInv, NEW c \in CPUs, TestMin(c) \/ TestMax(c)
    PROVE  TotalInv'
<1> DEFINE s == run[c].todo
<1>1. s # <<>> /\ Head(s) \in {"min", "max"} /\ UNCHANGED <<program, hashVars, hist>>
  BY DEF TestMin, TestMax, At
<1>2. s \in Seq(Steps) /\ Tail(s) \in Seq(Steps) /\ run[c] \in Run /\ run[c].key \in Keys
  BY <1>1, TailKeeps
<1>3. InOrder(program, s) /\ Located(c) /\ Ordered(program, s)
  BY DEF TotalInv, InOrder
<1>4. UNCHANGED <<program, entry, hist>> /\ value' = value /\ lossy' = lossy
  BY <1>1 DEF hashVars, hist
<1>5. PICK x \in {"store min", "store max"} :
         GoOn(c, Tail(s), run[c]) \/ GoOn(c, <<x>> \o Tail(s), run[c])
  BY DEF TestMin, TestMax, GoOn
<1>6. CASE GoOn(c, Tail(s), run[c])
  <2>1. Head(run[c].todo) \notin Moves
    BY <1>1 DEF Moves
  <2> QED
    BY <1>1, <1>2, <1>4, <1>6, <2>1, QuietTail
<1>7. CASE GoOn(c, <<x>> \o Tail(s), run[c])
  <2> DEFINE t == Tail(s)
             u == <<x>>
             todo == u \o t
  <2>1. u \in Seq(Steps) /\ DOMAIN u = {1} /\ u[1] = x /\ Ordered(program, u)
    <3>1. x \in Steps
      BY DEF Steps
    <3> QED
      BY <3>1, OneInOrder
  <2>2. GoOn(c, todo, run[c]) /\ t \in Seq(Steps) /\ InOrder(program, t)
    BY <1>1, <1>2, <1>3, <1>7, InOrderTail
  <2>3. ~Some(t, LookingUp)
    <3>1. \A y \in LookingUp : Clash(program, Head(s), y)
      BY <1>1 DEF Clash, LookingUp
    <3> QED
      BY <1>1, <1>2, <1>3, <3>1, OrderedTail
  <2> HIDE DEF u
  <2>4. ASSUME NEW S, x \notin S
        PROVE  /\ Some(u \o t, S) <=> Some(t, S)
               /\ Some(s, S) <=> Head(s) \in S \/ Some(t, S)
    <3>1. ~Some(u, S)
      BY <2>1, <2>4 DEF Some
    <3>2. Some(s, S) <=> Head(s) \in S \/ Some(t, S)
      BY <1>1, <1>2, SomeParts
    <3> HIDE DEF s, t
    <3> QED
      BY <2>1, <2>2, <3>1, <3>2, SomeJoin
  <2>5. x \notin Adding /\ x \notin Counting /\ x \notin Reloading /\ x \notin Again
        /\ x \notin Inserting /\ x \notin LookingUp
        /\ \A f \in Fields : x \notin Owing(program, f)
    BY OwingIs DEF Adding, Counting, Reloading, Again, Inserting, LookingUp, Fields
  <2>6. Ordered(program, todo)
    <3>1. \A i \in DOMAIN u, j \in DOMAIN t : ~Clash(program, u[i], t[j])
      <4> SUFFICES ASSUME NEW j \in DOMAIN t, Clash(program, x, t[j]) PROVE FALSE
        BY <2>1
      <4>1. t[j] # "lookup"
        BY <2>3 DEF Some, LookingUp
      <4> HIDE DEF t
      <4> QED
        BY <2>5, <4>1 DEF Clash
    <3>2. Ordered(program, t)
      BY <2>2 DEF InOrder
    <3> HIDE DEF t
    <3> QED
      BY <2>1, <2>2, <3>1, <3>2, OrderedJoin
  <2>7. InOrder(program, todo)
    BY <2>2, <2>4, <2>5, <2>6 DEF InOrder
  <2>8. ASSUME NEW f \in Fields PROVE Left(program, f, todo) <=> Left(program, f, s)
    <3>1. Left(program, f, t) <=> Left(program, f, s)
      <4>1. Head(s) \notin Owing(program, f) /\ Head(s) # "lookup"
        BY <1>1, OwingIs DEF Fields
      <4> QED
        BY <1>1, <1>2, <1>3, <4>1, LeftTail
    <3> QED
      BY <2>4, <2>5, <3>1 DEF Left
  <2>9. /\ Some(todo, Again) => Some(s, Again)
        /\ Some(s, Inserting) => Some(todo, Inserting)
    <3>1. Head(s) \notin Inserting
      BY <1>1 DEF Inserting
    <3> QED
      BY <2>4, <2>5, <3>1
  <2>10. todo \in Seq(Steps)
    BY <2>1, <2>2, SomeConcat
  <2>11. GoOn(c, todo, run[c]) /\ run[c].todo # <<>>
         /\ (Some(todo, Again) => Some(run[c].todo, Again))
         /\ (Some(run[c].todo, Inserting) => Some(todo, Inserting))
         /\ \A f \in Fields : Left(program, f, todo) <=> Left(program, f, run[c].todo)
    BY <1>1, <2>2, <2>8, <2>9
  <2> HIDE DEF todo, s, t
  <2>12. Located(c)'
    BY <1>2, <1>3, <1>4, <2>10, <2>11, LocatedKeeps
  <2> QED
    BY <1>2, <1>4, <2>7, <2>10, <2>11, <2>12, QuietKeeps
<1> QED
  BY <1>5, <1>6, <1>7

(* What c goes on with after a lookup.                                     *)
LEMMA FoundLeft ==
    ASSUME NEW p \in Programs, NEW s \in {p.miss, p.hit}, NEW f \in Fields, Kept(p, f)
    PROVE  Left(p, f, s \o p.after)
BY FoundInOrder, FoundOwing DEF Left

LEMMA RelookupBalances ==
    ASSUME TypeOK, TypeOK', TotalInv, NEW c \in CPUs, Relookup(c)
    PROVE  TotalInv'
<1> DEFINE s == run[c].todo
           e == entry[run[c].key]
           r == [run[c] EXCEPT !.ptr = e]
           found == IF e = NoElem THEN <<>> ELSE program.hit
           todo == found \o program.after
<1>1. s # <<>> /\ Head(s) = "relookup" /\ UNCHANGED <<program, hashVars, hist>> /\ GoOn(c, todo, r)
  BY DEF Relookup, At
<1>2. s \in Seq(Steps) /\ run[c] \in Run /\ run[c].key \in Keys
  BY <1>1, TailKeeps
<1>3. InOrder(program, s) /\ Located(c) /\ Ordered(program, s)
  BY DEF TotalInv, InOrder
<1>4. UNCHANGED <<program, entry, hist>> /\ value' = value /\ lossy' = lossy
  BY <1>1 DEF hashVars, hist
<1>5. r \in Run /\ r.key = run[c].key /\ r.amount = run[c].amount /\ r.ptr = e
      /\ r.base = run[c].base
  <2>1. e \in Elems \cup {NoElem}
    BY <1>2 DEF TypeOK, HashTypeOK
  <2> HIDE DEF e
  <2> QED
    BY <1>2, <2>1 DEF Run
<1>6. program \in Programs /\ found \in {<<>>, program.miss, program.hit}
  BY DEF TypeOK
<1>7. ~Some(s, Inserting) /\ Some(s, Again)
  <2>1. \A y \in Inserting : Clash(program, Head(s), y)
    BY <1>1 DEF Clash, Inserting
  <2>2. Head(s) \in Again /\ Head(s) \notin Inserting
    BY <1>1 DEF Again, Inserting
  <2>3. Some(s, Inserting) <=> Head(s) \in Inserting \/ Some(Tail(s), Inserting)
    BY <1>1, <1>2, SomeParts
  <2>4. Some(s, Again) <=> Head(s) \in Again \/ Some(Tail(s), Again)
    BY <1>1, <1>2, SomeParts
  <2>5. ~Some(Tail(s), Inserting)
    BY <1>1, <1>2, <1>3, <2>1, OrderedTail
  <2> QED
    BY <2>2, <2>3, <2>4, <2>5
<1>8. e = NoElem => run[c].key \in lossy
  BY <1>3, <1>7 DEF Located
<1>9. ASSUME NEW f \in Fields, Kept(program, f), e # NoElem
      PROVE  Left(program, f, todo) /\ Left(program, f, s)
  <2>1. Left(program, f, s)
    <3>1. Head(s) \in Owing(program, f)
      BY <1>1, OwingIs
    <3> QED
      BY <1>1, <1>2, <1>3, <3>1, LeftTail
  <2>2. found \in {program.miss, program.hit}
    BY <1>9
  <2> HIDE DEF found
  <2> QED
    BY <1>6, <1>9, <2>1, <2>2, FoundLeft
<1>10. todo \in Seq(Steps) /\ InOrder(program, todo) /\ (Some(todo, Again) => Some(todo, Inserting))
  <2> HIDE DEF found
  <2> QED
    BY <1>6, FoundInOrder
<1>11. run[c].todo # <<>> /\ (r.ptr # NoElem => entry[run[c].key] # NoElem)
       /\ \A f \in Fields : Kept(program, f) => \/ Left(program, f, todo) <=> Left(program, f, run[c].todo)
                                                \/ run[c].key \in lossy
  BY <1>1, <1>5, <1>8, <1>9
<1> HIDE DEF s, e, r, found, todo
<1>12. Located(c)'
  BY <1>1, <1>2, <1>3, <1>4, <1>5, <1>10, <1>11, LocatedKeeps
<1> QED
  BY <1>1, <1>2, <1>4, <1>5, <1>10, <1>11, <1>12, QuietKeeps

LEMMA LookupBalances ==
    ASSUME TypeOK, TypeOK', TotalInv, NEW c \in CPUs, Lookup(c)
    PROVE  TotalInv'
<1> DEFINE s == run[c].todo
           e == entry[run[c].key]
           r == [run[c] EXCEPT !.ptr = e]
           found == IF e = NoElem THEN program.miss ELSE program.hit
           todo == found \o program.after
<1>1. s # <<>> /\ Head(s) = "lookup" /\ UNCHANGED <<program, hashVars, lossy>> /\ GoOn(c, todo, r)
  BY DEF Lookup, At
<1>2. s \in Seq(Steps) /\ run[c] \in Run /\ run[c].key \in Keys /\ run \in [CPUs -> Run]
  BY <1>1, TailKeeps DEF TypeOK
<1>3. Located(c)
  BY DEF TotalInv
<1>4. UNCHANGED <<program, entry, value, lossy>>
  BY <1>1 DEF hashVars
<1>5. r \in Run /\ r.key = run[c].key /\ r.amount = run[c].amount /\ r.ptr = e
      /\ r.base = run[c].base
  <2>1. e \in Elems \cup {NoElem}
    BY <1>2 DEF TypeOK, HashTypeOK
  <2> HIDE DEF e
  <2> QED
    BY <1>2, <2>1 DEF Run
<1>6. program \in Programs /\ found \in {program.miss, program.hit}
  BY DEF TypeOK
<1>7. todo \in Seq(Steps) /\ InOrder(program, todo) /\ (Some(todo, Again) => Some(todo, Inserting))
  <2>1. found \in {<<>>, program.miss, program.hit}
    BY <1>6
  <2> HIDE DEF found
  <2> QED
    BY <1>6, <2>1, FoundInOrder
<1>8. \A f \in Fields : Kept(program, f) => Left(program, f, todo)
  <2> HIDE DEF found
  <2> QED
    BY <1>6, FoundLeft
<1>9. \A f : ~Left(program, f, s)
  <2>1. Some(s, LookingUp) <=> Head(s) \in LookingUp \/ Some(Tail(s), LookingUp)
    BY <1>1, <1>2, SomeParts
  <2>2. Head(s) \in LookingUp
    BY <1>1 DEF LookingUp
  <2> QED
    BY <2>1, <2>2 DEF Left
<1>10. r.ptr # NoElem => entry[run[c].key] # NoElem
  BY <1>5
<1>11. \A f \in Fields, k \in Keys :
          Due(f, k)' = Due(f, k) + IF k = run[c].key THEN Share(f, run[c]) ELSE 0
  <2> SUFFICES ASSUME NEW f \in Fields, NEW k \in Keys
               PROVE  Due(f, k)' = Due(f, k) + IF k = run[c].key THEN Share(f, run[c]) ELSE 0
    OBVIOUS
  <2>1. calls' = [calls EXCEPT ![run[c].key] = @ + 1]
        /\ spent' = [spent EXCEPT ![run[c].key] = @ + run[c].amount]
        /\ calls \in [Keys -> Nat] /\ spent \in [Keys -> Nat]
    BY DEF Lookup, TypeOK
  <2> QED
    BY <2>1 DEF Due, Share
<1> HIDE DEF s, e, r, found, todo
<1>12. /\ \A b \in CPUs \ {c} : run'[b] = run[b]
       /\ run'[c].todo = todo
       /\ todo # <<>> => run'[c].key = run[c].key /\ run'[c].amount = run[c].amount
  <2>1. /\ \A b \in CPUs \ {c} : run'[b] = run[b]
        /\ run'[c].todo = todo
        /\ todo # <<>> => run'[c].key = r.key /\ run'[c].amount = r.amount
    BY <1>1, <1>2, <1>5, <1>7, GoOnRun
  <2> QED
    BY <1>5, <2>1
<1>13. ASSUME NEW f \in Fields, NEW k \in Keys, Kept(program, f)
       PROVE  Cell(k)'[f] + Owes(program, f, run'[c], k) + Due(f, k)
                 = Cell(k)[f] + Owes(program, f, run[c], k) + Due(f, k)'
  <2>1. Cell(k)' = Cell(k)
    BY <1>4 DEF Cell
  <2>2. Owes(program, f, run[c], k) = 0
    BY <1>9 DEF Owes, s
  <2>3. Owes(program, f, run'[c], k) = IF k = run[c].key THEN Share(f, run[c]) ELSE 0
    <3>1. todo # <<>> /\ Left(program, f, run'[c].todo)
      BY <1>8, <1>12, <1>13, NoneLeft DEF Left
    <3> QED
      BY <1>12, <3>1 DEF Owes, Share
  <2>4. Cell(k)[f] \in Nat /\ Due(f, k) \in Nat /\ Share(f, run[c]) \in Nat
    <3>1. Cell(k) \in Stats
      BY StatsType DEF Cell, TypeOK, HashTypeOK, Zero, Stats
    <3>2. Due(f, k) \in Nat
      BY DEF Due, TypeOK
    <3>3. Share(f, run[c]) \in Nat
      BY <1>2, RunAmount DEF Share
    <3> QED
      BY <3>1, <3>2, <3>3, FieldNat
  <2>5. Due(f, k)' = Due(f, k) + IF k = run[c].key THEN Share(f, run[c]) ELSE 0
    BY <1>11
  <2> QED
    BY <2>1, <2>2, <2>3, <2>4, <2>5
<1>14. Located(c)'
  BY <1>1, <1>2, <1>3, <1>4, <1>5, <1>7, <1>10, LocatedKeeps
<1>15. lossy \subseteq lossy' /\ InOrder(program, run'[c].todo)
       /\ \A k \in Keys : entry[k] # NoElem => entry'[k] # NoElem
  BY <1>4, <1>7, <1>12
<1> QED
  BY <1>4, <1>12, <1>13, <1>14, <1>15, TotalKeeps

LEMMA PlusFields ==
    ASSUME NEW s \in Stats, NEW n \in Nat
    PROVE  /\ Plus(s, n)["count"] = s["count"] + 1
           /\ Does("total") \/ Does("copy") => Plus(s, n)["total"] = s["total"] + n
<1> DEFINE t == IF Does("total") \/ Does("copy") THEN s.total + n ELSE s.total
           l == IF Does("min") THEN n ELSE s.min
           m == IF Does("max") THEN n ELSE s.max
           q1 == [s EXCEPT !.count = @ + 1]
           q2 == [q1 EXCEPT !.total = t]
           q3 == [q2 EXCEPT !.min = l]
           q4 == [q3 EXCEPT !.max = m]
<1>1. q1 \in Stats /\ q1.total = s.total /\ q1.min = s.min /\ q1.max = s.max
      /\ q1.count = s.count + 1
  BY DEF Stats
<1>2. Plus(s, n) = q4
  BY <1>1, Zenon DEF Plus
<1>3. t \in Nat /\ l \in Nat /\ m \in Nat
  BY DEF Stats
<1>4. Does("total") \/ Does("copy") => t = s.total + n
  OBVIOUS
<1> HIDE DEF t, l, m, q1
<1>5. q2 \in Stats /\ q2.count = q1.count /\ q2.total = t
  BY <1>1, <1>3 DEF Stats
<1> HIDE DEF q2
<1>6. q3 \in Stats /\ q3.count = q2.count /\ q3.total = q2.total
  BY <1>3, <1>5 DEF Stats
<1> HIDE DEF q3
<1>7. q4 \in Stats /\ q4.count = q3.count /\ q4.total = q3.total
  BY <1>3, <1>6 DEF Stats
<1> HIDE DEF q4
<1> QED
  BY <1>1, <1>2, <1>4, <1>5, <1>6, <1>7

(* An update keeps what is there, and is refused only when it has no room. *)
LEMMA UpdateEntries ==
    ASSUME NEW c \in CPUs, NEW k \in Keys, NEW v, HashTypeOK(Stats), Update(c, k, v)
    PROVE  /\ \A j \in Keys : entry[j] # NoElem => entry'[j] # NoElem
           /\ \/ entry[k] = NoElem /\ free = {}
              \/ entry'[k] # NoElem /\ value'[entry'[k]] = v
<1>1. NoElem \notin Elems
  BY DEF Elems
<1>2. CASE Replace(c, k, v)
  BY <1>1, <1>2 DEF Replace, HashTypeOK
<1>3. CASE Link(k, v)
  BY <1>1, <1>3 DEF Link, HashTypeOK
<1>4. CASE Refuse(k)
  BY <1>4 DEF Refuse, hashVars
<1> QED
  BY <1>2, <1>3, <1>4 DEF Update

(* What an insertion adds to a key on which nothing is lost.               *)
LEMMA InsertAdds ==
    ASSUME TypeOK, TotalInv, NEW c \in CPUs, Insert(c), NEW k \in Keys, k = run[c].key,
           k \notin lossy', NEW f \in Fields, Kept(program, f)
    PROVE  Cell(k)'[f] = Cell(k)[f] + IF program.zeroed THEN 0 ELSE Share(f, run[c])
<1> DEFINE a == run[c].amount
           v == IF program.zeroed THEN Zero ELSE Plus(run[c].base, a)
<1>1. HashTypeOK(Stats) /\ program \in Programs /\ run[c] \in Run /\ a \in Nat
      /\ run[c].base \in Stats
  <2>1. HashTypeOK(Stats) /\ program \in Programs /\ run[c] \in Run
    BY DEF TypeOK
  <2>2. a \in Nat
    BY <2>1, RunAmount
  <2> QED
    BY <2>1, <2>2 DEF Run
<1>2. WellFormed(program)
  BY <1>1, ProgramAssumption
<1>3. Update(c, k, v)
      /\ lossy' = IF \/ entry[k] = NoElem /\ free = {}
                     \/ entry[k] # NoElem /\ (~Does("copy") \/ value[entry[k]] # run[c].base)
                  THEN lossy \cup {k} ELSE lossy
  BY DEF Insert
<1>4. ~(entry[k] = NoElem /\ free = {}) /\ ~(entry[k] # NoElem /\ (~Does("copy") \/ value[entry[k]] # run[c].base))
  BY <1>3
<1>5. entry'[k] # NoElem /\ value'[entry'[k]] = v
  <2> HIDE DEF v
  <2> QED
    BY <1>1, <1>3, <1>4, UpdateEntries
<1>6. Cell(k)' = v
  BY <1>5 DEF Cell
<1>7. Cell(k) = IF entry[k] = NoElem THEN Zero ELSE run[c].base
  BY <1>4 DEF Cell
<1>8. entry[k] = NoElem => run[c].base = Zero
  BY DEF TotalInv, Located
<1>9. CASE program.zeroed
  <2>1. ~Does("copy")
    BY <1>2, <1>9 DEF WellFormed, Does
  <2>2. Cell(k) = Zero /\ v = Zero
    BY <1>4, <1>7, <1>9, <2>1
  <2>3. Zero[f] \in Nat
    BY FieldNat, StatsType, <1>1
  <2> QED
    BY <1>6, <1>9, <2>2, <2>3
<1>10. CASE ~program.zeroed
  <2>1. Cell(k) = run[c].base /\ v = Plus(run[c].base, a)
    BY <1>7, <1>8, <1>10
  <2>2. ~Has(program.hit, "class")
    BY <1>2, <1>10 DEF WellFormed
  <2>3. f = "count" \/ (f = "total" /\ (Does("total") \/ Does("copy")))
    BY <2>2 DEF Kept, Does
  <2> HIDE DEF v, a
  <2>4. v[f] = run[c].base[f] + Share(f, run[c])
    BY <1>1, <2>1, <2>3, PlusFields DEF Share, a
  <2> QED
    BY <1>6, <1>10, <2>1, <2>4
<1> QED
  BY <1>9, <1>10

LEMMA InsertBalances ==
    ASSUME TypeOK, TypeOK', StatsInv, TotalInv, NEW c \in CPUs, Insert(c)
    PROVE  TotalInv'
<1> DEFINE s == run[c].todo
           todo == Tail(s)
           k == run[c].key
           v == IF program.zeroed THEN Zero ELSE Plus(run[c].base, run[c].amount)
<1>1. s # <<>> /\ Head(s) = "insert" /\ program' = program /\ calls' = calls /\ spent' = spent
      /\ GoOn(c, todo, run[c]) /\ Update(c, k, v) /\ lossy' \in {lossy, lossy \cup {k}}
      /\ (entry[k] = NoElem /\ free = {} => k \in lossy')
  BY DEF Insert, At, Proceed
<1>2. s \in Seq(Steps) /\ todo \in Seq(Steps) /\ run[c] \in Run /\ k \in Keys
      /\ run \in [CPUs -> Run]
  BY <1>1, TailKeeps DEF TypeOK
<1>3. InOrder(program, s) /\ Located(c) /\ Ordered(program, s)
  BY DEF TotalInv, InOrder
<1>4. InOrder(program, todo)
  BY <1>1, <1>2, <1>3, InOrderTail
<1>5. HashTypeOK(Stats) /\ OneOwner
  BY DEF TypeOK, StatsInv
<1>6. ASSUME NEW f \in Fields
      PROVE  /\ ~program.zeroed => Left(program, f, s) /\ ~Left(program, f, todo)
             /\ program.zeroed => (Left(program, f, todo) <=> Left(program, f, s))
  <2>1. "insert" \in Owing(program, f) <=> ~program.zeroed
    BY OwingIs DEF Fields
  <2> QED
    BY <1>1, <1>2, <1>3, <2>1, LeftTail
<1>7. lossy \subseteq lossy'
  BY <1>1
<1>8. ASSUME NEW j \in Keys \ lossy', j = k, NEW f \in Fields, Kept(program, f)
      PROVE  Cell(j)'[f] = Cell(j)[f] + IF program.zeroed THEN 0 ELSE Share(f, run[c])
  BY <1>8, InsertAdds
<1>9. Share("total", run[c]) \in Nat /\ \A f \in Fields : Share(f, run[c]) \in Nat
  BY <1>2, RunAmount DEF Share
<1>10. \A f, j : Due(f, j)' = Due(f, j)
  BY <1>1 DEF Due
<1> HIDE DEF s, todo, k, v
<1>11. /\ \A j \in Keys : entry[j] # NoElem => entry'[j] # NoElem
       /\ entry'[k] # NoElem \/ k \in lossy'
  BY <1>1, <1>2, <1>5, UpdateEntries
<1>12. \A j \in Keys \ {k} : Cell(j)' = Cell(j)
  <2>1. \A j \in Keys \ {k} : entry'[j] = entry[j] /\ (entry[j] # NoElem => value'[entry[j]] = value[entry[j]])
    BY <1>1, <1>2, <1>5, UpdateFrame
  <2> QED
    BY <2>1 DEF Cell
<1>13. /\ \A b \in CPUs \ {c} : run'[b] = run[b]
       /\ run'[c].todo = todo
       /\ todo # <<>> => run'[c].key = run[c].key /\ run'[c].amount = run[c].amount
  BY <1>1, <1>2, GoOnRun
<1>14. ASSUME NEW f \in Fields, NEW j \in Keys \ lossy', Kept(program, f)
       PROVE  Cell(j)'[f] + Owes(program, f, run'[c], j) + Due(f, j)
                 = Cell(j)[f] + Owes(program, f, run[c], j) + Due(f, j)'
  <2>0. Cell(j)[f] \in Nat /\ Due(f, j) \in Nat
    <3>1. Cell(j) \in Stats
      BY <1>5, StatsType DEF Cell, HashTypeOK, Zero, Stats
    <3>2. Due(f, j) \in Nat
      BY DEF Due, TypeOK
    <3> QED
      BY <3>1, <3>2, FieldNat
  <2>1. CASE j # k
    <3>1. Owes(program, f, run'[c], j) = Owes(program, f, run[c], j)
      BY <1>13, <2>1, OwesSame DEF k
    <3>2. Cell(j)' = Cell(j) /\ Due(f, j)' = Due(f, j)
      BY <1>10, <1>12, <2>1
    <3> QED
      BY <3>1, <3>2
  <2>2. CASE j = k /\ program.zeroed
    <3>1. Left(program, f, run'[c].todo) <=> Left(program, f, run[c].todo)
      BY <1>6, <1>13, <2>2 DEF s
    <3>2. Owes(program, f, run'[c], j) = Owes(program, f, run[c], j)
      BY <1>13, <3>1, OwesSame
    <3>3. Cell(j)'[f] = Cell(j)[f]
      BY <1>8, <1>14, <2>0, <2>2
    <3> QED
      BY <1>10, <3>2, <3>3
  <2>3. CASE j = k /\ ~program.zeroed
    <3>1. Owes(program, f, run'[c], j) = 0
      BY <1>6, <1>13, <2>3 DEF Owes
    <3>2. Owes(program, f, run[c], j) = Share(f, run[c])
      BY <1>6, <2>3 DEF Owes, s, k
    <3>3. Cell(j)'[f] = Cell(j)[f] + Share(f, run[c])
      BY <1>8, <1>14, <2>3
    <3> QED
      BY <1>9, <1>10, <2>0, <3>1, <3>2, <3>3
  <2> QED
    BY <2>1, <2>2, <2>3
<1>15. Located(c)'
  BY <1>1, <1>2, <1>3, <1>7, <1>11, LocatedKeeps DEF k
<1> QED
  BY <1>1, <1>4, <1>7, <1>11, <1>13, <1>14, <1>15, TotalKeeps

(* An add to a field of the element that was found: the key's, unless the  *)
(* key has lost something.                                                 *)
LEMMA AddBalances ==
    ASSUME TypeOK, TypeOK', StatsInv, TotalInv, NEW c \in CPUs, NEW g \in Fields,
           Add(c, AddsTo[g], g, Share(g, run[c])), NEW r \in Run,
           r.key = run[c].key, r.amount = run[c].amount, r.ptr = run[c].ptr,
           r.base = run[c].base, GoOn(c, Tail(run[c].todo), r)
    PROVE  TotalInv'
<1> DEFINE s == run[c].todo
           todo == Tail(s)
           k == run[c].key
           p == run[c].ptr
           n == Share(g, run[c])
           w == [value[p] EXCEPT ![g] = @ + n]
<1>1. s # <<>> /\ Head(s) = AddsTo[g] /\ UNCHANGED <<program, entry, hist>>
      /\ value' = [value EXCEPT ![p] = w]
  BY DEF Add, At, Write
<1>2. s \in Seq(Steps) /\ todo \in Seq(Steps) /\ run[c] \in Run /\ k \in Keys
      /\ run \in [CPUs -> Run]
  BY <1>1, TailKeeps DEF TypeOK
<1>3. InOrder(program, s) /\ Located(c) /\ Ordered(program, s)
  BY DEF TotalInv, InOrder
<1>4. InOrder(program, todo)
  BY <1>1, <1>2, <1>3, InOrderTail
<1>5. AddsTo[g] \in {"count", "class", "total"}
  BY OwingIs DEF Fields
<1>6. p \in Elems /\ value \in [Elems -> Stats] /\ entry \in [Keys -> Elems \cup {NoElem}]
  BY <1>1, <1>5 DEF TypeOK, At, HashTypeOK
<1>7. Pointers
  <2>1. AddsTo[g] \in Adding
    BY <1>5 DEF Adding
  <2>2. Some(s, Adding)
    BY <1>1, <1>2, <2>1, SomeParts
  <2>3. InPlace
    BY <1>3, <2>2 DEF InOrder, InPlace, Does
  <2> QED
    BY <2>3 DEF StatsInv
<1>8. \A j \in Keys \ lossy : k = j <=> p = entry[j]
  BY <1>6, <1>7 DEF Pointers, Elems
<1>9. ASSUME NEW f \in Fields
      PROVE  /\ f = g => Left(program, f, s) /\ ~Left(program, f, todo)
             /\ f # g => (Left(program, f, todo) <=> Left(program, f, s))
  <2>1. AddsTo[g] \in Owing(program, f) <=> f = g
    BY <1>5, OwingIs DEF Fields
  <2>2. AddsTo[g] # "lookup"
    BY <1>5
  <2> QED
    BY <1>1, <1>2, <1>3, <2>1, <2>2, LeftTail
<1>10. n \in Nat
  BY <1>2, RunAmount DEF Share
<1>11. \A f \in Fields : w[f] = value[p][f] + IF f = g THEN n ELSE 0
  <2>1. value[p] \in Stats
    BY <1>6
  <2>2. \A f \in Fields : value[p][f] \in Nat /\ f \in DOMAIN value[p]
    BY <2>1, FieldNat DEF Stats, Fields
  <2> HIDE DEF n, p
  <2> QED
    BY <2>2
<1>12. \A j \in Keys \ lossy, f \in Fields :
          Cell(j)'[f] = Cell(j)[f] + IF j = k /\ f = g THEN n ELSE 0
  <2> SUFFICES ASSUME NEW j \in Keys \ lossy, NEW f \in Fields
               PROVE  Cell(j)'[f] = Cell(j)[f] + IF j = k /\ f = g THEN n ELSE 0
    OBVIOUS
  <2>1. Cell(j)[f] \in Nat
    <3>1. Cell(j) \in Stats
      BY <1>6, StatsType DEF Cell, Zero, Stats
    <3> QED
      BY <3>1, FieldNat
  <2> HIDE DEF w, n, s, todo
  <2>2. CASE entry[j] = NoElem
    <3>1. j # k
      BY <1>6, <1>8, <2>2 DEF Elems
    <3>2. Cell(j)' = Cell(j)
      BY <1>1, <2>2 DEF Cell
    <3> QED
      BY <2>1, <3>1, <3>2
  <2>3. CASE entry[j] # NoElem /\ entry[j] # p
    <3>1. j # k
      BY <1>8, <2>3
    <3>2. Cell(j)' = Cell(j)
      BY <1>1, <1>6, <2>3 DEF Cell
    <3> QED
      BY <2>1, <3>1, <3>2
  <2>4. CASE entry[j] # NoElem /\ entry[j] = p
    <3>1. j = k
      BY <1>8, <2>4
    <3>2. Cell(j)' = w /\ Cell(j) = value[p]
      BY <1>1, <1>6, <2>4 DEF Cell
    <3> QED
      BY <1>11, <3>1, <3>2
  <2> QED
    BY <2>2, <2>3, <2>4
<1>13. \A f, j : Due(f, j)' = Due(f, j)
  BY <1>1 DEF Due, hist
<1>14. lossy' = lossy /\ entry' = entry /\ program' = program /\ GoOn(c, todo, r)
  BY <1>1 DEF hist
<1>15. (Some(todo, Again) => Some(s, Again)) /\ (Some(s, Inserting) => Some(todo, Inserting))
  <2>1. Head(s) \notin Inserting
    BY <1>1, <1>5 DEF Inserting
  <2> QED
    BY <1>1, <1>2, <2>1, SomeParts
<1>16. n = Share(g, run[c]) /\ s = run[c].todo /\ k = run[c].key
  OBVIOUS
<1> HIDE DEF s, todo, k, p, n, w
<1>17. /\ \A b \in CPUs \ {c} : run'[b] = run[b]
       /\ run'[c].todo = todo
       /\ todo # <<>> => run'[c].key = run[c].key /\ run'[c].amount = run[c].amount
  BY <1>2, <1>14, GoOnRun
<1>18. ASSUME NEW f \in Fields, NEW j \in Keys \ lossy
       PROVE  Cell(j)'[f] + Owes(program, f, run'[c], j) + Due(f, j)
                 = Cell(j)[f] + Owes(program, f, run[c], j) + Due(f, j)'
  <2>0. Cell(j)[f] \in Nat /\ Due(f, j) \in Nat
    <3>1. Cell(j) \in Stats
      BY <1>6, StatsType DEF Cell, Zero, Stats
    <3>2. Due(f, j) \in Nat
      BY DEF Due, TypeOK
    <3> QED
      BY <3>1, <3>2, FieldNat
  <2>1. CASE ~(j = k /\ f = g)
    <3>1. Owes(program, f, run'[c], j) = Owes(program, f, run[c], j)
      BY <1>9, <1>16, <1>17, <2>1, OwesSame
    <3>2. Cell(j)'[f] = Cell(j)[f]
      BY <1>12, <2>0, <2>1
    <3> QED
      BY <1>13, <3>1, <3>2
  <2>2. CASE j = k /\ f = g
    <3>1. Owes(program, f, run'[c], j) = 0
      BY <1>9, <1>17, <2>2 DEF Owes
    <3>2. Owes(program, f, run[c], j) = n
      BY <1>9, <1>16, <2>2 DEF Owes
    <3>3. Cell(j)'[f] = Cell(j)[f] + n
      BY <1>12, <2>2
    <3> QED
      BY <1>10, <1>13, <2>0, <3>1, <3>2, <3>3
  <2> QED
    BY <2>1, <2>2
<1>19. Located(c)'
  BY <1>1, <1>2, <1>3, <1>14, <1>15, <1>16, LocatedKeeps
<1> QED
  BY <1>4, <1>14, <1>17, <1>18, <1>19, TotalKeeps

LEMMA StartBalances ==
    ASSUME TypeOK, TypeOK', TotalInv, NEW c \in CPUs, NEW k \in Keys, Start(c, k)
    PROVE  TotalInv'
<1> DEFINE todo == Append(program.before, "lookup")
<1>1. PICK a : run' = [run EXCEPT ![c] = Started(todo, k, a)]
  <2>1. PICK a \in IF program.unmeasured THEN Amounts \cup {0} ELSE Amounts :
           run' = [run EXCEPT ![c] = [Idle EXCEPT !.todo = todo, !.key = k,
                                                  !.amount = a, !.shown = 1]]
    BY DEF Start
  <2>2. run' = [run EXCEPT ![c] = Started(todo, k, a)]
    BY <2>1, StartedIs, Zenon
  <2> QED
    BY <2>2
<1>2. /\ todo \in Seq(Steps) /\ InOrder(program, todo) /\ Some(todo, LookingUp)
      /\ ~Some(todo, Again)
  BY BeforeInOrder DEF TypeOK
<1>3. run[c].todo = <<>> /\ UNCHANGED <<program, entry, value, hist>> /\ run \in [CPUs -> Run]
  BY DEF Start, hashVars, TypeOK
<1> HIDE DEF todo
<1>4. /\ \A b \in CPUs \ {c} : run'[b] = run[b]
      /\ run'[c].todo = todo /\ run'[c].ptr = NoElem /\ run'[c].base = Zero
  BY <1>1, <1>3 DEF Started
<1>5. ASSUME NEW f, NEW j
      PROVE  Owes(program, f, run'[c], j) = 0 /\ Owes(program, f, run[c], j) = 0
  BY <1>2, <1>3, <1>4, NoneLeft DEF Owes, Left
<1>6. ASSUME NEW f \in Fields, NEW j \in Keys
      PROVE  Cell(j)'[f] + Owes(program, f, run'[c], j) + Due(f, j)
                = Cell(j)[f] + Owes(program, f, run[c], j) + Due(f, j)'
  <2>1. Cell(j)' = Cell(j) /\ Due(f, j)' = Due(f, j)
    BY <1>3 DEF Cell, Due, hist
  <2> QED
    BY <1>5, <2>1
<1>7. Located(c)'
  BY <1>2, <1>4 DEF Located
<1>8. InOrder(program, run'[c].todo) /\ program' = program /\ lossy' = lossy /\ entry' = entry
  BY <1>2, <1>3, <1>4 DEF hist
<1> QED
  BY <1>4, <1>6, <1>7, <1>8, TotalKeeps

LEMMA TotalInvStep == TypeOK /\ TypeOK' /\ StatsInv /\ TotalInv /\ [Next]_vars => TotalInv'
<1> SUFFICES ASSUME TypeOK, TypeOK', StatsInv, TotalInv, [Next]_vars PROVE TotalInv'
  OBVIOUS
<1>0. run \in [CPUs -> Run] /\ HashTypeOK(Stats)
  BY DEF TypeOK
<1>1. ASSUME NEW c \in CPUs, NEW k \in Keys, Start(c, k) PROVE TotalInv'
  BY <1>1, StartBalances
<1>2. ASSUME NEW c \in CPUs, Reserve(c) \/ Submit(c) \/ Sample(c) PROVE TotalInv'
  <2>1. /\ run[c].todo # <<>> /\ run[c] \in Run /\ Head(run[c].todo) \notin Moves
        /\ UNCHANGED <<program, hashVars, hist>>
    BY <1>0, <1>2 DEF Reserve, Submit, Sample, At, Moves
  <2>2. \/ GoOn(c, Tail(run[c].todo), run[c])
        \/ GoOn(c, <<>>, Idle) /\ Head(run[c].todo) \in {"reserve", "sample"}
    BY <1>2 DEF Reserve, Submit, Sample, Proceed, At
  <2>3. CASE GoOn(c, Tail(run[c].todo), run[c])
    <3>1. UNCHANGED <<program, entry, hist>> /\ value' = value
      BY <2>1 DEF hashVars
    <3> QED
      BY <2>1, <2>3, <3>1, QuietTail
  <2>4. CASE GoOn(c, <<>>, Idle) /\ Head(run[c].todo) \in {"reserve", "sample"}
    BY <2>1, <2>4, QuietReturn
  <2> QED
    BY <2>2, <2>3, <2>4
<1>3. ASSUME NEW c \in CPUs, Lookup(c) PROVE TotalInv'
  BY <1>3, LookupBalances
<1>4. ASSUME NEW c \in CPUs, Relookup(c) PROVE TotalInv'
  BY <1>4, RelookupBalances
<1>5. ASSUME NEW c \in CPUs, Copy(c) PROVE TotalInv'
  <2> DEFINE r == [run[c] EXCEPT !.base = value[run[c].ptr]]
  <2>1. run[c] \in Run /\ run[c].todo # <<>> /\ run[c].ptr \in Elems
        /\ Head(run[c].todo) \notin Moves
    BY <1>0, <1>5 DEF Copy, At, TypeOK, Moves
  <2>2. r \in Run /\ r.key = run[c].key /\ r.ptr = run[c].ptr /\ r.amount = run[c].amount
    <3>1. value[run[c].ptr] \in Stats
      BY <1>0, <2>1 DEF HashTypeOK
    <3> QED
      BY <2>1, <3>1 DEF Run
  <2>3. GoOn(c, Tail(run[c].todo), r) /\ UNCHANGED <<program, entry, hist>> /\ value' = value
    BY <1>5 DEF Copy, hashVars
  <2> HIDE DEF r
  <2> QED
    BY <2>1, <2>2, <2>3, QuietTail
<1>6. ASSUME NEW c \in CPUs, Insert(c) PROVE TotalInv'
  BY <1>6, InsertBalances
<1>7. ASSUME NEW c \in CPUs, AddCount(c) PROVE TotalInv'
  <2> DEFINE n == value[run[c].ptr].count + 1
             r == [run[c] EXCEPT !.own = n]
  <2>1. run[c] \in Run /\ run[c].ptr \in Elems /\ Add(c, "count", "count", 1)
        /\ GoOn(c, Tail(run[c].todo), r)
    BY <1>0, <1>7 DEF AddCount, Add, At, TypeOK
  <2>2. n \in Nat
    <3>1. value[run[c].ptr] \in Stats
      BY <1>0, <2>1 DEF HashTypeOK
    <3> QED
      BY <3>1 DEF Stats
  <2> HIDE DEF n
  <2>3. r \in Run /\ r.key = run[c].key /\ r.ptr = run[c].ptr /\ r.amount = run[c].amount
        /\ r.base = run[c].base
    BY <2>1, <2>2 DEF Run
  <2>4. "count" \in Fields /\ Add(c, AddsTo["count"], "count", Share("count", run[c]))
    <3>1. AddsTo["count"] = "count" /\ Share("count", run[c]) = 1
      BY OwingIs DEF Share
    <3> QED
      BY <2>1, <3>1, Zenon DEF Fields
  <2> HIDE DEF r
  <2> QED
    BY <2>1, <2>3, <2>4, AddBalances
<1>8. ASSUME NEW c \in CPUs, AddClass(c) PROVE TotalInv'
  <2>1. run[c] \in Run /\ GoOn(c, Tail(run[c].todo), run[c]) /\ Add(c, "class", "classed", 1)
    BY <1>0, <1>8 DEF AddClass, Proceed
  <2>2. "classed" \in Fields /\ Add(c, AddsTo["classed"], "classed", Share("classed", run[c]))
    <3>1. AddsTo["classed"] = "class" /\ Share("classed", run[c]) = 1
      BY OwingIs DEF Share
    <3> QED
      BY <2>1, <3>1, Zenon DEF Fields
  <2> QED
    BY <2>1, <2>2, AddBalances
<1>9. ASSUME NEW c \in CPUs, AddTotal(c) PROVE TotalInv'
  <2>1. run[c] \in Run /\ GoOn(c, Tail(run[c].todo), run[c])
        /\ Add(c, "total", "total", run[c].amount)
    BY <1>0, <1>9 DEF AddTotal, Proceed
  <2>2. "total" \in Fields /\ Add(c, AddsTo["total"], "total", Share("total", run[c]))
    <3>1. AddsTo["total"] = "total" /\ Share("total", run[c]) = run[c].amount
      BY OwingIs DEF Share
    <3> QED
      BY <2>1, <3>1, Zenon DEF Fields
  <2> QED
    BY <2>1, <2>2, AddBalances
<1>10. ASSUME NEW c \in CPUs, Positive(c) PROVE TotalInv'
  BY <1>10, PositiveBalances
<1>11. ASSUME NEW c \in CPUs, TestMin(c) \/ TestMax(c) PROVE TotalInv'
  BY <1>11, TestBalances
<1>12. ASSUME NEW c \in CPUs, StoreMin(c) \/ StoreMax(c) PROVE TotalInv'
  <2>1. PICK g \in {"min", "max"} :
           /\ Head(run[c].todo) \notin Moves /\ run[c].todo # <<>> /\ run[c].ptr \in Elems
           /\ Write(run[c].ptr, [value[run[c].ptr] EXCEPT ![g] = run[c].amount])
           /\ GoOn(c, Tail(run[c].todo), run[c]) /\ UNCHANGED <<program, hist>>
    BY <1>12 DEF StoreMin, StoreMax, Store, At, TypeOK, Proceed, Moves
  <2>2. run[c] \in Run
    BY <1>0
  <2>3. \A e \in Elems, f \in Fields : value'[e][f] = value[e][f]
    <3> DEFINE p == run[c].ptr
               w == [value[p] EXCEPT ![g] = run[c].amount]
    <3>1. value' = [value EXCEPT ![p] = w] /\ value \in [Elems -> Stats]
      BY <1>0, <2>1 DEF Write, HashTypeOK
    <3>2. \A f \in Fields : w[f] = value[p][f]
      <4>1. value[p] \in Stats
        BY <2>1, <3>1
      <4> QED
        BY <4>1 DEF Stats, Fields
    <3> HIDE DEF w
    <3> QED
      BY <2>1, <3>1, <3>2
  <2>4. UNCHANGED <<program, entry, hist>>
    BY <2>1 DEF Write
  <2> QED
    BY <2>1, <2>2, <2>3, <2>4, QuietTail
<1>13. ASSUME NEW c \in CPUs, Reload(c) PROVE TotalInv'
  <2> DEFINE n == IF run[c].ptr = NoElem THEN 1 ELSE value[run[c].ptr].count + program.extra
             r == [run[c] EXCEPT !.shown = n]
  <2>1. run[c] \in Run /\ run[c].todo # <<>> /\ Head(run[c].todo) \notin Moves
    BY <1>0, <1>13 DEF Reload, At, Moves
  <2>2. n \in Nat
    <3>1. program.extra \in Nat
      BY Profile DEF TypeOK
    <3>2. run[c].ptr # NoElem => value[run[c].ptr].count \in Nat
      BY <2>1 DEF Run, TypeOK, HashTypeOK, Stats
    <3> QED
      BY <3>1, <3>2
  <2> HIDE DEF n
  <2>3. r \in Run /\ r.key = run[c].key /\ r.ptr = run[c].ptr /\ r.amount = run[c].amount
        /\ r.base = run[c].base
    BY <2>1, <2>2 DEF Run
  <2>4. GoOn(c, Tail(run[c].todo), r) /\ UNCHANGED <<program, entry, hist>> /\ value' = value
    BY <1>13 DEF Reload, hashVars, n
  <2> HIDE DEF r
  <2> QED
    BY <2>1, <2>3, <2>4, QuietTail
<1>14. CASE UNCHANGED vars
  <2>1. UNCHANGED <<program, run, entry, value, calls, spent, lossy>>
    BY <1>14 DEF vars, hashVars, hist
  <2> QED
    BY <2>1 DEF TotalInv, Accounted, Balanced, Owed, Due, Cell, Located
<1> QED
  BY <1>1, <1>2, <1>3, <1>4, <1>5, <1>6, <1>7, <1>8, <1>9, <1>10, <1>11, <1>12, <1>13, <1>14
     DEF Next, RunStep

LEMMA TotalInvInit == Init => TotalInv
<1> SUFFICES ASSUME Init PROVE TotalInv
  OBVIOUS
<1>1. TypeOK /\ \A c \in CPUs : run[c] = Idle
  BY StatsTypeInit DEF Init
<1>2. Idle.todo = <<>> /\ Idle.ptr = NoElem /\ Idle.base = Zero /\ \A S : ~Some(<<>>, S)
  BY NoneLeft DEF Idle
<1>3. ASSUME NEW c \in CPUs PROVE InOrder(program, run[c].todo) /\ Located(c)
  <2>1. InOrder(program, <<>>)
    BY <1>2 DEF InOrder, Ordered
  <2>2. run[c] = Idle
    BY <1>1
  <2> QED
    BY <1>2, <2>1, <2>2 DEF Located
<1>4. ASSUME NEW f \in Fields, NEW k \in Keys PROVE Balanced(f, k)
  <2>1. \A c \in CPUs : Owes(program, f, run[c], k) = 0
    BY <1>1, <1>2 DEF Owes, Left
  <2>2. Owed(f, k) = 0
    BY <1>1, <2>1, OwedIs
  <2>3. Cell(k) = Zero /\ Due(f, k) = 0
    BY DEF Init, HashInit, Cell, Due
  <2>4. Zero[f] = 0
    BY DEF Zero, Fields
  <2> QED
    BY <2>2, <2>3, <2>4 DEF Balanced
<1> QED
  BY <1>3, <1>4 DEF TotalInv, Accounted

LEMMA QuietMatches ==
    ASSUME TypeOK, TotalInv, NEW k \in Keys \ lossy, Quiet(k), NEW f \in Fields, Kept(program, f)
    PROVE  Cell(k)[f] = Due(f, k)
<1>1. ASSUME NEW c \in CPUs PROVE Owes(program, f, run[c], k) = 0
  <2>1. run[c].key = k => Some(run[c].todo, LookingUp)
    BY DEF Quiet, Has, Some, LookingUp
  <2> QED
    BY <2>1 DEF Owes, Left
<1>2. Owed(f, k) = 0
  BY <1>1, OwedIs
<1>3. Cell(k)[f] \in Nat
  BY CellStats, FieldNat
<1> QED
  BY <1>2, <1>3 DEF TotalInv, Accounted, Balanced

(* When no call for a key is under way, its count, its total and its two   *)
(* classes are those of all the calls made, on every key that no update    *)
(* was refused on or lost; and at any time what is missing from a field is *)
(* what the calls under way have still to add (TotalInv).                  *)
THEOREM TotalsCorrect == Spec => []TotalsMatch
<1>1. Init => TypeOK /\ PointerTyped /\ StatsInv /\ TotalInv
  BY StatsInvInit, TotalInvInit
<1>2. TypeOK /\ PointerTyped /\ StatsInv /\ TotalInv /\ [Next]_vars
         => (TypeOK /\ PointerTyped /\ StatsInv /\ TotalInv)'
  BY StatsTypeStep, StatsInvStep, TotalInvStep
<1>3. TypeOK /\ TotalInv => TotalsMatch
  <2> SUFFICES ASSUME TypeOK, TotalInv, NEW k \in Keys \ lossy, Quiet(k)
               PROVE  /\ Cell(k).count = calls[k]
                      /\ Does("total") \/ Does("copy") => Cell(k).total = spent[k]
                      /\ Does("class") => Cell(k).classed = calls[k]
    BY DEF TotalsMatch
  <2>1. \A f \in Fields : Kept(program, f) => Cell(k)[f] = Due(f, k)
    BY QuietMatches
  <2> QED
    BY <2>1 DEF Kept, Fields, Due, Does
<1> QED
  BY <1>1, <1>2, <1>3, PTL DEF Spec
-----------------------------------------------------------------------------
(* The count that is loaded again.                                         *)

Lookups == {"lookup", "relookup"}

(* What c made of the count is not above what is there, and what it loaded *)
(* again lies between the two bounds from then on.                         *)
Reloaded(c) ==
    /\ Some(run[c].todo, Lookups) => run[c].own = 0
    /\ InPlace /\ run[c].ptr # NoElem /\ run[c].key \notin lossy =>
          /\ run[c].own <= Cell(run[c].key).count
          /\ Reports /\ ~Some(run[c].todo, Reloading) =>
                /\ run[c].own + program.extra <= run[c].shown
                /\ run[c].shown <= calls[run[c].key] + program.extra

ReloadInv == \A c \in CPUs : Reloaded(c)

(* Where changes are made in place, a count that is not lost never goes    *)
(* down.                                                                   *)
Grows == /\ program' = program /\ lossy \subseteq lossy'
         /\ \A k \in Keys : calls[k] <= calls'[k]
         /\ InPlace => \A k \in Keys \ lossy' :
               entry[k] # NoElem => entry'[k] # NoElem /\ Cell(k).count <= Cell(k)'.count

LEMMA CountNat ==
    ASSUME TypeOK, NEW k \in Keys
    PROVE  Cell(k).count \in Nat /\ calls[k] \in Nat
<1>1. Cell(k).count \in Nat
  BY CellStats DEF Stats
<1>2. calls \in [Keys -> Nat]
  BY DEF TypeOK
<1> QED
  BY <1>1, <1>2

LEMMA GrowsInPlace ==
    ASSUME TypeOK, UNCHANGED <<program, entry, lossy>>,
           \A k \in Keys : calls[k] <= calls'[k],
           \A e \in Elems : value[e].count <= value'[e].count
    PROVE  Grows
<1>1. ASSUME NEW k \in Keys, entry[k] # NoElem PROVE Cell(k).count <= Cell(k)'.count
  <2>1. entry[k] \in Elems /\ entry'[k] = entry[k]
    BY <1>1 DEF TypeOK, HashTypeOK
  <2> QED
    BY <1>1, <2>1 DEF Cell
<1> QED
  BY <1>1 DEF Grows

LEMMA InsertGrows ==
    ASSUME TypeOK, StatsInv, NEW c \in CPUs, Insert(c)
    PROVE  Grows
<1> DEFINE v == IF program.zeroed THEN Zero ELSE Plus(run[c].base, run[c].amount)
<1>1. PICK k \in Keys : k = run[c].key
  BY DEF Insert, At, TypeOK
<1>2. /\ Update(c, k, v) /\ program' = program /\ calls' = calls /\ lossy \subseteq lossy'
      /\ InPlace /\ k \notin lossy' => entry[k] = NoElem
  BY <1>1 DEF Insert, InPlace
<1>3. HashTypeOK(Stats) /\ OneOwner
  BY DEF TypeOK, StatsInv
<1> HIDE DEF v
<1>4. \A j \in Keys \ {k} : entry'[j] = entry[j]
                            /\ (entry[j] # NoElem => value'[entry[j]] = value[entry[j]])
  BY <1>2, <1>3, UpdateFrame
<1>5. ASSUME NEW j \in Keys \ lossy', InPlace, entry[j] # NoElem
      PROVE  entry'[j] # NoElem /\ Cell(j).count <= Cell(j)'.count
  <2>1. j # k
    BY <1>2, <1>5
  <2>2. entry'[j] = entry[j] /\ Cell(j)' = Cell(j)
    BY <1>4, <1>5, <2>1 DEF Cell
  <2> QED
    BY <1>5, <2>2, CountNat
<1>6. \A j \in Keys : calls[j] <= calls'[j]
  BY <1>2, CountNat
<1> QED
  BY <1>2, <1>5, <1>6 DEF Grows

(* A step of c after which the bounds hold for c.                          *)
LEMMA ReloadKeeps ==
    ASSUME TypeOK, TypeOK', TotalInv, ReloadInv, Grows, NEW c \in CPUs,
           \A b \in CPUs \ {c} : run'[b] = run[b], Reloaded(c)'
    PROVE  ReloadInv'
<1> SUFFICES ASSUME NEW b \in CPUs, b # c PROVE Reloaded(b)'
  BY DEF ReloadInv
<1>1. run'[b] = run[b] /\ Reloaded(b) /\ Located(b) /\ run[b] \in Run
  BY DEF ReloadInv, TotalInv, TypeOK
<1>2. run[b].own \in Nat /\ run[b].shown \in Nat /\ program.extra \in Nat
  BY <1>1, Profile DEF Run, TypeOK
<1> SUFFICES ASSUME InPlace', run[b].ptr # NoElem, run[b].key \notin lossy'
             PROVE  /\ run[b].own <= Cell(run[b].key)'.count
                    /\ Reports' /\ ~Some(run[b].todo, Reloading) =>
                          /\ run[b].own + program.extra <= run[b].shown
                          /\ run[b].shown <= calls'[run[b].key] + program.extra
  BY <1>1 DEF Reloaded, Grows, Cell
<1>3. InPlace /\ (Reports' <=> Reports) /\ run[b].key \notin lossy
  BY DEF Grows, InPlace, Reports, Does
<1>4. PICK k \in Keys : k = run[b].key /\ entry[k] # NoElem
  BY <1>1 DEF Located
<1>5. Cell(k).count <= Cell(k)'.count /\ calls[k] <= calls'[k]
  BY <1>3, <1>4 DEF Grows
<1>6. run[b].own <= Cell(k).count
      /\ (Reports /\ ~Some(run[b].todo, Reloading) =>
             /\ run[b].own + program.extra <= run[b].shown
             /\ run[b].shown <= calls[k] + program.extra)
  BY <1>1, <1>3, <1>4 DEF Reloaded
<1>7. Cell(k).count \in Nat /\ calls[k] \in Nat /\ calls'[k] \in Nat /\ Cell(k)'.count \in Nat
  <2>1. Zero \in Stats
    BY DEF Zero, Stats
  <2>2. Cell(k)' \in Stats
    BY <2>1 DEF Cell, TypeOK, HashTypeOK
  <2> QED
    BY <2>2, CountNat DEF TypeOK, Stats
<1>8. Cell(run[b].key)' = Cell(k)'
  BY <1>1, <1>4 DEF Cell
<1> QED
  BY <1>2, <1>3, <1>4, <1>5, <1>6, <1>7, <1>8

LEMMA ReloadedIs ==
    ASSUME TypeOK, program' = program, NEW c \in CPUs, NEW k \in Keys, k = run[c].key,
           NEW todo \in Seq(Steps), NEW r \in Run, GoOn(c, todo, r), r.key = k,
           Some(todo, Lookups) => r.own = 0,
           InPlace /\ r.ptr # NoElem /\ k \notin lossy' =>
              /\ r.own <= Cell(k)'.count
              /\ Reports /\ ~Some(todo, Reloading) =>
                    r.own + program.extra <= r.shown /\ r.shown <= calls'[k] + program.extra
    PROVE  Reloaded(c)'
<1>1. run \in [CPUs -> Run]
  BY DEF TypeOK
<1>2. /\ run'[c].todo = todo
      /\ todo = <<>> => run'[c] = Idle
      /\ todo # <<>> => /\ run'[c].key = k /\ run'[c].ptr = r.ptr
                        /\ run'[c].own = r.own /\ run'[c].shown = r.shown
  BY <1>1, GoOnRun
<1>3. Idle.own = 0 /\ Idle.ptr = NoElem
  BY DEF Idle
<1>4. InPlace' = InPlace /\ Reports' = Reports
  BY DEF InPlace, Reports, Does
<1>5. CASE todo = <<>>
  BY <1>2, <1>3, <1>5 DEF Reloaded
<1>6. CASE todo # <<>>
  <2>1. Cell(run[c].key)' = Cell(k)'
    BY <1>2, <1>6 DEF Cell
  <2> QED
    BY <1>2, <1>4, <1>6, <2>1 DEF Reloaded
<1> QED
  BY <1>5, <1>6

(* A step to which the count does not matter.                              *)
LEMMA ReloadedSame ==
    ASSUME TypeOK, TypeOK', TotalInv, ReloadInv, Grows, NEW c \in CPUs, run[c].todo # <<>>,
           NEW todo \in Seq(Steps), NEW r \in Run, GoOn(c, todo, r), r.key = run[c].key,
           r.ptr = run[c].ptr, r.own = run[c].own, r.shown = run[c].shown,
           Some(todo, Lookups) => Some(run[c].todo, Lookups),
           Some(run[c].todo, Reloading) => Some(todo, Reloading)
    PROVE  ReloadInv'
<1>1. run \in [CPUs -> Run] /\ run[c] \in Run /\ program.extra \in Nat
  BY Profile DEF TypeOK
<1>2. \A b \in CPUs \ {c} : run'[b] = run[b]
  BY <1>1, GoOnRun
<1>3. PICK k \in Keys : k = run[c].key
  BY DEF TypeOK
<1>4. Reloaded(c) /\ Located(c)
  BY DEF ReloadInv, TotalInv
<1>5. Some(todo, Lookups) => r.own = 0
  BY <1>4 DEF Reloaded
<1>6. ASSUME InPlace, r.ptr # NoElem, k \notin lossy'
      PROVE  /\ r.own <= Cell(k)'.count
             /\ Reports /\ ~Some(todo, Reloading) =>
                   r.own + program.extra <= r.shown /\ r.shown <= calls'[k] + program.extra
  <2>1. k \notin lossy /\ entry[k] # NoElem
    BY <1>3, <1>4, <1>6 DEF Grows, Located
  <2>2. Cell(k).count <= Cell(k)'.count /\ calls[k] <= calls'[k]
    BY <1>6, <2>1 DEF Grows
  <2>3. r.own <= Cell(k).count
        /\ (Reports /\ ~Some(todo, Reloading) =>
               r.own + program.extra <= r.shown /\ r.shown <= calls[k] + program.extra)
    BY <1>3, <1>4, <1>6, <2>1 DEF Reloaded
  <2>4. Cell(k).count \in Nat /\ calls[k] \in Nat /\ calls'[k] \in Nat /\ Cell(k)'.count \in Nat
    <3>1. Zero \in Stats
      BY DEF Zero, Stats
    <3>2. Cell(k)' \in Stats
      BY <3>1 DEF Cell, TypeOK, HashTypeOK
    <3> QED
      BY <3>2, CountNat DEF TypeOK, Stats
  <2>5. r.own \in Nat /\ r.shown \in Nat /\ program.extra \in Nat
    BY <1>1, Parts DEF Run, TypeOK
  <2>6. r.own <= Cell(k)'.count
    BY <2>2, <2>3, <2>4, <2>5
  <2>7. ASSUME Reports, ~Some(todo, Reloading)
        PROVE  r.own + program.extra <= r.shown /\ r.shown <= calls'[k] + program.extra
    BY <2>2, <2>3, <2>4, <2>5, <2>7
  <2> QED
    BY <2>6, <2>7
<1>7. program' = program
  BY DEF Grows
<1>8. Reloaded(c)'
  BY <1>3, <1>5, <1>6, <1>7, ReloadedIs
<1> QED
  BY <1>2, <1>8, ReloadKeeps

(* The step in order, or the return.                                       *)
LEMMA ReloadedTail ==
    ASSUME TypeOK, TypeOK', TotalInv, ReloadInv, Grows, NEW c \in CPUs, run[c].todo # <<>>,
           Head(run[c].todo) # "reload", NEW r \in Run, r.key = run[c].key,
           r.ptr = run[c].ptr, r.own = run[c].own, r.shown = run[c].shown,
           GoOn(c, Tail(run[c].todo), r)
    PROVE  ReloadInv'
<1> DEFINE todo == Tail(run[c].todo)
<1>1. run[c].todo \in Seq(Steps) /\ todo \in Seq(Steps)
  BY TailKeeps
<1>2. Some(todo, Lookups) => Some(run[c].todo, Lookups)
  BY TailKeeps
<1>3. Some(run[c].todo, Reloading) => Some(todo, Reloading)
  BY <1>1, SomeParts DEF Reloading
<1>4. GoOn(c, todo, r)
  OBVIOUS
<1> HIDE DEF todo
<1> QED
  BY <1>1, <1>2, <1>3, <1>4, ReloadedSame

LEMMA ReloadedReturn ==
    ASSUME TypeOK, TypeOK', TotalInv, ReloadInv, Grows, NEW c \in CPUs, GoOn(c, <<>>, Idle)
    PROVE  ReloadInv'
<1>1. run' = [run EXCEPT ![c] = Idle] /\ run \in [CPUs -> Run]
  BY DEF GoOn, TypeOK
<1>2. run'[c] = Idle /\ \A b \in CPUs \ {c} : run'[b] = run[b]
  BY <1>1
<1>3. Idle.own = 0 /\ Idle.ptr = NoElem
  BY DEF Idle
<1>4. Reloaded(c)'
  BY <1>2, <1>3 DEF Reloaded
<1> QED
  BY <1>2, <1>4, ReloadKeeps

LEMMA CountBound ==
    ASSUME TypeOK, TotalInv, NEW k \in Keys \ lossy
    PROVE  Cell(k).count <= calls[k]
<1>1. "count" \in Fields /\ Kept(program, "count")
  BY DEF Fields, Kept
<1>2. Balanced("count", k)
  BY <1>1 DEF TotalInv, Accounted
<1>3. Cell(k)["count"] + Owed("count", k) = calls[k] /\ Cell(k)["count"] = Cell(k).count
  BY <1>2 DEF Balanced, Due
<1>4. Owed("count", k) \in Nat
  BY OwedIs
<1> QED
  BY <1>3, <1>4, CountNat

(* Where a profile loads the count again it changes it in place.           *)
LEMMA ReportsInPlace == program \in Programs /\ Reports => InPlace
<1> SUFFICES ASSUME program \in Programs, Reports, Does("copy") PROVE FALSE
  BY DEF InPlace
<1>1. program.hit = <<"copy", "insert">> /\ ~Has(program.after, "reload")
  BY ProgramAssumption DEF WellFormed, Does
<1>2. ~Has(<<"copy", "insert">>, "reload")
  BY DEF Has
<1> QED
  BY <1>1, <1>2 DEF Reports, Does

(* The lookups: what c makes of the count, and what it loads again, are    *)
(* still to come.                                                          *)
LEMMA LookedUpReloads ==
    ASSUME TypeOK, TypeOK', TotalInv, ReloadInv, Grows, NEW c \in CPUs, run[c].todo # <<>>,
           Some(run[c].todo, Lookups), NEW found \in {<<>>, program.miss, program.hit},
           NEW r \in Run, GoOn(c, found \o program.after, r), r.key = run[c].key,
           r.own = run[c].own, r.ptr # NoElem => found = program.hit
    PROVE  ReloadInv'
<1> DEFINE todo == found \o program.after
<1>1. run \in [CPUs -> Run] /\ program \in Programs
  BY DEF TypeOK
<1>2. /\ todo \in Seq(Steps)
      /\ found = program.hit /\ Reports => Some(todo, Reloading)
  BY <1>1, FoundInOrder DEF Reports, Does
<1>3. GoOn(c, todo, r)
  OBVIOUS
<1>4. PICK k \in Keys : k = run[c].key
  BY DEF TypeOK
<1>5. r.own = 0
  BY DEF ReloadInv, Reloaded
<1>6. Cell(k)'.count \in Nat
  <2>1. Zero \in Stats
    BY DEF Zero, Stats
  <2>2. Cell(k)' \in Stats
    BY <2>1 DEF Cell, TypeOK, HashTypeOK
  <2> QED
    BY <2>2 DEF Stats
<1>7. program' = program
  BY DEF Grows
<1> HIDE DEF todo
<1>8. InPlace /\ r.ptr # NoElem /\ k \notin lossy' =>
         /\ r.own <= Cell(k)'.count
         /\ Reports /\ ~Some(todo, Reloading) =>
               r.own + program.extra <= r.shown /\ r.shown <= calls'[k] + program.extra
  BY <1>2, <1>5, <1>6
<1>9. Reloaded(c)'
  BY <1>2, <1>3, <1>4, <1>5, <1>7, <1>8, ReloadedIs
<1>10. \A b \in CPUs \ {c} : run'[b] = run[b]
  BY <1>1, <1>2, <1>3, GoOnRun
<1> QED
  BY <1>9, <1>10, ReloadKeeps

LEMMA PositiveReloads ==
    ASSUME TypeOK, TypeOK', TotalInv, ReloadInv, Grows, NEW c \in CPUs, Positive(c)
    PROVE  ReloadInv'
<1> DEFINE s == run[c].todo
<1>1. s # <<>> /\ Head(s) = "positive" /\ run[c] \in Run /\ s \in Seq(Steps)
      /\ program \in Programs
  BY TailKeeps DEF Positive, At, TypeOK
<1>2. Ordered(program, s)
  BY DEF TotalInv, InOrder
<1>3. CASE GoOn(c, Tail(s), run[c])
  BY <1>1, <1>3, ReloadedTail
<1>4. CASE GoOn(c, program.after, run[c])
  <2>1. program.after \in Seq(Steps) /\ ~Some(program.after, Lookups)
    BY <1>1, Profile DEF Some, Lookups
  <2>2. Has(program.after, "reload") => Some(program.after, Reloading)
    BY DEF Has, Some, Reloading
  <2>3. ~Has(program.after, "reload") => ~Some(s, Reloading)
    <3>1. ~Has(program.after, "reload") => \A y \in Reloading : Clash(program, Head(s), y)
      BY <1>1 DEF Clash, Reloading
    <3>2. Some(s, Reloading) <=> Head(s) \in Reloading \/ Some(Tail(s), Reloading)
      BY <1>1, SomeParts
    <3>3. Head(s) \notin Reloading
      BY <1>1 DEF Reloading
    <3>4. ~Has(program.after, "reload") => ~Some(Tail(s), Reloading)
      BY <1>1, <1>2, <3>1, OrderedTail
    <3> QED
      BY <3>2, <3>3, <3>4
  <2> QED
    BY <1>1, <1>4, <2>1, <2>2, <2>3, ReloadedSame
<1> QED
  BY <1>3, <1>4 DEF Positive

LEMMA TestReloads ==
    ASSUME TypeOK, TypeOK', TotalInv, ReloadInv, Grows, NEW c \in CPUs, TestMin(c) \/ TestMax(c)
    PROVE  ReloadInv'
<1> DEFINE s == run[c].todo
<1>1. s # <<>> /\ Head(s) \in {"min", "max"} /\ run[c] \in Run /\ s \in Seq(Steps)
      /\ Tail(s) \in Seq(Steps)
  BY TailKeeps DEF TestMin, TestMax, At, TypeOK
<1>2. PICK x \in {"store min", "store max"} :
         GoOn(c, Tail(s), run[c]) \/ GoOn(c, <<x>> \o Tail(s), run[c])
  BY DEF TestMin, TestMax, GoOn
<1>3. CASE GoOn(c, Tail(s), run[c])
  BY <1>1, <1>3, ReloadedTail
<1>4. CASE GoOn(c, <<x>> \o Tail(s), run[c])
  <2> DEFINE t == Tail(s)
             u == <<x>>
             todo == u \o t
  <2>1. u \in Seq(Steps) /\ ~Some(u, Lookups) /\ t \in Seq(Steps)
    <3>1. x \in Steps /\ x \notin Lookups
      BY DEF Steps, Lookups
    <3> QED
      BY <1>1, <3>1, OneStep
  <2>2. Some(s, Reloading) => Some(t, Reloading)
    <3>1. Head(s) \notin Reloading
      BY <1>1 DEF Reloading
    <3> QED
      BY <1>1, <3>1, SomeParts
  <2>3. Some(t, Lookups) => Some(s, Lookups)
    BY <1>1, SomeTail
  <2>4. GoOn(c, todo, run[c])
    BY <1>4
  <2> HIDE DEF u, t
  <2>5. todo \in Seq(Steps) /\ (Some(todo, Lookups) => Some(t, Lookups))
    BY <2>1, SomeConcat
  <2>6. Some(t, Reloading) => Some(todo, Reloading)
    BY <2>1, SomeJoin
  <2> HIDE DEF todo
  <2>7. (Some(todo, Lookups) => Some(run[c].todo, Lookups))
        /\ (Some(run[c].todo, Reloading) => Some(todo, Reloading))
    BY <2>2, <2>3, <2>5, <2>6
  <2> QED
    BY <1>1, <2>4, <2>5, <2>7, ReloadedSame
<1> QED
  BY <1>2, <1>3, <1>4

LEMMA CountReloads ==
    ASSUME TypeOK, TypeOK', StatsInv, TotalInv, ReloadInv, Grows, NEW c \in CPUs, AddCount(c)
    PROVE  ReloadInv'
<1> DEFINE s == run[c].todo
           todo == Tail(s)
           p == run[c].ptr
           n == value[p].count + 1
           r == [run[c] EXCEPT !.own = n]
           w == [value[p] EXCEPT !["count"] = @ + 1]
<1>1. /\ s # <<>> /\ Head(s) = "count" /\ run[c] \in Run /\ s \in Seq(Steps)
      /\ todo \in Seq(Steps) /\ p \in Elems /\ run \in [CPUs -> Run]
      /\ value \in [Elems -> Stats] /\ entry' = entry /\ lossy' = lossy
      /\ value' = [value EXCEPT ![p] = w] /\ GoOn(c, todo, r)
  <2>1. s # <<>> /\ Head(s) = "count" /\ p \in Elems
    BY DEF AddCount, Add, At, TypeOK
  <2>2. entry' = entry /\ lossy' = lossy /\ value' = [value EXCEPT ![p] = w] /\ GoOn(c, todo, r)
    BY DEF AddCount, Add, Write, hist
  <2>3. run[c] \in Run /\ s \in Seq(Steps) /\ todo \in Seq(Steps)
    BY <2>1, TailKeeps
  <2> QED
    BY <2>1, <2>2, <2>3 DEF TypeOK, HashTypeOK
<1>2. InOrder(program, s) /\ Ordered(program, s)
  BY DEF TotalInv, InOrder
<1>3. n \in Nat /\ w.count = n
  <2>1. value[p] \in Stats
    BY <1>1
  <2> QED
    BY <2>1 DEF Stats
<1> HIDE DEF n
<1>4. r \in Run /\ r.key = run[c].key /\ r.ptr = p /\ r.own = n
  BY <1>1, <1>3 DEF Run
<1>5. PICK k \in Keys : k = run[c].key
  BY <1>1 DEF TypeOK
<1>6. Some(s, Counting) /\ Some(s, Adding)
  BY <1>1, SomeTail DEF Counting, Adding
<1>7. k \notin lossy => p = entry[k]
  <2>1. InPlace
    BY <1>2, <1>6 DEF InOrder, InPlace, Does
  <2>2. Pointers
    BY <2>1 DEF StatsInv
  <2> QED
    BY <1>1, <1>5, <2>2 DEF Pointers, Elems
<1>8. k \notin lossy => Cell(k)'.count = n
  <2>1. NoElem \notin Elems
    BY DEF Elems
  <2> HIDE DEF w
  <2> QED
    BY <1>1, <1>3, <1>7, <2>1 DEF Cell
<1>9. ~Some(todo, Lookups)
  <2>1. \A y \in Lookups : Clash(program, Head(s), y)
    <3>1. "count" \in Owing(program, "count") /\ "relookup" \in Owing(program, "count")
          /\ "count" \in Fields
      BY OwingIs DEF Fields
    <3>2. Clash(program, "count", "relookup") /\ Clash(program, "count", "lookup")
      BY <3>1 DEF Clash
    <3> QED
      BY <1>1, <3>2 DEF Lookups
  <2> QED
    BY <1>1, <1>2, <2>1, OrderedTail
<1>10. Reports => Some(todo, Reloading)
  <2>1. Reports => Some(s, Reloading)
    BY <1>2, <1>6 DEF InOrder, Reports, Does
  <2>2. Head(s) \notin Reloading
    BY <1>1 DEF Reloading
  <2> QED
    BY <1>1, <2>1, <2>2, SomeParts
<1> HIDE DEF s, todo, p, r, w
<1>11. InPlace /\ r.ptr # NoElem /\ k \notin lossy' =>
         /\ r.own <= Cell(k)'.count
         /\ Reports /\ ~Some(todo, Reloading) =>
               r.own + program.extra <= r.shown /\ r.shown <= calls'[k] + program.extra
  BY <1>1, <1>3, <1>4, <1>8, <1>10
<1>12. program' = program
  BY DEF Grows
<1>13. Reloaded(c)'
  BY <1>1, <1>4, <1>5, <1>9, <1>11, <1>12, ReloadedIs
<1>14. \A b \in CPUs \ {c} : run'[b] = run[b]
  BY <1>1, <1>4, GoOnRun
<1> QED
  BY <1>13, <1>14, ReloadKeeps

LEMMA ReloadReloads ==
    ASSUME TypeOK, TypeOK', StatsInv, TotalInv, ReloadInv, Grows, NEW c \in CPUs, Reload(c)
    PROVE  ReloadInv'
<1> DEFINE s == run[c].todo
           todo == Tail(s)
           p == run[c].ptr
           n == IF p = NoElem THEN 1 ELSE value[p].count + program.extra
           r == [run[c] EXCEPT !.shown = n]
<1>1. /\ s # <<>> /\ run[c] \in Run /\ s \in Seq(Steps) /\ todo \in Seq(Steps)
      /\ run \in [CPUs -> Run] /\ GoOn(c, todo, r) /\ UNCHANGED <<program, hashVars, hist>>
  BY TailKeeps DEF Reload, At, TypeOK
<1>2. program.extra \in Nat /\ p \in Elems \cup {NoElem}
  BY <1>1, Profile DEF TypeOK, Run
<1>3. n \in Nat
  <2>1. p # NoElem => value[p].count \in Nat
    BY <1>2 DEF TypeOK, HashTypeOK, Stats
  <2> QED
    BY <1>2, <2>1
<1>4. p # NoElem => n = value[p].count + program.extra
  OBVIOUS
<1> HIDE DEF n
<1>5. r \in Run /\ r.key = run[c].key /\ r.ptr = p /\ r.own = run[c].own /\ r.shown = n
      /\ r.own \in Nat
  BY <1>1, <1>3 DEF Run
<1>6. PICK k \in Keys : k = run[c].key
  BY <1>1 DEF TypeOK
<1>7. Reloaded(c)
  BY DEF ReloadInv
<1>8. Some(todo, Lookups) => r.own = 0
  <2>1. Some(todo, Lookups) => Some(s, Lookups)
    BY <1>1, SomeTail
  <2> QED
    BY <1>5, <1>7, <2>1 DEF Reloaded
<1> HIDE DEF s, todo, p, r
<1>9. ASSUME InPlace, r.ptr # NoElem, k \notin lossy'
      PROVE  /\ r.own <= Cell(k)'.count
             /\ r.own + program.extra <= r.shown /\ r.shown <= calls'[k] + program.extra
  <2>1. k \notin lossy /\ calls' = calls /\ Cell(k)' = Cell(k)
    BY <1>1, <1>9 DEF hist, hashVars, Cell
  <2>2. p = entry[k] /\ p # NoElem
    BY <1>5, <1>6, <1>9, <2>1 DEF StatsInv, Pointers, p
  <2>3. n = Cell(k).count + program.extra
    BY <1>4, <2>2 DEF Cell
  <2>4. r.own <= Cell(k).count
    BY <1>5, <1>6, <1>7, <1>9, <2>1 DEF Reloaded, p
  <2>5. Cell(k).count <= calls[k] /\ Cell(k).count \in Nat /\ calls[k] \in Nat
    BY <2>1, CountBound, CountNat
  <2> QED
    BY <1>2, <1>5, <2>1, <2>3, <2>4, <2>5
<1>10. program' = program
  BY <1>1
<1>11. Reloaded(c)'
  BY <1>1, <1>5, <1>6, <1>8, <1>9, <1>10, ReloadedIs
<1>12. \A b \in CPUs \ {c} : run'[b] = run[b]
  BY <1>1, <1>5, GoOnRun
<1> QED
  BY <1>11, <1>12, ReloadKeeps

LEMMA StepGrows == TypeOK /\ StatsInv /\ [Next]_vars => Grows
<1> SUFFICES ASSUME TypeOK, StatsInv, [Next]_vars PROVE Grows
  OBVIOUS
<1>1. value \in [Elems -> Stats] /\ calls \in [Keys -> Nat]
      /\ \A e \in Elems : value[e].count \in Nat
  BY DEF TypeOK, HashTypeOK, Stats
<1>2. \A k \in Keys : calls[k] <= calls[k]
  BY <1>1
<1>3. \A e \in Elems : value[e].count <= value[e].count
  BY <1>1
<1>4. CASE UNCHANGED <<program, hashVars, hist>>
  <2>1. UNCHANGED <<program, entry, lossy>> /\ calls' = calls /\ value' = value
    BY <1>4 DEF hashVars, hist
  <2> QED
    BY <1>2, <1>3, <2>1, GrowsInPlace
<1>5. ASSUME NEW c \in CPUs, Lookup(c) PROVE Grows
  <2>1. UNCHANGED <<program, entry, lossy>> /\ value' = value
        /\ calls' = [calls EXCEPT ![run[c].key] = @ + 1]
    BY <1>5 DEF Lookup, hashVars
  <2>2. \A k \in Keys : calls[k] <= calls'[k]
    BY <1>1, <2>1
  <2> QED
    BY <1>3, <2>1, <2>2, GrowsInPlace
<1>6. ASSUME NEW c \in CPUs, NEW p \in Elems, NEW g \in {"count", "classed", "total", "min", "max"},
             NEW n \in Nat, g # "count" \/ value[p].count <= n,
             Write(p, [value[p] EXCEPT ![g] = n]), UNCHANGED <<program, hist>>
      PROVE  Grows
  <2> DEFINE w == [value[p] EXCEPT ![g] = n]
  <2>1. UNCHANGED <<program, entry, lossy>> /\ calls' = calls /\ value' = [value EXCEPT ![p] = w]
    BY <1>6 DEF Write, hist
  <2>2. value[p].count <= w.count
    <3>1. value[p] \in Stats
      BY <1>1
    <3> QED
      BY <1>1, <1>6, <3>1 DEF Stats
  <2> HIDE DEF w
  <2>3. \A e \in Elems : value[e].count <= value'[e].count
    BY <1>1, <1>3, <2>1, <2>2
  <2> QED
    BY <1>2, <2>1, <2>3, GrowsInPlace
<1>7. ASSUME NEW c \in CPUs, NEW x \in {"count", "class", "total"},
             NEW g \in {"count", "classed", "total"}, NEW n \in Nat, Add(c, x, g, n)
      PROVE  Grows
  <2> DEFINE p == run[c].ptr
             m == value[p][g] + n
  <2>1. p \in Elems /\ Write(p, [value[p] EXCEPT ![g] = @ + n]) /\ UNCHANGED <<program, hist>>
    BY <1>7 DEF Add, At, TypeOK
  <2>2. value[p][g] \in Nat
    BY <1>1, <2>1, FieldNat DEF Fields
  <2>3. m \in Nat /\ (g = "count" => value[p].count <= m)
    BY <2>2
  <2>4. Write(p, [value[p] EXCEPT ![g] = m])
    BY <2>1
  <2> HIDE DEF m
  <2> QED
    BY <1>6, <2>1, <2>3, <2>4
<1>8. ASSUME NEW c \in CPUs, AddCount(c) \/ AddClass(c) \/ AddTotal(c) PROVE Grows
  <2>1. run[c].amount \in Nat
    BY AmountNat
  <2>2. Add(c, "count", "count", 1) \/ Add(c, "class", "classed", 1)
        \/ Add(c, "total", "total", run[c].amount)
    BY <1>8 DEF AddCount, AddClass, AddTotal
  <2> QED
    BY <1>7, <2>1, <2>2
<1>9. ASSUME NEW c \in CPUs, StoreMin(c) \/ StoreMax(c) PROVE Grows
  <2>1. PICK g \in {"min", "max"} :
           /\ run[c].ptr \in Elems /\ UNCHANGED <<program, hist>>
           /\ Write(run[c].ptr, [value[run[c].ptr] EXCEPT ![g] = run[c].amount])
    BY <1>9 DEF StoreMin, StoreMax, Store, At, TypeOK
  <2>2. run[c].amount \in Nat
    BY AmountNat
  <2> QED
    BY <1>6, <2>1, <2>2
<1>10. ASSUME NEW c \in CPUs, Insert(c) PROVE Grows
  BY <1>10, InsertGrows
<1>11. ASSUME NEW c \in CPUs, \/ Reserve(c) \/ Submit(c) \/ Relookup(c) \/ Copy(c) \/ Positive(c)
                              \/ TestMin(c) \/ TestMax(c) \/ Sample(c) \/ Reload(c)
                              \/ \E k \in Keys : Start(c, k)
       PROVE  Grows
  BY <1>4, <1>11 DEF Reserve, Submit, Relookup, Copy, Positive, TestMin, TestMax, Sample, Reload,
                     Start
<1>12. CASE UNCHANGED vars
  BY <1>4, <1>12 DEF vars
<1> QED
  BY <1>5, <1>8, <1>9, <1>10, <1>11, <1>12 DEF Next, RunStep

LEMMA ReloadInvStep ==
    TypeOK /\ TypeOK' /\ StatsInv /\ TotalInv /\ ReloadInv /\ [Next]_vars => ReloadInv'
<1> SUFFICES ASSUME TypeOK, TypeOK', StatsInv, TotalInv, ReloadInv, [Next]_vars PROVE ReloadInv'
  OBVIOUS
<1>0. run \in [CPUs -> Run] /\ program \in Programs /\ Grows
  BY StepGrows DEF TypeOK
<1>1. ASSUME NEW c \in CPUs, NEW k \in Keys, Start(c, k) PROVE ReloadInv'
  <2>1. PICK todo \in Seq(Steps), a \in Amounts \cup {0} :
           run' = [run EXCEPT ![c] = Started(todo, k, a)]
    BY <1>1, StartRun
  <2>2. run'[c].own = 0 /\ run'[c].ptr = NoElem /\ \A b \in CPUs \ {c} : run'[b] = run[b]
    BY <1>0, <2>1 DEF Started
  <2>3. Reloaded(c)'
    BY <2>2 DEF Reloaded
  <2> QED
    BY <1>0, <2>2, <2>3, ReloadKeeps
<1>2. ASSUME NEW c \in CPUs, NEW x \in {"reserve", "submit", "sample", "insert", "class", "total",
                                         "store min", "store max"},
             At(c, x), Proceed(c) \/ GoOn(c, <<>>, Idle)
      PROVE  ReloadInv'
  <2>1. run[c].todo # <<>> /\ Head(run[c].todo) # "reload" /\ run[c] \in Run
    BY <1>0, <1>2 DEF At
  <2> QED
    BY <1>0, <1>2, <2>1, ReloadedTail, ReloadedReturn DEF Proceed
<1>3. ASSUME NEW c \in CPUs, \/ Reserve(c) \/ Submit(c) \/ Sample(c) \/ Insert(c) \/ AddClass(c)
                             \/ AddTotal(c) \/ StoreMin(c) \/ StoreMax(c)
      PROVE  ReloadInv'
  <2>1. PICK x \in {"reserve", "submit", "sample", "insert", "class", "total",
                    "store min", "store max"} :
           At(c, x) /\ (Proceed(c) \/ GoOn(c, <<>>, Idle))
    BY <1>3 DEF Reserve, Submit, Sample, Insert, AddClass, AddTotal, Add, StoreMin, StoreMax, Store
  <2> QED
    BY <1>2, <2>1
<1>4. ASSUME NEW c \in CPUs, Lookup(c) \/ Relookup(c) PROVE ReloadInv'
  <2> DEFINE e == entry[run[c].key]
             r == [run[c] EXCEPT !.ptr = e]
  <2>1. PICK found \in {<<>>, program.miss, program.hit} :
           GoOn(c, found \o program.after, r) /\ (e # NoElem => found = program.hit)
    BY <1>4 DEF Lookup, Relookup
  <2>2. PICK x \in {"lookup", "relookup"} : At(c, x)
    BY <1>4 DEF Lookup, Relookup
  <2>3. run[c].todo # <<>> /\ Some(run[c].todo, Lookups) /\ run[c] \in Run /\ run[c].key \in Keys
    <3>1. x \in Lookups
      BY DEF Lookups
    <3> QED
      BY <1>0, <2>2, <3>1, HeadSome, TailKeeps
  <2>4. r \in Run /\ r.key = run[c].key /\ r.own = run[c].own /\ r.ptr = e
    <3>1. e \in Elems \cup {NoElem}
      BY <2>3 DEF TypeOK, HashTypeOK
    <3> HIDE DEF e
    <3> QED
      BY <2>3, <3>1 DEF Run
  <2> HIDE DEF e, r
  <2>5. r.ptr # NoElem => found = program.hit
    BY <2>1, <2>4
  <2> QED
    BY <1>0, <2>1, <2>3, <2>4, <2>5, LookedUpReloads
<1>5. ASSUME NEW c \in CPUs, Copy(c) PROVE ReloadInv'
  <2> DEFINE r == [run[c] EXCEPT !.base = value[run[c].ptr]]
  <2>1. run[c] \in Run /\ run[c].todo # <<>> /\ run[c].ptr \in Elems
        /\ Head(run[c].todo) # "reload"
    BY <1>0, <1>5 DEF Copy, At, TypeOK
  <2>2. r \in Run /\ r.key = run[c].key /\ r.ptr = run[c].ptr /\ r.own = run[c].own
        /\ r.shown = run[c].shown
    <3>1. value[run[c].ptr] \in Stats
      BY <2>1 DEF TypeOK, HashTypeOK
    <3> QED
      BY <2>1, <3>1 DEF Run
  <2>3. GoOn(c, Tail(run[c].todo), r)
    BY <1>5 DEF Copy
  <2> HIDE DEF r
  <2> QED
    BY <1>0, <2>1, <2>2, <2>3, ReloadedTail
<1>6. ASSUME NEW c \in CPUs, AddCount(c) PROVE ReloadInv'
  BY <1>0, <1>6, CountReloads
<1>7. ASSUME NEW c \in CPUs, Positive(c) PROVE ReloadInv'
  BY <1>0, <1>7, PositiveReloads
<1>8. ASSUME NEW c \in CPUs, TestMin(c) \/ TestMax(c) PROVE ReloadInv'
  BY <1>0, <1>8, TestReloads
<1>9. ASSUME NEW c \in CPUs, Reload(c) PROVE ReloadInv'
  BY <1>0, <1>9, ReloadReloads
<1>10. CASE UNCHANGED vars
  <2>1. UNCHANGED <<program, run, entry, value, calls, lossy>>
    BY <1>10 DEF vars, hashVars, hist
  <2> QED
    BY <2>1 DEF ReloadInv, Reloaded, InPlace, Reports, Does, Cell
<1> QED
  BY <1>1, <1>3, <1>4, <1>5, <1>6, <1>7, <1>8, <1>9, <1>10 DEF Next, RunStep

(* A count that is loaded again for the event is not below the one this    *)
(* call made it, and not above the calls there have been (but for the 1    *)
(* that S2 fentry adds to it), as long as the key has lost nothing: the    *)
(* element the call still points to is the key's, and what is in it is     *)
(* accounted for (TotalInv).                                               *)
THEOREM ReloadCorrect == Spec => []ReloadBounds
<1>1. Init => TypeOK /\ PointerTyped /\ StatsInv /\ TotalInv /\ ReloadInv
  <2> SUFFICES ASSUME Init PROVE ReloadInv
    BY StatsInvInit, TotalInvInit
  <2>1. \A c \in CPUs : run[c] = Idle
    BY DEF Init
  <2>2. Idle.own = 0 /\ Idle.ptr = NoElem
    BY DEF Idle
  <2> QED
    BY <2>1, <2>2 DEF ReloadInv, Reloaded
<1>2. TypeOK /\ PointerTyped /\ StatsInv /\ TotalInv /\ ReloadInv /\ [Next]_vars
         => (TypeOK /\ PointerTyped /\ StatsInv /\ TotalInv /\ ReloadInv)'
  BY StatsTypeStep, StatsInvStep, TotalInvStep, ReloadInvStep
<1>3. TypeOK /\ TotalInv /\ ReloadInv => ReloadBounds
  <2> SUFFICES ASSUME TypeOK, TotalInv, ReloadInv, NEW c \in CPUs, At(c, "submit"), Reports,
                      run[c].ptr # NoElem, run[c].key \notin lossy
               PROVE  /\ run[c].own + program.extra <= run[c].shown
                      /\ run[c].shown <= calls[run[c].key] + program.extra
    BY DEF ReloadBounds
  <2> DEFINE s == run[c].todo
  <2>1. s # <<>> /\ Head(s) = "submit" /\ s \in Seq(Steps)
    BY TailKeeps DEF At
  <2>2. Ordered(program, s)
    BY DEF TotalInv, InOrder
  <2>3. ~Some(s, Reloading)
    <3>1. \A y \in Reloading : Clash(program, Head(s), y)
      BY <2>1 DEF Clash, Reloading
    <3>2. Head(s) \notin Reloading
      BY <2>1 DEF Reloading
    <3>3. ~Some(Tail(s), Reloading)
      BY <2>1, <2>2, <3>1, OrderedTail
    <3> QED
      BY <2>1, <3>2, <3>3, SomeParts
  <2>4. InPlace
    BY ReportsInPlace DEF TypeOK
  <2> QED
    BY <2>3, <2>4 DEF ReloadInv, Reloaded
<1> QED
  BY <1>1, <1>2, <1>3, PTL DEF Spec
=============================================================================
