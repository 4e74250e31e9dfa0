------------------------ MODULE PerCpuCounter_proofs ------------------------
(***************************************************************************)
(* What is proved about the per-CPU counters and their readers, for any    *)
(* number of CPUs and any set of profiles: the program and its loader      *)
(* implement CounterService.                                               *)
(***************************************************************************)
EXTENDS PerCpuCounter, TLAPS

USE PerCpuAssumption

LEMMA ProfileTyped ==
    ASSUME prog \in Programs
    PROVE  /\ prog.names \in Seq(STRING) /\ prog.names # <<>>
           /\ Len(prog.names) \in Nat \ {0} /\ DOMAIN prog.names = 1..Len(prog.names)
           /\ \A i \in DOMAIN prog.names : prog.names[i] \in Names
           /\ \A e \in Events : prog.index[e] \in Names /\ prog.is[e] \in Names
           /\ prog.firstOnly \in BOOLEAN
           /\ ToRead \in 1..NumCPUs
<1>1. WellFormed(prog)
  BY ProfileAssumption
<1>2. NamesOf(prog) \subseteq Names
  BY DEF Names
<1>3. prog.names \in Seq(STRING) /\ prog.names # <<>> /\ prog.firstOnly \in BOOLEAN
  BY <1>1 DEF WellFormed
<1>4. Len(prog.names) \in Nat \ {0} /\ DOMAIN prog.names = 1..Len(prog.names)
  BY <1>3
<1>5. \A i \in DOMAIN prog.names : prog.names[i] \in Names
  BY <1>2 DEF NamesOf
<1>6. \A e \in Events : prog.index[e] \in Names /\ prog.is[e] \in Names
  BY <1>1, <1>2 DEF WellFormed, Events
<1>7. ToRead \in 1..NumCPUs
  BY DEF ToRead
<1> QED
  BY <1>3, <1>4, <1>5, <1>6, <1>7

LEMMA NoneIsNoName == "none" \notin Names
BY ProfileAssumption DEF Names, WellFormed

LEMMA TypeInit == Init => TypeOK
<1> SUFFICES ASSUME Init PROVE TypeOK
  OBVIOUS
<1>1. 1 \in DOMAIN prog.names /\ 0 \in 0..ToRead
  BY ProfileTyped DEF Init
<1> QED
  BY <1>1 DEF Init, TypeOK

LEMMA TypeStep == TypeOK /\ [Next]_vars => TypeOK'
<1> SUFFICES ASSUME TypeOK, [Next]_vars PROVE TypeOK'
  OBVIOUS
<1>0. Current \in Names /\ ToRead \in 1..NumCPUs /\ got \in Nat
      /\ DOMAIN prog.names = 1..Len(prog.names) /\ Len(prog.names) \in Nat \ {0}
      /\ key \in 1..Len(prog.names)
  BY ProfileTyped DEF TypeOK, Current
<1>01. prog' = prog => ToRead' = ToRead
  BY DEF ToRead
<1>1. ASSUME NEW c \in CPUs, NEW e \in Events, Fire(c, e) PROVE TypeOK'
  <2>1. prog.index[e] \in Names /\ prog.is[e] \in Names
    BY ProfileTyped DEF TypeOK
  <2>2. copy' \in [Names -> [CPUs -> Nat]] /\ hits' \in [Names -> Nat]
    BY <1>1, <2>1 DEF Fire, TypeOK
  <2> QED
    BY <1>01, <1>1, <2>2 DEF Fire, TypeOK, reader
<1>2. CASE ReadCopy
  <2>1. got \in CPUs /\ got + 1 \in 0..ToRead
    BY <1>0, <1>2 DEF ReadCopy, CPUs
  <2>2. copy[Current][got] \in Nat
    BY <1>0, <2>1 DEF TypeOK
  <2>3. low' \in Nat
    BY <1>0, <1>2 DEF ReadCopy, TypeOK
  <2> QED
    BY <1>01, <1>2, <2>1, <2>2, <2>3 DEF ReadCopy, TypeOK
<1>3. CASE PrintSum
  <2>1. key' \in DOMAIN prog.names
    BY <1>0, <1>3 DEF PrintSum
  <2>2. 0 \in 0..ToRead
    BY <1>0
  <2>3. printed' \in [Names -> Nat]
    BY <1>0, <1>3 DEF PrintSum, TypeOK
  <2> QED
    BY <1>01, <1>3, <2>1, <2>2, <2>3 DEF PrintSum, TypeOK
<1>4. CASE UNCHANGED vars
  BY <1>4 DEF vars, reader, TypeOK, ToRead
<1> QED
  BY <1>1, <1>2, <1>3, <1>4 DEF Next

(* The types are as declared; in particular the loader never asks for a    *)
(* name or a copy that is not there.                                       *)
THEOREM TypeCorrect == Spec => []TypeOK
<1> QED
  BY TypeInit, TypeStep, PTL DEF Spec
-----------------------------------------------------------------------------
(* The sum.                                                                *)

(* below[i] is what the first i CPUs have counted of n.                    *)
Below(n, below) ==
    /\ below \in [0..NumCPUs -> Nat] /\ below[0] = 0
    /\ \A c \in CPUs : below[c + 1] = below[c] + copy[n][c]
    /\ below[NumCPUs] = hits[n]

(* The copies that have been read have not become smaller, and those still *)
(* to be read are not below what they were when the reading began.         *)
ReadSoFar(below) ==
    /\ sum <= below[got]
    /\ got > 0 => low + below[got] <= sum + hits[Current]

SumInv ==
    /\ \A n \in Names : \E below : Below(n, below) /\ (n = Current => ReadSoFar(below))
    /\ got = 0 => sum = 0

(* A count printed before is not above what was there at the next question.*)
PrintedInv ==
    \A n \in Names : printed[n] <= hits[n] /\ (n = Current /\ got > 0 => printed[n] <= low)

LEMMA SumInit == (\A p \in Programs : Sums(p)) /\ Init => SumInv /\ PrintedInv
<1> SUFFICES ASSUME \A p \in Programs : Sums(p), Init PROVE SumInv /\ PrintedInv
  OBVIOUS
<1> DEFINE zero == [i \in 0..NumCPUs |-> 0]
<1>1. ASSUME NEW n \in Names PROVE Below(n, zero) /\ ReadSoFar(zero)
  BY <1>1 DEF Init, Below, ReadSoFar, CPUs
<1> HIDE DEF zero
<1>2. SumInv
  BY <1>1 DEF SumInv, Init
<1>3. PrintedInv
  BY DEF PrintedInv, Init
<1> QED
  BY <1>2, <1>3

LEMMA SumFire ==
    ASSUME TypeOK, SumInv, Sums(prog), NEW c \in CPUs, NEW e \in Events, Fire(c, e)
    PROVE  SumInv'
<1> DEFINE m == prog.index[e]
<1>1. /\ m \in Names /\ prog.is[e] = m /\ Current \in Names /\ got \in 0..NumCPUs
      /\ UNCHANGED <<prog, key, got, sum, low>>
  BY ProfileTyped DEF TypeOK, Sums, Fire, reader, Current
<1>2. Current' = Current
  BY <1>1 DEF Current
<1>3. /\ copy'[m][c] = copy[m][c] + 1 /\ hits'[m] = hits[m] + 1
      /\ \A d \in CPUs \ {c} : copy'[m][d] = copy[m][d]
      /\ \A n \in Names \ {m} : copy'[n] = copy[n] /\ hits'[n] = hits[n]
  BY <1>1 DEF Fire, TypeOK
<1> HIDE DEF m
<1>4. ASSUME NEW n \in Names
      PROVE  \E below : Below(n, below)' /\ (n = Current => ReadSoFar(below)')
  <2>1. PICK below : Below(n, below) /\ (n = Current => ReadSoFar(below))
    BY DEF SumInv
  <2>2. CASE n # m
    <3>1. Below(n, below)'
      BY <1>3, <2>1, <2>2 DEF Below
    <3>2. n = Current => ReadSoFar(below)'
      BY <1>1, <1>2, <1>3, <2>1, <2>2 DEF ReadSoFar
    <3> QED
      BY <3>1, <3>2
  <2>3. CASE n = m
    <3> DEFINE after == [i \in 0..NumCPUs |-> IF i > c THEN below[i] + 1 ELSE below[i]]
    <3>1. /\ after \in [0..NumCPUs -> Nat]
          /\ \A i \in 0..NumCPUs : after[i] = IF i > c THEN below[i] + 1 ELSE below[i]
      BY <2>1 DEF Below, CPUs
    <3> HIDE DEF after
    <3>2. after[0] = 0 /\ after[NumCPUs] = hits'[n]
      BY <1>3, <2>1, <2>3, <3>1 DEF Below, CPUs
    <3>3. ASSUME NEW d \in CPUs PROVE after[d + 1] = after[d] + copy'[n][d]
      <4>1. /\ d \in 0..NumCPUs /\ d + 1 \in 0..NumCPUs /\ d \in Nat /\ c \in Nat
            /\ below[d + 1] = below[d] + copy[n][d] /\ copy[n][d] \in Nat
            /\ below[d] \in Nat /\ below[d + 1] \in Nat
        <5>1. /\ d \in 0..NumCPUs /\ d + 1 \in 0..NumCPUs /\ d \in Nat /\ c \in Nat
          BY DEF CPUs
        <5>2. below \in [0..NumCPUs -> Nat] /\ below[d + 1] = below[d] + copy[n][d]
          BY <2>1 DEF Below
        <5>3. copy[n][d] \in Nat
          BY DEF TypeOK
        <5> QED
          BY <5>1, <5>2, <5>3
      <4>2. /\ after[d + 1] = IF d + 1 > c THEN below[d + 1] + 1 ELSE below[d + 1]
            /\ after[d] = IF d > c THEN below[d] + 1 ELSE below[d]
        BY <3>1, <4>1
      <4>3. CASE d = c
        <5>1. copy'[n][d] = copy[n][d] + 1
          BY <1>3, <2>3, <4>3
        <5>2. after[d + 1] = below[d + 1] + 1 /\ after[d] = below[d]
          BY <4>1, <4>2, <4>3
        <5> QED
          BY <4>1, <5>1, <5>2
      <4>4. CASE d # c
        <5>1. copy'[n][d] = copy[n][d]
          BY <1>3, <2>3, <4>4
        <5>2. d + 1 > c <=> d > c
          BY <4>1, <4>4
        <5> QED
          BY <4>1, <4>2, <5>1, <5>2
      <4> QED
        BY <4>3, <4>4
    <3>4. Below(n, after)'
      BY <3>1, <3>2, <3>3 DEF Below
    <3>5. ASSUME n = Current PROVE ReadSoFar(after)'
      <4>1. /\ ReadSoFar(below) /\ after[got] \in {below[got], below[got] + 1}
            /\ below[got] \in Nat /\ sum \in Nat /\ low \in Nat /\ hits[Current] \in Nat
            /\ hits'[Current] = hits[Current] + 1
        BY <1>1, <1>3, <2>1, <2>3, <3>1, <3>5 DEF Below, TypeOK
      <4> QED
        BY <1>1, <1>2, <4>1 DEF ReadSoFar
    <3> QED
      BY <3>4, <3>5
  <2> QED
    BY <2>2, <2>3
<1> QED
  BY <1>1, <1>2, <1>4 DEF SumInv

LEMMA SumRead ==
    ASSUME TypeOK, SumInv, ReadCopy
    PROVE  SumInv'
<1>1. /\ Current \in Names /\ got \in CPUs /\ got' = got + 1 /\ sum' = sum + copy[Current][got]
      /\ low' = (IF got = 0 THEN hits[Current] ELSE low)
      /\ UNCHANGED <<copy, hits>> /\ Current' = Current
  BY ProfileTyped DEF TypeOK, ReadCopy, Current, CPUs
<1>2. ASSUME NEW n \in Names
      PROVE  \E below : Below(n, below)' /\ (n = Current => ReadSoFar(below)')
  <2>1. PICK below : Below(n, below) /\ (n = Current => ReadSoFar(below))
    BY DEF SumInv
  <2>2. Below(n, below)'
    BY <1>1, <2>1 DEF Below
  <2>3. ASSUME n = Current PROVE ReadSoFar(below)'
    <3>1. /\ got \in Nat /\ copy[n][got] \in Nat /\ sum \in Nat /\ low \in Nat /\ hits[n] \in Nat
      BY <1>1 DEF TypeOK, CPUs
    <3>2. /\ below[got + 1] = below[got] + copy[n][got]
          /\ below[got] \in Nat /\ below[0] = 0
      BY <1>1, <2>1 DEF Below, CPUs
    <3>3. got = 0 => sum = 0
      BY DEF SumInv
    <3> QED
      BY <1>1, <2>1, <2>3, <3>1, <3>2, <3>3 DEF ReadSoFar
  <2> QED
    BY <2>2, <2>3
<1> QED
  BY <1>1, <1>2 DEF SumInv, CPUs

LEMMA SumPrint ==
    ASSUME TypeOK, SumInv, PrintSum
    PROVE  SumInv'
<1>1. got' = 0 /\ sum' = 0 /\ UNCHANGED <<copy, hits>>
  BY DEF PrintSum
<1>2. ASSUME NEW n \in Names
      PROVE  \E below : Below(n, below)' /\ ReadSoFar(below)'
  <2>1. PICK below : Below(n, below)
    BY DEF SumInv
  <2>2. Below(n, below)'
    BY <1>1, <2>1 DEF Below
  <2>3. ReadSoFar(below)'
    BY <1>1, <2>1 DEF Below, ReadSoFar
  <2> QED
    BY <2>2, <2>3
<1> QED
  BY <1>1, <1>2 DEF SumInv

(* The sum about to be printed is a count that there was meanwhile.        *)
LEMMA SumBounds ==
    ASSUME TypeOK, SumInv, Sums(prog), got = ToRead
    PROVE  low <= sum /\ sum <= hits[Current]
<1>1. Current \in Names /\ got = NumCPUs /\ got > 0
  BY ProfileTyped DEF TypeOK, Current, Sums, ToRead
<1>2. PICK below : Below(Current, below) /\ ReadSoFar(below)
  BY <1>1 DEF SumInv
<1>3. below[got] = hits[Current] /\ hits[Current] \in Nat /\ low \in Nat /\ sum \in Nat
  BY <1>1, <1>2 DEF Below, TypeOK
<1> QED
  BY <1>1, <1>2, <1>3 DEF ReadSoFar

LEMMA SumStep ==
    (\A p \in Programs : Sums(p)) /\ TypeOK /\ SumInv /\ PrintedInv /\ [Next]_vars
        => SumInv' /\ PrintedInv'
<1> SUFFICES ASSUME \A p \in Programs : Sums(p), TypeOK, SumInv, PrintedInv, [Next]_vars
             PROVE  SumInv' /\ PrintedInv'
  OBVIOUS
<1>0. Sums(prog) /\ Current \in Names
  BY ProfileTyped DEF TypeOK, Current
<1>1. ASSUME NEW c \in CPUs, NEW e \in Events, Fire(c, e) PROVE SumInv' /\ PrintedInv'
  <2>1. prog.is[e] \in Names
    BY ProfileTyped DEF TypeOK
  <2>2. \A n \in Names : hits'[n] \in {hits[n], hits[n] + 1} /\ hits[n] \in Nat /\ printed[n] \in Nat
    BY <1>1, <2>1 DEF Fire, TypeOK
  <2>3. UNCHANGED <<printed, low, got>> /\ Current' = Current
    BY <1>1 DEF Fire, reader, Current
  <2>4. PrintedInv'
    BY <2>2, <2>3 DEF PrintedInv
  <2> QED
    BY <1>0, <1>1, <2>4, SumFire
<1>2. CASE ReadCopy
  <2>1. UNCHANGED <<printed, hits>> /\ Current' = Current
        /\ low' = (IF got = 0 THEN hits[Current] ELSE low) /\ got \in Nat
    BY <1>2, ProfileTyped DEF ReadCopy, Current, TypeOK
  <2>2. PrintedInv'
    BY <1>0, <2>1 DEF PrintedInv
  <2> QED
    BY <1>2, <2>2, SumRead
<1>3. CASE PrintSum
  <2>1. sum <= hits[Current]
    BY <1>0, <1>3, SumBounds DEF PrintSum
  <2>2. /\ printed'[Current] = sum /\ \A n \in Names \ {Current} : printed'[n] = printed[n]
        /\ hits' = hits /\ got' = 0
    BY <1>0, <1>3 DEF PrintSum, TypeOK
  <2>3. PrintedInv'
    BY <1>0, <2>1, <2>2 DEF PrintedInv
  <2> QED
    BY <1>3, <2>3, SumPrint
<1>4. CASE UNCHANGED vars
  BY <1>4 DEF vars, reader, SumInv, PrintedInv, Below, ReadSoFar, Current
<1> QED
  BY <1>1, <1>2, <1>3, <1>4 DEF Next

(* The step of CounterService that a step of the program or the loader is. *)
LEMMA ServiceStep ==
    (\A p \in Programs : Sums(p)) /\ TypeOK /\ SumInv /\ [Next]_vars
        => [Service!Next]_Service!vars
<1> SUFFICES ASSUME \A p \in Programs : Sums(p), TypeOK, SumInv, [Next]_vars
             PROVE  [Service!Next]_Service!vars
  OBVIOUS
<1> DEFINE asked == IF got = 0 THEN "none" ELSE Current
<1>0. /\ Sums(prog) /\ Current \in Names /\ Current # "none" /\ got \in Nat
      /\ ToRead \in 1..NumCPUs
  BY ProfileTyped, NoneIsNoName DEF TypeOK, Current
<1>1. ASSUME NEW c \in CPUs, NEW e \in Events, Fire(c, e) PROVE Service!Count(prog.is[e])
  <2>1. UNCHANGED <<prog, key, got, low, printed>> /\ Current' = Current
    BY <1>1 DEF Fire, reader, Current
  <2> QED
    BY <1>1, <2>1 DEF Fire, Service!Count
<1>2. CASE ReadCopy
  <2>1. Current' = Current /\ got' = got + 1 /\ UNCHANGED <<hits, printed>>
    BY <1>2 DEF ReadCopy, Current
  <2>2. CASE got = 0
    <3>1. low' = hits[Current]
      BY <1>2, <2>2 DEF ReadCopy
    <3>2. Service!Ask(Current)
      BY <1>0, <2>1, <2>2, <3>1 DEF Service!Ask
    <3> QED
      BY <1>0, <3>2 DEF Service!Next
  <2>3. CASE got # 0
    <3>1. low' = low /\ got' # 0
      BY <1>0, <1>2, <2>1, <2>3 DEF ReadCopy
    <3> QED
      BY <2>1, <2>3, <3>1 DEF Service!vars
  <2> QED
    BY <2>2, <2>3
<1>3. CASE PrintSum
  <2>1. /\ got = ToRead /\ got # 0 /\ got' = 0 /\ UNCHANGED <<hits, low>>
        /\ printed' = [printed EXCEPT ![Current] = sum]
    BY <1>0, <1>3 DEF PrintSum
  <2>2. sum \in low..hits[Current]
    BY <1>0, <2>1, SumBounds DEF TypeOK
  <2>3. Service!Answer
    BY <1>0, <2>1, <2>2 DEF Service!Answer
  <2> QED
    BY <2>3 DEF Service!Next
<1>4. CASE UNCHANGED vars
  BY <1>4 DEF vars, reader, Current, Service!vars
<1>5. \A e \in Events : prog.is[e] \in Names
  BY ProfileTyped DEF TypeOK
<1> QED
  BY <1>1, <1>2, <1>3, <1>4, <1>5 DEF Next, Service!Next

(* A program that counts each event as what it is, and a loader that reads *)
(* the copies of all CPUs, implement CounterService: the sum printed is a  *)
(* count there was while the copies were read, though hooks fired between  *)
(* one copy and the next.                                                  *)
THEOREM CountersImplementService ==
    ASSUME \A p \in Programs : Sums(p)
    PROVE  Spec => ImplementsService
<1>1. Init => TypeOK /\ SumInv /\ PrintedInv
  BY TypeInit, SumInit
<1>2. TypeOK /\ SumInv /\ PrintedInv /\ [Next]_vars => (TypeOK /\ SumInv /\ PrintedInv)'
  BY TypeStep, SumStep
<1>3. Init => Service!Init
  BY DEF Init, Service!Init
<1>4. TypeOK /\ SumInv /\ [Next]_vars => [Service!Next]_Service!vars
  BY ServiceStep
<1> QED
  BY <1>1, <1>2, <1>3, <1>4, PTL DEF Spec, ImplementsService, Service!Spec

(* For the same programs the counts on the terminal never go back.         *)
THEOREM PrintedCountsGrow ==
    ASSUME \A p \in Programs : Sums(p)
    PROVE  Spec => CountsGrow
<1>1. Init => TypeOK /\ SumInv /\ PrintedInv
  BY TypeInit, SumInit
<1>2. TypeOK /\ SumInv /\ PrintedInv /\ [Next]_vars => (TypeOK /\ SumInv /\ PrintedInv)'
  BY TypeStep, SumStep
<1>3. TypeOK /\ SumInv /\ PrintedInv /\ [Next]_vars
         => [\A n \in Names : printed'[n] >= printed[n]]_vars
  <2> SUFFICES ASSUME TypeOK, SumInv, PrintedInv, Next
               PROVE  \A n \in Names : printed'[n] >= printed[n]
    OBVIOUS
  <2>0. Sums(prog) /\ Current \in Names /\ ToRead \in 1..NumCPUs
        /\ \A n \in Names : printed[n] \in Nat
    BY ProfileTyped DEF TypeOK, Current
  <2>1. CASE PrintSum
    <3>1. got = ToRead /\ got > 0 /\ printed' = [printed EXCEPT ![Current] = sum]
      BY <2>0, <2>1 DEF PrintSum
    <3>2. printed[Current] <= low /\ low <= sum /\ low \in Nat /\ sum \in Nat
      BY <2>0, <3>1, SumBounds DEF PrintedInv, TypeOK
    <3>3. /\ printed'[Current] = sum /\ \A n \in Names \ {Current} : printed'[n] = printed[n]
      BY <2>0, <3>1 DEF TypeOK
    <3> QED
      BY <2>0, <3>2, <3>3
  <2>2. CASE printed' = printed
    BY <2>0, <2>2
  <2> QED
    BY <2>1, <2>2 DEF Next, Fire, ReadCopy
<1> QED
  BY <1>1, <1>2, <1>3, PTL DEF Spec, CountsGrow
=============================================================================
