------------------------- MODULE EventCounter_proofs ------------------------
(***************************************************************************)
(* What is proved about the count-and-emit programs, and about S2 xdp,     *)
(* whose map evicts, for any number of CPUs, keys and map entries, any     *)
(* ring capacity and any sampling period.                                  *)
(***************************************************************************)
EXTENDS XdpCounter, BpfHash_proofs

USE HashAssumption, CounterAssumption

(* The types of the variables are preserved by every step.                 *)
LEMMA CountedType ==
    ASSUME NEW c \in CPUs, NEW n \in Nat, TypeOK, call[c].key \in Keys, Counted(c, n)
    PROVE  /\ call' \in [CPUs -> Call]
           /\ \A b \in CPUs : /\ call'[b].next # "idle" => call'[b].key \in Keys
                              /\ call'[b].next = "add" => call'[b].ptr \in Elems
           /\ hits' \in [Keys -> Nat]
           /\ UNCHANGED <<handler, ring, taken, dropped>>
<1>1. Idle \in Call /\ Idle.next = "idle"
  BY DEF Idle, Call
<1>2. [next |-> "reserve", key |-> call[c].key, ptr |-> NoElem, count |-> n] \in Call
  BY DEF Call
<1>3. \E r \in Call : /\ call' = [call EXCEPT ![c] = r]
                      /\ r.next # "idle" => r.key \in Keys
                      /\ r.next # "add"
  BY <1>1, <1>2 DEF Counted, TypeOK
<1>4. hits' \in [Keys -> Nat] /\ UNCHANGED <<handler, ring, taken, dropped>>
  BY DEF Counted, TypeOK, ringVars
<1> QED
  BY <1>3, <1>4 DEF TypeOK

LEMMA TypeStep == TypeOK /\ [Next]_vars => TypeOK'
<1> SUFFICES ASSUME TypeOK, [Next]_vars PROVE TypeOK'
  OBVIOUS
<1> USE DEF TypeOK
<1>1. ASSUME NEW c \in CPUs, NEW k \in Keys, Enter(c, k) PROVE TypeOK'
  BY <1>1 DEF Enter, HashTypeOK, hashVars, ringVars, Call
<1>2. ASSUME NEW c \in CPUs, Insert(c) PROVE TypeOK'
  <2>1. call[c].key \in Keys
    BY <1>2 DEF Insert
  <2>2. HashTypeOK(Nat)'
    BY <1>2, <2>1, UpdateType DEF Insert
  <2>3. QED
    BY <1>2, <2>1, <2>2, CountedType DEF Insert
<1>3. ASSUME NEW c \in CPUs, Add(c) PROVE TypeOK'
  <2>1. call[c].key \in Keys /\ call[c].ptr \in Elems
    BY <1>3 DEF Add
  <2>2. HashTypeOK(Nat)'
    BY <1>3, <2>1 DEF Add, Write, HashTypeOK
  <2>3. value[call[c].ptr] + 1 \in Nat
    BY <2>1 DEF HashTypeOK
  <2>4. QED
    BY <1>3, <2>1, <2>2, <2>3, CountedType DEF Add
<1>4. ASSUME NEW c \in CPUs, Reserve(c) PROVE TypeOK'
  <2>1. call[c].key \in Keys /\ call[c].count \in Nat
    BY <1>4 DEF Reserve, Call
  <2>2. [cpu |-> c, key |-> call[c].key, count |-> call[c].count, busy |-> TRUE] \in Record
    BY <2>1 DEF Record
  <2>3. ring' \in Seq(Record) /\ Len(ring') = Len(ring) + 1
    BY <1>4, <2>2 DEF Reserve
  <2>4. taken' \in 0..Len(ring')
    BY <1>4, <2>3 DEF Reserve
  <2>5. HashTypeOK(Nat)'
    BY <1>4 DEF Reserve, HashTypeOK, hashVars
  <2>6. call' \in [CPUs -> Call] /\ \A b \in CPUs : call'[b].key = call[b].key
                               /\ (call'[b].next # call[b].next => b = c /\ call'[b].next = "submit")
                               /\ call'[b].ptr = call[b].ptr
    <3>1. call' = [call EXCEPT ![c] = [call[c] EXCEPT !.next = "submit"]]
      BY <1>4 DEF Reserve
    <3> DEFINE r == [call[c] EXCEPT !.next = "submit"]
    <3>0. \A x \in Call : /\ [x EXCEPT !.next = "submit"] \in Call
                          /\ [x EXCEPT !.next = "submit"].key = x.key
                          /\ [x EXCEPT !.next = "submit"].next = "submit"
                          /\ [x EXCEPT !.next = "submit"].ptr = x.ptr
      BY DEF Call
    <3>2. r \in Call /\ r.key = call[c].key /\ r.next = "submit" /\ r.ptr = call[c].ptr
      BY <3>0
    <3>3. call' = [call EXCEPT ![c] = r]
      BY <3>1
    <3> HIDE DEF r
    <3> QED
      BY <3>2, <3>3
  <2>7. QED
    BY <1>4, <2>1, <2>3, <2>4, <2>5, <2>6 DEF Reserve
<1>5. ASSUME NEW c \in CPUs, ReserveFails(c) PROVE TypeOK'
  <2>1. call[c].key \in Keys /\ call[c].count \in Nat
    BY <1>5 DEF ReserveFails, Call
  <2>2. QED
    BY <1>5, <2>1 DEF ReserveFails, HashTypeOK, hashVars, ringVars, Call, Idle
<1>6. ASSUME NEW c \in CPUs, Submit(c) PROVE TypeOK'
  <2> DEFINE r(i) == IF ring[i].cpu = c THEN [ring[i] EXCEPT !.busy = FALSE] ELSE ring[i]
  <2>1. ring' = [i \in 1..Len(ring) |-> r(i)] /\ \A i \in 1..Len(ring) : r(i) \in Record
    <3>1. \A i \in 1..Len(ring) : ring[i] \in Record
      OBVIOUS
    <3>2. \A x \in Record : [x EXCEPT !.busy = FALSE] \in Record
      BY DEF Record
    <3>3. DOMAIN ring = 1..Len(ring)
      OBVIOUS
    <3>4. ring' = [i \in 1..Len(ring) |-> r(i)]
      BY <1>6, <3>3, Zenon DEF Submit
    <3> QED
      BY <3>1, <3>2, <3>4
  <2> HIDE DEF r
  <2>2. ring' \in Seq(Record) /\ Len(ring') = Len(ring)
    BY <2>1
  <2>3. HashTypeOK(Nat)'
    BY <1>6 DEF Submit, HashTypeOK, hashVars
  <2>4. QED
    BY <1>6, <2>2, <2>3 DEF Submit, Call, Idle
<1>7. ASSUME Consume PROVE TypeOK'
  BY <1>7 DEF Consume, HashTypeOK, hashVars
<1>8. ASSUME UNCHANGED vars PROVE TypeOK'
  BY <1>8 DEF vars, HashTypeOK, hashVars, ringVars
<1> QED
  BY <1>1, <1>2, <1>3, <1>4, <1>5, <1>6, <1>7, <1>8 DEF Next, Run

THEOREM TypeCorrect == Spec => []TypeOK
<1>1. Init => TypeOK
  BY DEF Init, HashInit, TypeOK, HashTypeOK, Idle, Call, Elems
<1>2. QED
  BY <1>1, TypeStep, PTL DEF Spec
-----------------------------------------------------------------------------
(* update_elem leaves the stored counts of other keys alone.               *)
LEMMA UpdateOthers ==
    ASSUME NEW c \in CPUs, NEW k \in Keys, HashTypeOK(Nat), OneOwner, Update(c, k, 1),
           NEW j \in Keys, j # k
    PROVE  entry'[j] = entry[j] /\ Stored(j)' = Stored(j)
BY UpdateFrame DEF Stored

(* Past the count, a call only moves towards its return.                   *)
LEMMA ReturnStep ==
    ASSUME call \in [CPUs -> Call], NEW c \in CPUs,
           Reserve(c) \/ ReserveFails(c) \/ Submit(c)
    PROVE  /\ \A b \in CPUs \ {c} : call'[b] = call[b]
           /\ call'[c].next \in {"submit", "idle"}
<1>1. CASE Reserve(c)
  <2>1. call' = [call EXCEPT ![c] = [call[c] EXCEPT !.next = "submit"]]
    BY <1>1 DEF Reserve
  <2>2. [call[c] EXCEPT !.next = "submit"].next = "submit"
    BY DEF Call
  <2> QED
    BY <2>1, <2>2
<1>2. CASE ReserveFails(c) \/ Submit(c)
  BY <1>2 DEF ReserveFails, Submit, Idle
<1> QED
  BY <1>1, <1>2

LEMMA CountInvStep == TypeOK /\ CountInv /\ [Next]_vars => CountInv'
<1> SUFFICES ASSUME TypeOK, CountInv, [Next]_vars PROVE CountInv'
  OBVIOUS
<1> USE DEF CountInv
<1>0. HashTypeOK(Nat) /\ call \in [CPUs -> Call] /\ hits \in [Keys -> Nat]
  BY DEF TypeOK
<1>1. ASSUME NEW c \in CPUs, NEW k \in Keys, Enter(c, k) PROVE CountInv'
  <2>1. OneOwner' /\ CountExact'
    BY <1>1 DEF Enter, OneOwner, CountExact, Stored, hashVars
  <2>2. PointerInv'
    BY <1>0, <1>1 DEF Enter, PointerInv, OneOwner, hashVars, HashTypeOK, Call
  <2> QED
    BY <2>1, <2>2
<1>2. ASSUME NEW c \in CPUs, Insert(c) PROVE CountInv'
  <2> DEFINE k == call[c].key
  <2>1. k \in Keys /\ call[c].next = "insert" /\ Update(c, k, 1) /\ Counted(c, 1)
    BY <1>2 DEF Insert, TypeOK
  <2>2. OneOwner'
    BY <1>0, <2>1, UpdateOneOwner
  <2>3. \A j \in Keys : j # k => hits'[j] = hits[j] /\ entry'[j] = entry[j] /\ Stored(j)' = Stored(j)
    BY <1>0, <2>1, UpdateOthers DEF Counted
  <2>4. lossy \subseteq lossy'
    BY <1>2 DEF Insert
  <2>5. ASSUME k \notin lossy'
        PROVE  /\ entry[k] = NoElem /\ Link(k, 1) /\ k \notin lossy
               /\ entry'[k] # NoElem /\ value'[entry'[k]] = 1 /\ hits'[k] = 1
    <3>1. entry[k] = NoElem /\ free # {} /\ k \notin lossy
      BY <1>2, <2>5 DEF Insert
    <3>2. Link(k, 1)
      BY <2>1, <3>1 DEF Update, Replace, Refuse
    <3>3. hits[k] = 0
      BY <2>1, <3>1 DEF CountExact, Stored
    <3>4. hits'[k] = 1
      BY <1>0, <2>1, <3>3 DEF Counted
    <3>5. entry'[k] # NoElem /\ value'[entry'[k]] = 1
      BY <1>0, <2>1, <3>2 DEF Link, HashTypeOK, Elems
    <3> QED
      BY <3>1, <3>2, <3>4, <3>5
  <2>6. CountExact'
    BY <2>1, <2>3, <2>4, <2>5 DEF CountExact, Stored
  <2>7. ASSUME NEW b \in CPUs, call'[b].next = "add"
        PROVE  /\ call'[b] = call[b] /\ call[b].ptr \notin free'
               /\ \A j \in Keys \ lossy' : call[b].key = j <=> call[b].ptr = entry'[j]
    <3>1. b # c /\ call'[b] = call[b]
      BY <1>0, <2>1, <2>7 DEF Counted, Idle
    <3>2. free' \subseteq free
      BY <2>1 DEF Update, Replace, Link, Refuse, hashVars
    <3>3. call[b].ptr \notin free /\ \A j \in Keys \ lossy : call[b].key = j <=> call[b].ptr = entry[j]
      BY <2>7, <3>1 DEF PointerInv
    <3>4. k \notin lossy' => entry'[k] \in free /\ call[b].key # k
      <4> SUFFICES ASSUME k \notin lossy' PROVE entry'[k] \in free /\ call[b].key # k
        OBVIOUS
      <4>1. entry'[k] \in free
        BY <1>0, <2>1, <2>5 DEF Link, HashTypeOK
      <4>2. call[b].ptr \in Elems
        BY <2>7, <3>1 DEF TypeOK
      <4>3. call[b].ptr # entry[k]
        BY <2>5, <4>2, HashAssumption DEF Elems
      <4> QED
        BY <2>1, <2>5, <3>3, <4>1, <4>3
    <3> QED
      BY <2>1, <2>3, <2>4, <3>1, <3>2, <3>3, <3>4
  <2>8. PointerInv'
    BY <2>7 DEF PointerInv
  <2> QED
    BY <2>2, <2>6, <2>8
<1>3. ASSUME NEW c \in CPUs, Add(c) PROVE CountInv'
  <2> DEFINE k == call[c].key
             p == call[c].ptr
  <2>1. /\ k \in Keys /\ p \in Elems /\ call[c].next = "add"
        /\ value' = [value EXCEPT ![p] = value[p] + 1] /\ UNCHANGED <<entry, free, extra, lossy>>
        /\ Counted(c, value[p] + 1)
    BY <1>3 DEF Add, Write, TypeOK
  <2>2. OneOwner'
    BY <2>1 DEF OneOwner
  <2>3. \A j \in Keys \ lossy : k = j <=> p = entry[j]
    BY <2>1 DEF PointerInv
  <2>4. CountExact'
    <3> SUFFICES ASSUME NEW j \in Keys \ lossy PROVE Stored(j)' = hits'[j]
      BY <2>1 DEF CountExact
    <3>1. hits'[j] = IF j = k THEN hits[j] + 1 ELSE hits[j]
      BY <1>0, <2>1 DEF Counted
    <3>2. Stored(j) = hits[j]
      BY DEF CountExact
    <3>3. NoElem \notin Elems
      BY HashAssumption DEF Elems
    <3>4. Stored(j)' = IF j = k THEN Stored(j) + 1 ELSE Stored(j)
      BY <1>0, <2>1, <2>3, <3>3 DEF Stored, HashTypeOK
    <3> QED
      BY <3>1, <3>2, <3>4
  <2>5. \A b \in CPUs : call'[b].next = "add" => call'[b] = call[b]
    BY <1>0, <2>1 DEF Counted, Idle
  <2>6. PointerInv'
    BY <2>1, <2>5 DEF PointerInv
  <2> QED
    BY <2>2, <2>4, <2>6
<1>4. ASSUME NEW c \in CPUs, Reserve(c) \/ ReserveFails(c) \/ Submit(c) PROVE CountInv'
  <2>1. UNCHANGED <<entry, value, free, extra, hits, lossy>>
    BY <1>4 DEF Reserve, ReserveFails, Submit, hashVars
  <2>2. \A b \in CPUs : call'[b].next = "add" => call'[b] = call[b]
    BY <1>0, <1>4, ReturnStep
  <2> QED
    BY <2>1, <2>2 DEF OneOwner, CountExact, Stored, PointerInv
<1>5. ASSUME Consume \/ UNCHANGED vars PROVE CountInv'
  BY <1>5 DEF Consume, vars, hashVars, OneOwner, CountExact, Stored, PointerInv
<1> QED
  BY <1>1, <1>2, <1>3, <1>4, <1>5 DEF Next, Run

(* An update in hand never goes astray: through every step the element     *)
(* under a key has no other owner, what it holds is the calls counted, and *)
(* a CPU about to add through a pointer still points to it, except for     *)
(* keys whose insertions raced or were refused.                            *)
THEOREM CountInvCorrect == Spec => []CountInv
<1>1. Init => CountInv
  <2> SUFFICES ASSUME Init PROVE CountInv
    OBVIOUS
  <2> USE DEF Init, HashInit
  <2>1. OneOwner
    BY HashAssumption DEF OneOwner
  <2>2. CountExact
    BY DEF CountExact, Stored
  <2>3. PointerInv
    BY DEF PointerInv, Idle
  <2> QED
    BY <2>1, <2>2, <2>3 DEF CountInv
<1>2. QED
  BY <1>1, CountInvStep, TypeCorrect, PTL DEF Spec

(* Every program of the repository that counts in a hash map counts each   *)
(* call of a key exactly once, as long as no update_elem on that key       *)
(* replaced a live entry or was refused; and no element ever has two       *)
(* owners.                                                                 *)
THEOREM CountCorrect == Spec => [](OneOwner /\ CountExact)
<1>1. CountInv => OneOwner /\ CountExact
  BY DEF CountInv
<1>2. QED
  BY <1>1, CountInvCorrect, PTL
-----------------------------------------------------------------------------
(* Once the entry of a key exists and no CPU is about to insert it, the    *)
(* stored count of the key can only grow.                                  *)
THEOREM SettledGrows == Spec => SettledCountGrows
<1> DEFINE Grows(k) == Settled(k) => Settled(k)' /\ Stored(k)' >= Stored(k)
<1>1. ASSUME TypeOK, CountInv, [Next]_vars, NEW k \in Keys
      PROVE  Grows(k)
  <2> SUFFICES ASSUME Settled(k) PROVE Settled(k)' /\ Stored(k)' >= Stored(k)
    OBVIOUS
  <2>0. /\ HashTypeOK(Nat) /\ call \in [CPUs -> Call] /\ OneOwner
        /\ entry[k] \in Elems /\ NoElem \notin Elems
    BY <1>1, HashAssumption DEF TypeOK, CountInv, Settled, HashTypeOK, Elems
  <2>1. ASSUME NEW c \in CPUs, NEW j \in Keys, Enter(c, j)
        PROVE  Settled(k)' /\ Stored(k)' >= Stored(k)
    BY <2>0, <2>1 DEF Enter, Settled, Pending, Stored, hashVars, HashTypeOK, Call
  <2>2. ASSUME NEW c \in CPUs, Insert(c)
        PROVE  Settled(k)' /\ Stored(k)' >= Stored(k)
    <3>1. call[c].key # k /\ call[c].key \in Keys
      BY <1>1, <2>2 DEF Insert, Settled, Pending, TypeOK
    <3>2. entry'[k] = entry[k] /\ Stored(k)' = Stored(k)
      BY <2>0, <2>2, <3>1, UpdateOthers DEF Insert
    <3>3. \A b \in CPUs : call'[b].next = "insert" => call'[b] = call[b]
      BY <2>0, <2>2 DEF Insert, Counted, Idle
    <3> QED
      BY <2>0, <3>2, <3>3 DEF Settled, Pending, Stored, HashTypeOK
  <2>3. ASSUME NEW c \in CPUs, Add(c)
        PROVE  Settled(k)' /\ Stored(k)' >= Stored(k)
    <3>1. \A b \in CPUs : call'[b].next = "insert" => call'[b] = call[b]
      BY <2>0, <2>3 DEF Add, Counted, Idle
    <3>2. entry' = entry /\ value'[entry[k]] >= value[entry[k]]
      BY <1>1, <2>0, <2>3 DEF Add, Write, HashTypeOK, TypeOK
    <3> QED
      BY <2>0, <3>1, <3>2 DEF Settled, Pending, Stored
  <2>4. ASSUME NEW c \in CPUs, Reserve(c) \/ ReserveFails(c) \/ Submit(c)
        PROVE  Settled(k)' /\ Stored(k)' >= Stored(k)
    <3>1. \A b \in CPUs : call'[b].next = "insert" => call'[b] = call[b]
      BY <2>0, <2>4, ReturnStep
    <3>2. UNCHANGED <<entry, value>>
      BY <2>4 DEF Reserve, ReserveFails, Submit, hashVars
    <3> QED
      BY <2>0, <3>1, <3>2 DEF Settled, Pending, Stored, HashTypeOK
  <2>5. ASSUME Consume \/ UNCHANGED vars
        PROVE  Settled(k)' /\ Stored(k)' >= Stored(k)
    BY <2>0, <2>5 DEF Consume, vars, hashVars, Settled, Pending, Stored, HashTypeOK
  <2> QED
    BY <1>1, <2>1, <2>2, <2>3, <2>4, <2>5 DEF Next, Run
<1>2. TypeOK /\ CountInv /\ [Next]_vars => [\A k \in Keys : Grows(k)]_vars
  BY <1>1
<1>3. QED
  BY <1>2, TypeCorrect, CountInvCorrect, PTL DEF Spec, SettledCountGrows
-----------------------------------------------------------------------------
(* The count a call draws for a key whose count is exact is the next one.  *)
LEMMA DrawnCount ==
    ASSUME TypeOK, CountInv, NEW c \in CPUs, Insert(c) \/ Add(c),
           NEW k \in Keys \ lossy', call[c].key = k
    PROVE  Counted(c, hits[k] + 1) /\ k \notin lossy
<1>1. CASE Insert(c)
  <2>1. entry[k] = NoElem /\ k \notin lossy /\ Counted(c, 1)
    BY <1>1 DEF Insert
  <2>2. hits[k] = 0
    BY <2>1 DEF CountInv, CountExact, Stored
  <2> QED
    BY <2>1, <2>2
<1>2. CASE Add(c)
  <2>1. k \notin lossy /\ call[c].ptr = entry[k] /\ entry[k] \in Elems
    BY <1>2 DEF Add, CountInv, PointerInv, TypeOK
  <2>2. value[call[c].ptr] = hits[k]
    BY <2>1, HashAssumption DEF CountInv, CountExact, Stored, Elems
  <2> QED
    BY <1>2, <2>1, <2>2 DEF Add
<1> QED
  BY <1>1, <1>2

LEMMA PartitionStep ==
    TypeOK /\ CountInv /\ ReportsPartition /\ [Next]_vars => ReportsPartition'
<1> DEFINE Goal(k) ==
      /\ (ReportedCounts(k) \cup dropped[k] \cup InHand(k) = Sampled(k))'
      /\ (ReportedCounts(k) \cap dropped[k] = {})'
      /\ ((ReportedCounts(k) \cup dropped[k]) \cap InHand(k) = {})'
      /\ (\A i, j \in Reported(k) : i # j => ring[i].count # ring[j].count)'
      /\ (\A b, c \in Pending(k, "reserve") : b # c => call[b].count # call[c].count)'
<1> SUFFICES ASSUME TypeOK, CountInv, ReportsPartition, [Next]_vars, NEW k \in Keys \ lossy'
             PROVE  Goal(k)
  BY DEF ReportsPartition
<1> DEFINE CPUsReserving == Pending(k, "reserve")
<1>0. /\ call \in [CPUs -> Call] /\ hits \in [Keys -> Nat] /\ dropped \in [Keys -> SUBSET Nat]
      /\ ring \in Seq(Record) /\ handler.every \in Nat \ {0}
  BY CounterAssumption DEF TypeOK
<1>9. CPUsReserving \subseteq CPUs
  BY DEF Pending
<1>1. ASSUME k \notin lossy,
             UNCHANGED <<ring, dropped, handler>>, hits'[k] = hits[k],
             \A b \in CPUs : call'[b].key = k /\ call'[b].next = "reserve"
                             <=> b \in CPUsReserving,
             \A b \in CPUsReserving : call'[b] = call[b]
      PROVE  Goal(k)
  <2>1. CPUsReserving' = CPUsReserving
    BY <1>1 DEF Pending
  <2>2. UNCHANGED <<ReportedCounts(k), Reported(k), InHand(k), Sampled(k)>>
    BY <1>1, <2>1 DEF ReportedCounts, Reported, InHand, Sampled
  <2> QED
    BY <1>0, <1>1, <2>1, <2>2 DEF ReportsPartition
<1>2. ASSUME NEW c \in CPUs, NEW j \in Keys, Enter(c, j) PROVE Goal(k)
  <2>1. UNCHANGED <<ring, dropped, handler, hits, lossy>>
    BY <1>2 DEF Enter, ringVars
  <2>2. \A b \in CPUs : b # c => call'[b] = call[b]
    BY <1>0, <1>2 DEF Enter
  <2>3. call[c].next = "idle" /\ call'[c].next # "reserve"
    BY <1>0, <1>2 DEF Enter
  <2> QED
    BY <1>1, <2>1, <2>2, <2>3 DEF Pending
<1>3. ASSUME NEW c \in CPUs, Insert(c) \/ Add(c), call[c].key # k PROVE Goal(k)
  <2>1. k \notin lossy /\ \E n : Counted(c, n)
    BY <1>3 DEF Insert, Add
  <2>2. UNCHANGED <<ring, dropped, handler>> /\ hits'[k] = hits[k]
    BY <1>0, <1>3, <2>1 DEF Counted, ringVars
  <2>3. \A b \in CPUs : b # c => call'[b] = call[b]
    BY <1>0, <2>1 DEF Counted
  <2>4. ~(call'[c].key = k /\ call'[c].next = "reserve")
    BY <1>0, <1>3, <2>1 DEF Counted, Idle
  <2> QED
    BY <1>1, <1>3, <2>1, <2>2, <2>3, <2>4 DEF Pending
<1>4. ASSUME NEW c \in CPUs, Insert(c) \/ Add(c), call[c].key = k PROVE Goal(k)
  <2> DEFINE n == hits[k] + 1
             emit == handler.emits /\ n % handler.every = 0
  <2>0. 1..n = (1..hits[k]) \cup {n} /\ n \notin 1..hits[k]
    BY <1>0
  <2>1. k \notin lossy /\ Counted(c, n) /\ n \in Nat \ {0}
    BY <1>0, <1>4, DrawnCount
  <2>2. UNCHANGED <<ring, dropped, handler>> /\ hits'[k] = n
    BY <1>0, <1>4, <2>1 DEF Counted, ringVars
  <2>3. UNCHANGED <<ReportedCounts(k), Reported(k)>>
    BY <2>2 DEF ReportedCounts, Reported
  <2>4. \A b \in CPUs : b # c => call'[b] = call[b]
    BY <1>0, <2>1 DEF Counted
  <2>5. c \notin CPUsReserving
    BY <1>4 DEF Pending, Insert, Add
  <2>6. CASE ~emit
    <3>1. Sampled(k)' = Sampled(k)
      BY <2>0, <2>2, <2>6 DEF Sampled
    <3>2. call'[c].next # "reserve"
      BY <1>0, <2>1, <2>6 DEF Counted, Idle
    <3>3. CPUsReserving' = CPUsReserving /\ InHand(k)' = InHand(k)
      BY <2>4, <2>5, <3>2 DEF Pending, InHand
    <3>4. (\A a, b \in Pending(k, "reserve") : a # b => call[a].count # call[b].count)'
      BY <1>9, <2>1, <2>4, <2>5, <3>3 DEF ReportsPartition
    <3>5. (\A i, j \in Reported(k) : i # j => ring[i].count # ring[j].count)'
      BY <1>9, <2>1, <2>2, <2>3 DEF ReportsPartition
    <3> QED
      BY <2>1, <2>2, <2>3, <3>1, <3>3, <3>4, <3>5 DEF ReportsPartition
  <2>7. CASE emit
    <3>1. Sampled(k)' = Sampled(k) \cup {n} /\ n \notin Sampled(k)
      BY <2>0, <2>2, <2>7 DEF Sampled
    <3>2. call'[c].next = "reserve" /\ call'[c].key = k /\ call'[c].count = n
      BY <1>0, <1>4, <2>1, <2>7 DEF Counted
    <3>3. CPUsReserving' = CPUsReserving \cup {c}
      BY <2>4, <3>2 DEF Pending
    <3>4. InHand(k)' = InHand(k) \cup {n}
      <4>1. InHand(k)' = {call'[b].count : b \in CPUsReserving \cup {c}}
        BY <3>3 DEF InHand
      <4>2. \A b \in CPUsReserving : call'[b].count = call[b].count
        BY <2>4, <2>5 DEF Pending
      <4> QED
        BY <3>2, <4>1, <4>2 DEF InHand
    <3>5. \A b \in CPUsReserving : call[b].count # n
      BY <2>1, <3>1 DEF ReportsPartition, InHand
    <3>6. n \notin ReportedCounts(k) \cup dropped[k] \cup InHand(k)
      BY <2>1, <3>1 DEF ReportsPartition
    <3>7. (\A a, b \in Pending(k, "reserve") : a # b => call[a].count # call[b].count)'
      BY <1>9, <2>1, <2>4, <2>5, <3>2, <3>3, <3>5 DEF ReportsPartition
    <3>8. (\A i, j \in Reported(k) : i # j => ring[i].count # ring[j].count)'
      BY <1>9, <2>1, <2>2, <2>3 DEF ReportsPartition
    <3> QED
      BY <2>1, <2>2, <2>3, <3>1, <3>4, <3>6, <3>7, <3>8 DEF ReportsPartition
  <2> QED
    BY <2>6, <2>7
<1>5. ASSUME NEW c \in CPUs, Reserve(c) \/ ReserveFails(c), call[c].key # k PROVE Goal(k)
  <2>1. UNCHANGED <<handler, hits, lossy>> /\ dropped'[k] = dropped[k]
    BY <1>0, <1>5 DEF Reserve, ReserveFails
  <2>2. (\A b \in CPUs : b # c => call'[b] = call[b]) /\ call'[c].next # "reserve"
    BY <1>0, <1>5, ReturnStep
  <2>3. CPUsReserving' = CPUsReserving /\ InHand(k)' = InHand(k)
    BY <1>5, <2>2 DEF Pending, InHand
  <2>4. ReportedCounts(k)' = ReportedCounts(k) /\ Reported(k)' = Reported(k)
        /\ \A i \in Reported(k) : ring'[i] = ring[i]
    <3>1. CASE ring' = ring
      BY <3>1 DEF ReportedCounts, Reported
    <3>2. CASE Reserve(c)
      <4>1. /\ DOMAIN ring' = DOMAIN ring \cup {Len(ring) + 1}
            /\ \A i \in DOMAIN ring : ring'[i] = ring[i]
            /\ ring'[Len(ring) + 1].key # k
        BY <1>0, <1>5, <3>2 DEF Reserve
      <4>2. Reported(k)' = Reported(k)
        BY <4>1 DEF Reported
      <4>3. \A i \in Reported(k) : ring'[i] = ring[i]
        BY <4>1 DEF Reported
      <4> QED
        BY <4>2, <4>3 DEF ReportedCounts
    <3> QED
      BY <1>5, <3>1, <3>2 DEF ReserveFails, ringVars
  <2>5. Sampled(k)' = Sampled(k)
    BY <2>1 DEF Sampled
  <2> QED
    BY <1>5, <2>1, <2>2, <2>3, <2>4, <2>5 DEF ReportsPartition, Pending
<1>6. ASSUME NEW c \in CPUs, Reserve(c) \/ ReserveFails(c), call[c].key = k PROVE Goal(k)
  <2> DEFINE n == call[c].count
  <2>1. UNCHANGED <<handler, hits, lossy>> /\ call[c].next = "reserve"
    BY <1>6 DEF Reserve, ReserveFails
  <2>2. (\A b \in CPUs : b # c => call'[b] = call[b]) /\ call'[c].next # "reserve"
    BY <1>0, <1>6, ReturnStep
  <2>3. CPUsReserving' = CPUsReserving \ {c} /\ c \in CPUsReserving
    BY <1>6, <2>1, <2>2 DEF Pending
  <2>4. n \in InHand(k) /\ \A b \in CPUsReserving \ {c} : call[b].count # n
    BY <2>1, <2>3 DEF InHand, ReportsPartition
  <2>5. InHand(k)' = InHand(k) \ {n}
    <3>1. InHand(k)' = {call'[b].count : b \in CPUsReserving \ {c}}
      BY <2>3 DEF InHand
    <3>2. \A b \in CPUsReserving \ {c} : call'[b].count = call[b].count
      BY <2>2 DEF Pending
    <3>3. InHand(k)' = {call[b].count : b \in CPUsReserving \ {c}}
      BY <3>1, <3>2
    <3> QED
      BY <2>3, <2>4, <3>3 DEF InHand
  <2>10. (\A a, b \in Pending(k, "reserve") : a # b => call[a].count # call[b].count)'
    BY <1>9, <2>1, <2>2, <2>3 DEF ReportsPartition
  <2>6. Sampled(k)' = Sampled(k)
    BY <2>1 DEF Sampled
  <2>7. n \notin ReportedCounts(k) \cup dropped[k]
    BY <2>1, <2>4 DEF ReportsPartition
  <2>8. CASE Reserve(c)
    <3>1. dropped' = dropped /\ ring' = Append(ring, [cpu |-> c, key |-> k, count |-> n, busy |-> TRUE])
      BY <1>6, <2>8 DEF Reserve
    <3>2. /\ Len(ring') = Len(ring) + 1 /\ DOMAIN ring' = 1..Len(ring) + 1
          /\ \A i \in 1..Len(ring) : ring'[i] = ring[i]
          /\ ring'[Len(ring) + 1].key = k /\ ring'[Len(ring) + 1].count = n
      BY <1>0, <3>1
    <3>3. Reported(k)' = Reported(k) \cup {Len(ring) + 1} /\ Len(ring) + 1 \notin Reported(k)
      BY <1>0, <3>2 DEF Reported
    <3>4. \A i \in Reported(k) : ring'[i] = ring[i]
      BY <1>0, <3>2 DEF Reported
    <3>5. ReportedCounts(k)' = ReportedCounts(k) \cup {n}
      BY <3>2, <3>3, <3>4 DEF ReportedCounts
    <3>6. \A i \in Reported(k) : ring[i].count # n
      BY <2>7 DEF ReportedCounts
    <3>7. (\A i, j \in Reported(k) : i # j => ring[i].count # ring[j].count)'
      BY <2>1, <3>2, <3>3, <3>4, <3>6 DEF ReportsPartition
    <3>8. dropped'[k] = dropped[k]
      BY <3>1
    <3> QED
      BY <2>1, <2>4, <2>5, <2>6, <2>7, <2>10, <3>5, <3>7, <3>8 DEF ReportsPartition
  <2>9. CASE ReserveFails(c)
    <3>1. ring' = ring /\ dropped'[k] = dropped[k] \cup {n}
      BY <1>0, <1>6, <2>9 DEF ReserveFails, ringVars
    <3>2. UNCHANGED <<ReportedCounts(k), Reported(k)>>
      BY <3>1 DEF ReportedCounts, Reported
    <3>3. (\A i, j \in Reported(k) : i # j => ring[i].count # ring[j].count)'
      BY <2>1, <3>1, <3>2 DEF ReportsPartition
    <3> QED
      BY <2>1, <2>4, <2>5, <2>6, <2>7, <2>10, <3>1, <3>2, <3>3 DEF ReportsPartition
  <2> QED
    BY <1>6, <2>8, <2>9
<1>7. ASSUME NEW c \in CPUs, Submit(c) PROVE Goal(k)
  <2>1. UNCHANGED <<handler, hits, lossy, dropped>>
    BY <1>7 DEF Submit
  <2>2. /\ \A b \in CPUs : b # c => call'[b] = call[b]
        /\ call'[c].next = "idle" /\ call[c].next = "submit"
    BY <1>0, <1>7 DEF Submit, Idle
  <2>3. CPUsReserving' = CPUsReserving /\ InHand(k)' = InHand(k)
    BY <2>2 DEF Pending, InHand
  <2>4. DOMAIN ring' = DOMAIN ring
        /\ \A i \in DOMAIN ring : ring'[i].key = ring[i].key /\ ring'[i].count = ring[i].count
    <3>1. \A i \in DOMAIN ring : ring[i] \in Record
      BY <1>0
    <3>2. \A x \in Record : LET y == [x EXCEPT !.busy = FALSE] IN y.key = x.key /\ y.count = x.count
      BY DEF Record
    <3> QED
      BY <1>7, <3>1, <3>2 DEF Submit
  <2>5. Reported(k)' = Reported(k) /\ ReportedCounts(k)' = ReportedCounts(k)
    BY <2>4 DEF Reported, ReportedCounts
  <2>6. Sampled(k)' = Sampled(k)
    BY <2>1 DEF Sampled
  <2>7. (\A i, j \in Reported(k) : i # j => ring[i].count # ring[j].count)'
    BY <2>1, <2>4, <2>5 DEF ReportsPartition, Reported
  <2> QED
    BY <2>1, <2>2, <2>3, <2>5, <2>6, <2>7 DEF ReportsPartition, Pending
<1>8. ASSUME Consume \/ UNCHANGED vars PROVE Goal(k)
  BY <1>1, <1>8 DEF Consume, vars, ringVars, Pending
<1> QED
  BY <1>2, <1>3, <1>4, <1>5, <1>6, <1>7, <1>8 DEF Next, Run

(* For a key whose count is exact, every sampled count is reported once,   *)
(* or was dropped by a full ring, or is still on its way: no program of    *)
(* the repository loses or repeats a report in any other way.              *)
THEOREM ReportsCorrect == Spec => []ReportsPartition
<1>1. Init => ReportsPartition
  <2> SUFFICES ASSUME Init, NEW k \in Keys
               PROVE  /\ Reported(k) = {} /\ Pending(k, "reserve") = {}
                      /\ dropped[k] = {} /\ Sampled(k) = {}
    BY DEF ReportsPartition, ReportedCounts, InHand
  <2> QED
    BY DEF Init, Idle, Reported, Pending, Sampled
<1>2. QED
  BY <1>1, PartitionStep, TypeCorrect, CountInvCorrect, PTL DEF Spec
-----------------------------------------------------------------------------
(* S2 xdp together with the other programs.  While the program is another  *)
(* one every step is a step of EventCounter, and its proofs serve.         *)

(* What of PointerInv is left when elements are evicted: a pointer may     *)
(* lead to the free list, but into the element of an exactly counted key   *)
(* only when it was looked up for that key.                                *)
OwnPointers ==
    \A c \in CPUs : call[c].next = "add" =>
        \A k \in Keys \ lossy : call[c].key = k <=> call[c].ptr = entry[k]

XdpInv == /\ OneOwner
          /\ CountExact
          /\ OwnPointers
          /\ handler # S2Xdp => PointerInv

(* The program never changes.                                              *)
LEMMA XdpHandlerFixed == [XdpNext]_xdpVars => handler' = handler
BY DEF XdpNext, OtherNext, XdpInsert, XdpAdd, SourceCounted, Packet, Reserve, ReserveFails,
       Submit, Consume, Insert, Add, Counted, Enter, xdpVars, vars

(* When it is not S2 xdp, the steps are those of EventCounter.             *)
LEMMA OtherSteps == handler # S2Xdp /\ [XdpNext]_xdpVars => [Next]_vars
BY DEF XdpNext, OtherNext, XdpInsert, XdpAdd, Packet, Next, Run, xdpVars
-----------------------------------------------------------------------------
(* Types.                                                                  *)
LEMMA LruType ==
    ASSUME NEW k \in Keys, NEW v \in Nat, NEW e \in Elems, NEW evicted \in SUBSET Linked,
           HashTypeOK(Nat), LruUpdate(k, v, e, evicted)
    PROVE  HashTypeOK(Nat)'
<1>1. \A j \in evicted : entry[j] \in Elems
  BY DEF Linked, HashTypeOK
<1>2. free' \in SUBSET Elems
  BY <1>1 DEF LruUpdate, HashTypeOK
<1> QED
  BY <1>2 DEF LruUpdate, HashTypeOK

(* What a packet leaves behind when it is, or is not, sampled.             *)
LEMMA SampledType ==
    ASSUME NEW c \in CPUs, NEW k \in Keys, call \in [CPUs -> Call], SampledByClock(c, k)
    PROVE  /\ call' \in [CPUs -> Call]
           /\ \A b \in CPUs \ {c} : call'[b] = call[b]
           /\ call'[c].next \in {"idle", "reserve"}
           /\ call'[c].next # "idle" => call'[c].key = k
<1>1. PICK next \in {"idle", "reserve"} :
         call' = [call EXCEPT ![c] = IF next = "idle" THEN Idle
                                     ELSE [Idle EXCEPT !.next = next, !.key = k]]
  BY DEF SampledByClock
<1>2. CASE next = "idle"
  BY <1>1, <1>2 DEF Idle, Call
<1>3. CASE next = "reserve"
  <2> DEFINE r == [next |-> "reserve", key |-> k, ptr |-> NoElem, count |-> 0]
  <2> DEFINE q == [Idle EXCEPT !.next = "reserve"]
  <2>0. q = [next |-> "reserve", key |-> NoElem, ptr |-> NoElem, count |-> 0]
    BY DEF Idle
  <2> HIDE DEF q
  <2>1. [q EXCEPT !.key = k] = r
    BY <2>0
  <2> USE DEF q
  <2>2. call' = [call EXCEPT ![c] = r]
    BY <1>1, <1>3, <2>1, Zenon
  <2>3. r \in Call
    BY DEF Call
  <2> QED
    BY <2>2, <2>3
<1> QED
  BY <1>1, <1>2, <1>3

(* Counting a packet under its source keeps the types.                     *)
LEMMA CountedTypeOK ==
    ASSUME NEW c \in CPUs, TypeOK, call[c].key \in Keys, SourceCounted(c),
           HashTypeOK(Nat)', lossy' \in SUBSET Keys
    PROVE  TypeOK'
<1>1. /\ call \in [CPUs -> Call] /\ SampledByClock(c, call[c].key)
      /\ hits' = [hits EXCEPT ![call[c].key] = @ + 1]
      /\ UNCHANGED <<handler, ring, taken, dropped>>
  BY DEF SourceCounted, TypeOK, ringVars
<1>2. /\ call' \in [CPUs -> Call]
      /\ \A b \in CPUs \ {c} : call'[b] = call[b]
      /\ call'[c].next \in {"idle", "reserve"}
      /\ call'[c].next # "idle" => call'[c].key = call[c].key
  BY <1>1, SampledType
<1>3. hits' \in [Keys -> Nat]
  BY <1>1 DEF TypeOK
<1> QED
  BY <1>1, <1>2, <1>3 DEF TypeOK

(* The locals of a program that has looked a packet's source up.           *)
CallTyped == /\ call \in [CPUs -> Call]
             /\ \A c \in CPUs : /\ call[c].next # "idle" => call[c].key \in Keys
                                /\ call[c].next = "add" => call[c].ptr \in Elems

LEMMA PacketCall ==
    ASSUME NEW c \in CPUs, NEW k \in Keys, HashTypeOK(Nat), CallTyped, Packet(c, k)
    PROVE  CallTyped'
<1>1. CASE UNCHANGED call
  BY <1>1 DEF CallTyped
<1>2. CASE SampledByClock(c, k)
  <2>1. call \in [CPUs -> Call]
    BY DEF CallTyped
  <2>2. /\ call' \in [CPUs -> Call]
        /\ \A b \in CPUs \ {c} : call'[b] = call[b]
        /\ call'[c].next # "add"
        /\ call'[c].next # "idle" => call'[c].key \in Keys
    BY <1>2, <2>1, SampledType
  <2> QED
    BY <2>2 DEF CallTyped
<1>3. CASE call' = [call EXCEPT ![c] = [next  |-> IF k \in Linked THEN "add" ELSE "insert",
                                        key   |-> k,
                                        ptr   |-> entry[k],
                                        count |-> 0]]
  <2> DEFINE r == [next |-> IF k \in Linked THEN "add" ELSE "insert", key |-> k, ptr |-> entry[k],
                   count |-> 0]
  <2>1. entry[k] \in Elems \cup {NoElem} /\ (k \in Linked => entry[k] \in Elems)
    BY DEF HashTypeOK, Linked
  <2>2. r \in Call /\ r.key \in Keys /\ (r.next = "add" => r.ptr \in Elems)
    BY <2>1 DEF Call
  <2>3. call' = [call EXCEPT ![c] = r]
    BY <1>3
  <2> HIDE DEF r
  <2> QED
    BY <2>2, <2>3 DEF CallTyped
<1> QED
  BY <1>1, <1>2, <1>3 DEF Packet

(* The types are preserved by every step.                                  *)
LEMMA XdpTypeStep == TypeOK /\ [XdpNext]_xdpVars => TypeOK'
<1> SUFFICES ASSUME TypeOK, [XdpNext]_xdpVars PROVE TypeOK'
  OBVIOUS
<1>1. CASE handler # S2Xdp
  BY <1>1, OtherSteps, TypeStep
<1>2. ASSUME NEW c \in CPUs, XdpInsert(c) PROVE TypeOK'
  <2>1. call[c].key \in Keys
    BY <1>2 DEF XdpInsert, TypeOK
  <2>2. HashTypeOK(Nat)'
    BY <1>2, <2>1, LruType DEF XdpInsert, TypeOK
  <2>3. lossy' \in SUBSET Keys
    BY <1>2, <2>1 DEF XdpInsert, TypeOK, Linked
  <2> QED
    BY <1>2, <2>1, <2>2, <2>3, CountedTypeOK DEF XdpInsert
<1>3. ASSUME NEW c \in CPUs, XdpAdd(c) PROVE TypeOK'
  <2>1. call[c].key \in Keys /\ call[c].ptr \in Elems
    BY <1>3 DEF XdpAdd, TypeOK
  <2>2. HashTypeOK(Nat)'
    BY <1>3, <2>1 DEF XdpAdd, Write, HashTypeOK, TypeOK
  <2> QED
    BY <1>3, <2>1, <2>2, CountedTypeOK DEF XdpAdd, TypeOK
<1>4. ASSUME NEW c \in CPUs, NEW k \in Keys, Packet(c, k) PROVE TypeOK'
  <2>1. UNCHANGED <<handler, hashVars, ringVars, hits, lossy, dropped>>
    BY <1>4 DEF Packet
  <2>2. HashTypeOK(Nat)'
    BY <2>1 DEF TypeOK, HashTypeOK, hashVars
  <2>3. /\ handler' \in Handlers /\ ring' \in Seq(Record) /\ taken' \in 0..Len(ring')
        /\ hits' \in [Keys -> Nat] /\ lossy' \in SUBSET Keys
        /\ dropped' \in [Keys -> SUBSET Nat]
    BY <2>1 DEF TypeOK, ringVars
  <2>4. CallTyped'
    BY <1>4, PacketCall DEF TypeOK, CallTyped
  <2> QED
    BY <2>2, <2>3, <2>4 DEF TypeOK, CallTyped
<1>5. CASE OtherNext /\ handler = S2Xdp
  BY <1>5, TypeStep DEF OtherNext, Next, Run
<1>6. CASE Consume
  BY <1>6, TypeStep DEF Next
<1>7. CASE UNCHANGED xdpVars
  BY <1>7, TypeStep DEF xdpVars
<1> QED
  BY <1>1, <1>2, <1>3, <1>4, <1>5, <1>6, <1>7 DEF XdpNext
-----------------------------------------------------------------------------
(* An element has one owner, though keys are evicted.                      *)
LEMMA LruOneOwner ==
    ASSUME NEW k \in Keys, NEW v, NEW e \in Elems, NEW evicted \in SUBSET Linked,
           HashTypeOK(Nat), OneOwner, LruUpdate(k, v, e, evicted)
    PROVE  OneOwner'
<1> USE DEF HashTypeOK, OneOwner
<1>0. evicted \subseteq Keys /\ NoElem \notin Elems /\ \A j \in evicted : entry[j] \in Elems
  BY DEF Linked, Elems
<1> DEFINE given == free \cup {entry[j] : j \in evicted}
           old   == IF k \in evicted THEN {} ELSE {entry[k]} \ {NoElem}
<1>1. e \in given /\ free' = (given \ {e}) \cup old /\ extra' = extra
  BY DEF LruUpdate
<1>2. entry'[k] = e
  BY DEF LruUpdate
<1>3. \A j \in Keys \ {k} : entry'[j] = IF j \in evicted THEN NoElem ELSE entry[j]
  BY DEF LruUpdate
<1>4. \A j \in Keys \ evicted : entry[j] \notin given
  <2> SUFFICES ASSUME NEW j \in Keys \ evicted PROVE entry[j] \notin given
    OBVIOUS
  <2>1. entry[j] \notin free
    OBVIOUS
  <2>2. \A i \in evicted : entry[j] # entry[i]
    BY <1>0
  <2> QED
    BY <2>1, <2>2
<1>5. \A c \in CPUs : extra[c] \notin given /\ extra[c] \notin old
  BY <1>0
<1>6. e \notin old
  BY <1>1, <1>4
<1>7. NoElem \notin given
  BY <1>0
<1> HIDE DEF given
<1>8. \A j \in Keys : entry'[j] \notin free'
  BY <1>1, <1>2, <1>3, <1>4, <1>6, <1>7
<1>9. \A j \in Keys, c \in CPUs : entry'[j] # extra'[c]
  BY <1>0, <1>1, <1>2, <1>3, <1>5
<1>10. \A c \in CPUs : extra'[c] \notin free'
  BY <1>1, <1>5
<1>11. \A i, j \in Keys : i # j /\ entry'[i] # NoElem => entry'[i] # entry'[j]
  BY <1>1, <1>2, <1>3, <1>4, <1>7
<1> QED
  BY <1>1, <1>8, <1>9, <1>10, <1>11

(* One step per action; the insertion is the one that matters: the element *)
(* it takes may still be pointed to, and then its key is lossy.            *)
LEMMA XdpInvStep == TypeOK /\ XdpInv /\ [XdpNext]_xdpVars => XdpInv'
<1> SUFFICES ASSUME TypeOK, XdpInv, [XdpNext]_xdpVars PROVE XdpInv'
  OBVIOUS
<1>0. /\ HashTypeOK(Nat) /\ call \in [CPUs -> Call] /\ hits \in [Keys -> Nat]
      /\ handler' = handler /\ NoElem \notin Elems
  BY XdpHandlerFixed DEF TypeOK, Elems
<1>1. CASE handler # S2Xdp
  <2>1. CountInv'
    BY <1>1, OtherSteps, CountInvStep DEF XdpInv, CountInv
  <2> QED
    BY <2>1 DEF CountInv, XdpInv, PointerInv, OwnPointers
<1> SUFFICES ASSUME handler = S2Xdp PROVE (OneOwner /\ CountExact /\ OwnPointers)'
  BY <1>0, <1>1 DEF XdpInv
<1> USE DEF XdpInv
<1>2. ASSUME NEW c \in CPUs, XdpInsert(c) PROVE (OneOwner /\ CountExact /\ OwnPointers)'
  <2> DEFINE k == call[c].key
  <2>1. PICK evicted \in SUBSET Linked, e \in Elems :
           /\ LruUpdate(k, 1, e, evicted)
           /\ lossy' = lossy \cup evicted \cup IF k \in Linked \/ PointedTo(e) THEN {k} ELSE {}
    BY <1>2 DEF XdpInsert
  <2>2. /\ k \in Keys /\ call[c].next = "insert" /\ SampledByClock(c, k)
        /\ hits' = [hits EXCEPT ![k] = @ + 1]
    BY <1>2 DEF XdpInsert, SourceCounted, TypeOK
  <2>3. OneOwner'
    BY <1>0, <2>1, <2>2, LruOneOwner
  <2>4. entry'[k] = e /\ value'[e] = 1
    BY <1>0, <2>1, <2>2 DEF LruUpdate, HashTypeOK
  <2>5. ASSUME NEW j \in Keys \ lossy', j # k
        PROVE  entry'[j] = entry[j] /\ Stored(j)' = Stored(j) /\ hits'[j] = hits[j] /\ j \notin lossy
    <3>1. j \notin evicted /\ j \notin lossy
      BY <2>1
    <3>2. entry'[j] = entry[j]
      BY <2>1, <2>5, <3>1 DEF LruUpdate
    <3>3. entry[j] # e
      BY <2>3, <2>4, <2>2, <2>5, <3>2, <1>0 DEF OneOwner
    <3>4. entry[j] # NoElem => value'[entry[j]] = value[entry[j]]
      BY <1>0, <2>1, <3>3 DEF LruUpdate, HashTypeOK
    <3> QED
      BY <1>0, <2>2, <2>5, <3>1, <3>2, <3>4 DEF Stored
  <2>6. ASSUME k \notin lossy'
        PROVE  entry[k] = NoElem /\ hits'[k] = 1 /\ ~PointedTo(e) /\ k \notin lossy
    <3>1. entry[k] = NoElem /\ k \notin lossy /\ ~PointedTo(e)
      BY <2>1, <2>2, <2>6 DEF Linked
    <3>2. hits[k] = 0
      BY <2>2, <3>1 DEF CountExact, Stored
    <3> QED
      BY <1>0, <2>2, <3>1, <3>2
  <2>7. CountExact'
    BY <1>0, <2>4, <2>5, <2>6 DEF CountExact, Stored
  <2>8. ASSUME NEW b \in CPUs, call'[b].next = "add", NEW j \in Keys \ lossy'
        PROVE  call'[b].key = j <=> call'[b].ptr = entry'[j]
    <3>1. b # c /\ call'[b] = call[b]
      BY <1>0, <2>2, <2>8, SampledType
    <3>2. call[b].ptr \in Elems
      BY <2>8, <3>1 DEF TypeOK
    <3>3. CASE j # k
      BY <2>5, <2>8, <3>1, <3>3 DEF OwnPointers
    <3>4. CASE j = k
      <4>1. call[b].ptr # e
        BY <2>6, <2>8, <3>1, <3>4 DEF PointedTo
      <4>2. call[b].key # k
        BY <1>0, <2>6, <2>8, <3>1, <3>2, <3>4, <2>2 DEF OwnPointers
      <4> QED
        BY <2>4, <3>1, <3>4, <4>1, <4>2
    <3> QED
      BY <3>3, <3>4
  <2>9. OwnPointers'
    BY <2>8 DEF OwnPointers
  <2> QED
    BY <2>3, <2>7, <2>9
<1>3. ASSUME NEW c \in CPUs, XdpAdd(c) PROVE (OneOwner /\ CountExact /\ OwnPointers)'
  <2> DEFINE k == call[c].key
             p == call[c].ptr
  <2>1. /\ k \in Keys /\ p \in Elems /\ call[c].next = "add"
        /\ value' = [value EXCEPT ![p] = value[p] + 1] /\ UNCHANGED <<entry, free, extra, lossy>>
        /\ SampledByClock(c, k) /\ hits' = [hits EXCEPT ![k] = @ + 1]
    BY <1>3 DEF XdpAdd, SourceCounted, Write, TypeOK
  <2>2. OneOwner'
    BY <2>1 DEF OneOwner
  <2>3. \A j \in Keys \ lossy : k = j <=> p = entry[j]
    BY <2>1 DEF OwnPointers
  <2>4. CountExact'
    <3> SUFFICES ASSUME NEW j \in Keys \ lossy PROVE Stored(j)' = hits'[j]
      BY <2>1 DEF CountExact
    <3>1. hits'[j] = IF j = k THEN hits[j] + 1 ELSE hits[j]
      BY <1>0, <2>1
    <3>2. Stored(j) = hits[j]
      BY DEF CountExact
    <3>3. Stored(j)' = IF j = k THEN Stored(j) + 1 ELSE Stored(j)
      BY <1>0, <2>1, <2>3 DEF Stored, HashTypeOK
    <3> QED
      BY <3>1, <3>2, <3>3
  <2>5. \A b \in CPUs : call'[b].next = "add" => call'[b] = call[b]
    BY <1>0, <2>1, SampledType
  <2>6. OwnPointers'
    BY <2>1, <2>5 DEF OwnPointers
  <2> QED
    BY <2>2, <2>4, <2>6
<1>4. ASSUME NEW c \in CPUs, NEW k \in Keys, Packet(c, k)
      PROVE  (OneOwner /\ CountExact /\ OwnPointers)'
  <2>1. UNCHANGED <<entry, value, free, extra, hits, lossy>>
    BY <1>4 DEF Packet, hashVars
  <2>2. ASSUME NEW b \in CPUs, call'[b].next = "add"
        PROVE  \/ call'[b] = call[b]
               \/ call'[b].key = k /\ call'[b].ptr = entry[k] /\ entry[k] # NoElem
    <3>1. CASE UNCHANGED call
      BY <3>1
    <3>2. CASE SampledByClock(c, k)
      BY <1>0, <2>2, <3>2, SampledType
    <3>3. CASE call' = [call EXCEPT ![c] = [next  |-> IF k \in Linked THEN "add" ELSE "insert",
                                            key   |-> k,
                                            ptr   |-> entry[k],
                                            count |-> 0]]
      BY <1>0, <2>2, <3>3 DEF Linked
    <3> QED
      BY <1>4, <3>1, <3>2, <3>3 DEF Packet
  <2>3. OwnPointers'
    BY <2>1, <2>2 DEF OwnPointers, OneOwner
  <2> QED
    BY <2>1, <2>3 DEF OneOwner, CountExact, Stored
<1>5. ASSUME NEW c \in CPUs, Reserve(c) \/ ReserveFails(c) \/ Submit(c)
      PROVE  (OneOwner /\ CountExact /\ OwnPointers)'
  <2>1. UNCHANGED <<entry, value, free, extra, hits, lossy>>
    BY <1>5 DEF Reserve, ReserveFails, Submit, hashVars
  <2>2. \A b \in CPUs : call'[b].next = "add" => call'[b] = call[b]
    BY <1>0, <1>5, ReturnStep
  <2> QED
    BY <2>1, <2>2 DEF OneOwner, CountExact, Stored, OwnPointers
<1>6. CASE Consume \/ UNCHANGED xdpVars
  BY <1>6 DEF Consume, xdpVars, vars, hashVars, OneOwner, CountExact, Stored, OwnPointers
<1> QED
  BY <1>2, <1>3, <1>4, <1>5, <1>6 DEF XdpNext, OtherNext

LEMMA XdpInvariant == XdpSpec => [](TypeOK /\ XdpInv)
<1>1. XdpInit => TypeOK /\ XdpInv
  <2> SUFFICES ASSUME XdpInit PROVE TypeOK /\ XdpInv
    OBVIOUS
  <2> USE DEF XdpInit, Init, HashInit
  <2>1. TypeOK
    BY DEF TypeOK, HashTypeOK, Idle, Call, Elems
  <2>2. OneOwner /\ CountExact
    BY DEF OneOwner, CountExact, Stored
  <2> QED
    BY <2>1, <2>2 DEF XdpInv, OwnPointers, PointerInv, Idle
<1> QED
  BY <1>1, XdpTypeStep, XdpInvStep, PTL DEF XdpSpec

(* Whether the map refuses or evicts: a key that was never evicted, whose  *)
(* insertion replaced nothing and took no element that a program still     *)
(* points to, is counted exactly, and no element has two owners.           *)
THEOREM XdpCountCorrect == XdpSpec => [](OneOwner /\ CountExact)
<1>1. XdpInv => OneOwner /\ CountExact
  BY DEF XdpInv
<1> QED
  BY <1>1, XdpInvariant, PTL

(* While the program is not S2 xdp, the two kinds of map are one system:   *)
(* what XdpCounter does EventCounter allows.                               *)
THEOREM OthersCountAsBefore == handler # S2Xdp /\ XdpSpec => Spec
<1>1. XdpInit => Init
  BY DEF XdpInit
<1>2. handler # S2Xdp /\ [XdpNext]_xdpVars => (handler # S2Xdp)'
  BY XdpHandlerFixed
<1> QED
  BY <1>1, <1>2, OtherSteps, PTL DEF XdpSpec, Spec
-----------------------------------------------------------------------------
(* The map as a whole: a step that adds 1 to the calls of some key adds at *)
(* most 1 to what one element shows.                                       *)
NoneGrows == UNCHANGED hits /\ \A j \in Keys : Stored(j)' <= Stored(j)

Grows(j, k) == /\ hits' = [hits EXCEPT ![k] = @ + 1]
               /\ Stored(j)' <= Stored(j) + 1
               /\ \A i \in Keys : i # j => Stored(i)' <= Stored(i)

OneGrows == \E j, k \in Keys : Grows(j, k)

LEMMA StoredType == ASSUME HashTypeOK(Nat) PROVE \A k \in Keys : Stored(k) \in Nat
BY DEF HashTypeOK, Stored

LEMMA TotalStep ==
    ASSUME TypeOK, TypeOK', TotalNeverExceedsHits, NoneGrows \/ OneGrows
    PROVE  TotalNeverExceedsHits'
<1> DEFINE f == [k \in Keys |-> Stored(k)]
           S == Keys
<1>1. IsFiniteSet(S) /\ hits \in [S -> Int] /\ hits' \in [S -> Int]
  BY FiniteAssumption DEF TypeOK
<1>2. /\ f \in [S -> Int] /\ f' \in [S -> Int]
      /\ \A k \in S : f[k] = Stored(k) /\ f'[k] = Stored(k)' /\ Stored(k) \in Int /\ Stored(k)' \in Int
  <2>1. \A k \in Keys : Stored(k) \in Nat /\ Stored(k)' \in Nat
    BY DEF TypeOK, HashTypeOK, Stored
  <2>2. f' = [k \in Keys |-> Stored(k)']
    OBVIOUS
  <2> QED
    BY <2>1, <2>2
<1>3. /\ TotalStored = SumFunctionOnSet(f, S) /\ TotalStored' = SumFunctionOnSet(f', S)
      /\ TotalHits = SumFunctionOnSet(hits, S) /\ TotalHits' = SumFunctionOnSet(hits', S)
  BY DEF TotalStored, TotalHits
<1>4. PICK g : g = f'
  OBVIOUS
<1> HIDE DEF f, S
<1>5. /\ SumFunctionOnSet(f, S) \in Int /\ SumFunctionOnSet(g, S) \in Int
      /\ SumFunctionOnSet(hits, S) \in Int
  BY <1>1, <1>2, <1>4, SumType
<1>6. CASE NoneGrows
  <2>1. \A k \in S : g[k] <= f[k]
    BY <1>2, <1>4, <1>6 DEF NoneGrows, S
  <2>2. SumFunctionOnSet(g, S) <= SumFunctionOnSet(f, S)
    BY <1>1, <1>2, <1>4, <2>1, SumMonotone
  <2>3. hits' = hits
    BY <1>6 DEF NoneGrows
  <2> QED
    BY <1>3, <1>4, <1>5, <2>2, <2>3 DEF TotalNeverExceedsHits
<1>7. CASE OneGrows
  <2>1. PICK j, k \in S : /\ hits' = [hits EXCEPT ![k] = @ + 1]
                          /\ Stored(j)' <= Stored(j) + 1
                          /\ \A i \in S : i # j => Stored(i)' <= Stored(i)
    BY <1>7 DEF OneGrows, Grows, S
  <2>2. g[j] <= f[j] + 1 /\ \A i \in S : i # j => g[i] <= f[i]
    BY <1>2, <1>4, <2>1
  <2>3. SumFunctionOnSet(g, S) <= SumFunctionOnSet(f, S) + 1
    BY <1>1, <1>2, <1>4, <2>2, SumGrowsByOne
  <2>4. PICK h : h = hits'
    OBVIOUS
  <2>5. /\ h \in [S -> Int] /\ h[k] = hits[k] + 1 /\ hits[k] \in Int
        /\ \A x \in S : x # k => h[x] = hits[x]
    BY <1>1, <2>1, <2>4
  <2>6. SumFunctionOnSet(h, S) = SumFunctionOnSet(hits, S) + h[k] - hits[k]
    BY <1>1, <2>5, SumUpdate
  <2>7. SumFunctionOnSet(h, S) = SumFunctionOnSet(hits, S) + 1
    BY <1>5, <2>5, <2>6
  <2> QED
    BY <1>3, <1>4, <1>5, <2>3, <2>4, <2>7 DEF TotalNeverExceedsHits
<1> QED
  BY <1>6, <1>7

LEMMA TotalInit == Init => TotalNeverExceedsHits
<1> SUFFICES ASSUME Init PROVE TotalNeverExceedsHits
  OBVIOUS
<1> DEFINE f == [k \in Keys |-> Stored(k)]
<1>1. f \in [Keys -> Int] /\ \A k \in Keys : f[k] = 0
  BY DEF Init, HashInit, Stored
<1>2. hits \in [Keys -> Int] /\ \A k \in Keys : hits[k] = 0
  BY DEF Init
<1> HIDE DEF f
<1>3. SumFunctionOnSet(f, Keys) = 0 /\ SumFunctionOnSet(hits, Keys) = 0
  BY <1>1, <1>2, FiniteAssumption, SumZero
<1> QED
  BY <1>3 DEF TotalNeverExceedsHits, TotalStored, TotalHits, f

(* An add shows in the one key, if any, whose element the pointer is.      *)
LEMMA AddGrows ==
    ASSUME HashTypeOK(Nat), OneOwner, NEW p \in Elems, Write(p, value[p] + 1),
           NEW k \in Keys, hits' = [hits EXCEPT ![k] = @ + 1]
    PROVE  OneGrows
<1>1. entry' = entry /\ value' = [value EXCEPT ![p] = value[p] + 1] /\ NoElem \notin Elems
  BY DEF Write, Elems
<1>2. \A j \in Keys : Stored(j)' = IF entry[j] = p THEN Stored(j) + 1 ELSE Stored(j)
  BY <1>1 DEF HashTypeOK, Stored
<1>3. \A j \in Keys : Stored(j) \in Nat
  BY StoredType
<1>4. CASE \E j \in Keys : entry[j] = p
  <2>1. PICK j \in Keys : entry[j] = p
    BY <1>4
  <2>2. \A i \in Keys : i # j => entry[i] # p
    BY <1>1, <2>1 DEF OneOwner
  <2>3. Stored(j)' <= Stored(j) + 1 /\ \A i \in Keys : i # j => Stored(i)' <= Stored(i)
    BY <1>2, <1>3, <2>1, <2>2
  <2>4. Grows(j, k)
    BY <2>3 DEF Grows
  <2> QED
    BY <2>1, <2>4 DEF OneGrows
<1>5. CASE \A j \in Keys : entry[j] # p
  <2>1. Stored(k)' <= Stored(k) + 1 /\ \A i \in Keys : i # k => Stored(i)' <= Stored(i)
    BY <1>2, <1>3, <1>5
  <2>2. Grows(k, k)
    BY <2>1 DEF Grows
  <2> QED
    BY <2>2 DEF OneGrows
<1> QED
  BY <1>4, <1>5

(* An insertion shows at most in its own key.                              *)
LEMMA InsertGrows ==
    ASSUME HashTypeOK(Nat), OneOwner, NEW c \in CPUs, NEW k \in Keys, Update(c, k, 1),
           hits' = [hits EXCEPT ![k] = @ + 1]
    PROVE  OneGrows
<1>1. \A j \in Keys : Stored(j) \in Nat
  BY StoredType
<1>2. \A i \in Keys : i # k => Stored(i)' = Stored(i)
  BY UpdateOthers
<1>3. Stored(k)' <= Stored(k) + 1
  <2>1. CASE Replace(c, k, 1)
    BY <1>1, <2>1 DEF Replace, HashTypeOK, Stored
  <2>2. CASE Link(k, 1)
    BY <1>1, <2>2 DEF Link, HashTypeOK, Stored
  <2>3. CASE Refuse(k)
    BY <1>1, <2>3 DEF Refuse, hashVars, Stored
  <2> QED
    BY <2>1, <2>2, <2>3 DEF Update
<1>4. Grows(k, k)
  BY <1>1, <1>2, <1>3 DEF Grows
<1> QED
  BY <1>4 DEF OneGrows

LEMMA NextGrows == TypeOK /\ OneOwner /\ [Next]_vars => NoneGrows \/ OneGrows
<1> SUFFICES ASSUME TypeOK, OneOwner, [Next]_vars PROVE NoneGrows \/ OneGrows
  OBVIOUS
<1>0. HashTypeOK(Nat) /\ \A j \in Keys : Stored(j) \in Nat
  BY StoredType DEF TypeOK
<1>1. ASSUME NEW c \in CPUs, Insert(c) PROVE OneGrows
  BY <1>0, <1>1, InsertGrows DEF Insert, Counted, TypeOK
<1>2. ASSUME NEW c \in CPUs, Add(c) PROVE OneGrows
  BY <1>0, <1>2, AddGrows DEF Add, Counted, TypeOK
<1>3. ASSUME UNCHANGED <<entry, value, hits>> PROVE NoneGrows
  BY <1>0, <1>3 DEF NoneGrows, Stored
<1>4. ASSUME NEW c \in CPUs, Reserve(c) \/ ReserveFails(c) \/ Submit(c) \/ \E k \in Keys : Enter(c, k)
      PROVE  UNCHANGED <<entry, value, hits>>
  BY <1>4 DEF Reserve, ReserveFails, Submit, Enter, hashVars
<1>5. ASSUME Consume \/ UNCHANGED vars PROVE UNCHANGED <<entry, value, hits>>
  BY <1>5 DEF Consume, vars, hashVars
<1> QED
  BY <1>1, <1>2, <1>3, <1>4, <1>5 DEF Next, Run

(* However insertions race, replace and are refused, the stored counts of  *)
(* all keys together never exceed the calls made.                          *)
THEOREM TotalCorrect == Spec => []TotalNeverExceedsHits
<1>1. TypeOK /\ TypeOK' /\ OneOwner /\ TotalNeverExceedsHits /\ [Next]_vars => TotalNeverExceedsHits'
  BY NextGrows, TotalStep
<1> QED
  BY <1>1, TotalInit, TypeCorrect, CountCorrect, PTL DEF Spec
-----------------------------------------------------------------------------
(* The same with evictions, and the packets that S2 xdp has still to count *)
(* under a source.                                                         *)
LEMMA XdpGrows == TypeOK /\ OneOwner /\ [XdpNext]_xdpVars => NoneGrows \/ OneGrows
<1> SUFFICES ASSUME TypeOK, OneOwner, [XdpNext]_xdpVars PROVE NoneGrows \/ OneGrows
  OBVIOUS
<1>0. HashTypeOK(Nat) /\ \A j \in Keys : Stored(j) \in Nat
  BY StoredType DEF TypeOK
<1>1. CASE [Next]_vars
  BY <1>1, NextGrows
<1>2. ASSUME NEW c \in CPUs, XdpAdd(c) PROVE OneGrows
  BY <1>0, <1>2, AddGrows DEF XdpAdd, SourceCounted, TypeOK
<1>3. ASSUME NEW c \in CPUs, XdpInsert(c) PROVE OneGrows
  <2>1. PICK k \in Keys : k = call[c].key /\ hits' = [hits EXCEPT ![k] = @ + 1]
    BY <1>3 DEF XdpInsert, SourceCounted, TypeOK
  <2>2. PICK evicted \in SUBSET Linked, e \in Elems : LruUpdate(k, 1, e, evicted)
    BY <1>3, <2>1 DEF XdpInsert
  <2>3. OneOwner'
    BY <1>0, <2>2, <2>1, LruOneOwner
  <2>4. NoElem \notin Elems
    BY DEF Elems
  <2>5. entry'[k] = e /\ value' = [value EXCEPT ![e] = 1] /\ NoElem \notin Elems
    BY <2>4, <2>2, <2>1 DEF LruUpdate
  <2>6. Stored(k)' <= Stored(k) + 1
    BY <1>0, <2>1, <2>5 DEF Stored, HashTypeOK
  <2>7. ASSUME NEW j \in Keys, j # k PROVE Stored(j)' <= Stored(j)
    <3>1. entry'[j] # e
      BY <2>1, <2>3, <2>5, <2>7 DEF OneOwner
    <3>2. entry'[j] \in {NoElem, entry[j]}
      BY <2>2, <2>7 DEF LruUpdate
    <3>3. Stored(j)' \in {0, Stored(j)}
      BY <1>0, <2>5, <3>1, <3>2 DEF Stored, HashTypeOK
    <3> QED
      BY <1>0, <3>3
  <2>8. Grows(k, k)
    BY <2>1, <2>6, <2>7 DEF Grows
  <2> QED
    BY <2>1, <2>8 DEF OneGrows
<1>4. ASSUME NEW c \in CPUs, NEW k \in Keys, Packet(c, k) PROVE NoneGrows
  BY <1>0, <1>4 DEF Packet, hashVars, NoneGrows, Stored
<1>5. OtherNext \/ Consume => Next
  BY DEF OtherNext, Next, Run
<1>6. UNCHANGED xdpVars => UNCHANGED vars
  BY DEF xdpVars
<1> QED
  BY <1>1, <1>2, <1>3, <1>4, <1>5, <1>6 DEF XdpNext

(* Evictions, which put an element under another key while a program still *)
(* adds through a pointer to it, do not change that: counts go astray but  *)
(* none is invented.                                                       *)
THEOREM XdpTotalCorrect == XdpSpec => []TotalNeverExceedsHits
<1>1. TypeOK /\ XdpInv /\ TypeOK' /\ TotalNeverExceedsHits /\ [XdpNext]_xdpVars
         => TotalNeverExceedsHits'
  BY XdpGrows, TotalStep DEF XdpInv
<1>2. XdpInit => TotalNeverExceedsHits
  BY TotalInit DEF XdpInit
<1> QED
  BY <1>1, <1>2, XdpInvariant, PTL DEF XdpSpec

\* The packets whose source is looked up but not counted yet.
Uncounted == {c \in CPUs : call[c].next \in {"insert", "add"}}

PacketInv == /\ packets \in Nat
             /\ handler = S2Xdp => TotalHits + Cardinality(Uncounted) <= packets

LEMMA OneCall ==
    ASSUME NEW c \in CPUs, \A b \in CPUs \ {c} : call'[b] = call[b]
    PROVE  /\ IsFiniteSet(Uncounted) /\ Cardinality(Uncounted) \in Nat
           /\ IsFiniteSet(Uncounted') /\ Cardinality(Uncounted') \in Nat
           /\ c \in Uncounted' /\ c \notin Uncounted
                => Cardinality(Uncounted') = Cardinality(Uncounted) + 1
           /\ c \notin Uncounted' /\ c \in Uncounted
                => Cardinality(Uncounted') = Cardinality(Uncounted) - 1
           /\ (c \in Uncounted' <=> c \in Uncounted)
                => Cardinality(Uncounted') = Cardinality(Uncounted)
<1>1. IsFiniteSet(Uncounted) /\ IsFiniteSet(Uncounted')
  <2>1. Uncounted \subseteq CPUs /\ Uncounted' \subseteq CPUs
    BY DEF Uncounted
  <2> QED
    BY <2>1, FiniteAssumption, FS_Subset
<1>2. \A b \in CPUs \ {c} : b \in Uncounted' <=> b \in Uncounted
  BY DEF Uncounted
<1>3. CASE c \in Uncounted' /\ c \notin Uncounted
  <2>1. Uncounted' = Uncounted \cup {c}
    BY <1>2, <1>3 DEF Uncounted
  <2> QED
    BY <1>1, <1>3, <2>1, FS_AddElement, FS_CardinalityType
<1>4. CASE c \notin Uncounted' /\ c \in Uncounted
  <2>1. Uncounted' = Uncounted \ {c}
    BY <1>2, <1>4 DEF Uncounted
  <2> QED
    BY <1>1, <1>4, <2>1, FS_RemoveElement, FS_CardinalityType
<1>5. CASE c \in Uncounted' <=> c \in Uncounted
  <2>1. Uncounted' = Uncounted
    BY <1>2, <1>5 DEF Uncounted
  <2> QED
    BY <1>1, <1>5, <2>1, FS_CardinalityType
<1> QED
  BY <1>3, <1>4, <1>5

LEMMA HitCounted ==
    ASSUME TypeOK, NEW k \in Keys, hits' = [hits EXCEPT ![k] = @ + 1]
    PROVE  TotalHits \in Int /\ TotalHits' = TotalHits + 1
<1>1. hits \in [Keys -> Int] /\ IsFiniteSet(Keys)
  BY FiniteAssumption DEF TypeOK
<1>2. PICK h : h = hits'
  OBVIOUS
<1>3. h \in [Keys -> Int] /\ h[k] = hits[k] + 1 /\ hits[k] \in Int
      /\ \A x \in Keys : x # k => h[x] = hits[x]
  BY <1>1, <1>2
<1>4. /\ SumFunctionOnSet(h, Keys) = SumFunctionOnSet(hits, Keys) + h[k] - hits[k]
      /\ SumFunctionOnSet(hits, Keys) \in Int
  BY <1>1, <1>3, SumUpdate, SumType
<1> QED
  BY <1>2, <1>3, <1>4 DEF TotalHits

LEMMA PacketStep == TypeOK /\ PacketInv /\ [XdpNext]_xdpVars => PacketInv'
<1> SUFFICES ASSUME TypeOK, PacketInv, [XdpNext]_xdpVars PROVE PacketInv'
  OBVIOUS
<1>0. call \in [CPUs -> Call] /\ handler' = handler /\ packets \in Nat /\ TotalHits \in Int
  BY XdpHandlerFixed, FiniteAssumption, SumType DEF TypeOK, PacketInv, TotalHits
<1>1. packets' \in Nat
  BY <1>0 DEF XdpNext, XdpInsert, XdpAdd, SourceCounted, Packet, OtherNext, xdpVars
<1> SUFFICES ASSUME handler = S2Xdp PROVE TotalHits' + Cardinality(Uncounted') <= packets'
  BY <1>0, <1>1 DEF PacketInv
<1>2. TotalHits + Cardinality(Uncounted) <= packets
  BY DEF PacketInv
<1>3. ASSUME NEW c \in CPUs, XdpInsert(c) \/ XdpAdd(c)
      PROVE  TotalHits' + Cardinality(Uncounted') <= packets'
  <2>1. /\ call[c].next \in {"insert", "add"} /\ call[c].key \in Keys /\ packets' = packets
        /\ SampledByClock(c, call[c].key) /\ hits' = [hits EXCEPT ![call[c].key] = @ + 1]
    BY <1>3 DEF XdpInsert, XdpAdd, SourceCounted, TypeOK
  <2>2. (\A b \in CPUs \ {c} : call'[b] = call[b]) /\ call'[c].next \in {"idle", "reserve"}
    BY <1>0, <2>1, SampledType
  <2>3. c \in Uncounted /\ c \notin Uncounted'
    BY <2>1, <2>2 DEF Uncounted
  <2>4. /\ Cardinality(Uncounted') = Cardinality(Uncounted) - 1
        /\ Cardinality(Uncounted) \in Nat
    BY <2>2, <2>3, OneCall
  <2>5. TotalHits' = TotalHits + 1
    BY <2>1, HitCounted
  <2> QED
    BY <1>0, <1>2, <2>1, <2>4, <2>5
<1>4. ASSUME NEW c \in CPUs, NEW k \in Keys, Packet(c, k)
      PROVE  TotalHits' + Cardinality(Uncounted') <= packets'
  <2>1. packets' = packets + 1 /\ hits' = hits /\ call[c].next = "idle"
    BY <1>4 DEF Packet
  <2>2. \A b \in CPUs \ {c} : call'[b] = call[b]
    <3>1. CASE UNCHANGED call
      BY <3>1
    <3>2. CASE SampledByClock(c, k)
      BY <1>0, <3>2, SampledType
    <3>3. CASE call' = [call EXCEPT ![c] = [next  |-> IF k \in Linked THEN "add" ELSE "insert",
                                            key   |-> k,
                                            ptr   |-> entry[k],
                                            count |-> 0]]
      BY <1>0, <3>3
    <3> QED
      BY <1>4, <3>1, <3>2, <3>3 DEF Packet
  <2>3. c \notin Uncounted
    BY <2>1 DEF Uncounted
  <2>4. /\ Cardinality(Uncounted') <= Cardinality(Uncounted) + 1
        /\ Cardinality(Uncounted) \in Nat /\ Cardinality(Uncounted') \in Nat
    BY <2>2, <2>3, OneCall
  <2>5. TotalHits' = TotalHits
    BY <2>1 DEF TotalHits
  <2> QED
    BY <1>0, <1>2, <2>1, <2>4, <2>5
<1>5. ASSUME NEW c \in CPUs, Reserve(c) \/ ReserveFails(c) \/ Submit(c), packets' = packets
      PROVE  TotalHits' + Cardinality(Uncounted') <= packets'
  <2>1. /\ \A b \in CPUs \ {c} : call'[b] = call[b]
        /\ call'[c].next \in {"submit", "idle"}
    BY <1>0, <1>5, ReturnStep
  <2>2. call[c].next \in {"reserve", "submit"} /\ hits' = hits
    BY <1>5 DEF Reserve, ReserveFails, Submit
  <2>3. c \notin Uncounted /\ c \notin Uncounted'
    BY <2>1, <2>2 DEF Uncounted
  <2>4. Cardinality(Uncounted') = Cardinality(Uncounted) /\ TotalHits' = TotalHits
    BY <2>1, <2>2, <2>3, OneCall DEF TotalHits
  <2> QED
    BY <1>2, <1>5, <2>4
<1>6. ASSUME UNCHANGED <<call, hits, packets>>
      PROVE  TotalHits' + Cardinality(Uncounted') <= packets'
  <2>1. Uncounted' = Uncounted /\ TotalHits' = TotalHits
    BY <1>6 DEF Uncounted, TotalHits
  <2> QED
    BY <1>2, <1>6, <2>1
<1>7. (Consume /\ UNCHANGED packets) \/ UNCHANGED xdpVars => UNCHANGED <<call, hits, packets>>
  BY DEF Consume, xdpVars, vars
<1> QED
  BY <1>3, <1>4, <1>5, <1>6, <1>7 DEF XdpNext, OtherNext

(* The counts of all sources never exceed the packets that xdp_statistics  *)
(* has counted: each packet adds to at most one source's element, once.    *)
THEOREM SourcesCorrect == XdpSpec => []SourcesWithinPackets
<1>1. XdpInit => PacketInv
  <2> SUFFICES ASSUME XdpInit PROVE PacketInv
    OBVIOUS
  <2>1. Uncounted = {}
    BY DEF XdpInit, Init, Idle, Uncounted
  <2>2. hits \in [Keys -> Int] /\ \A k \in Keys : hits[k] = 0
    BY DEF XdpInit, Init
  <2>3. TotalHits = 0
    BY <2>2, FiniteAssumption, SumZero DEF TotalHits
  <2> QED
    BY <2>1, <2>3, FS_EmptySet DEF PacketInv, XdpInit
<1>2. TypeOK /\ TotalNeverExceedsHits /\ PacketInv => SourcesWithinPackets
  <2> SUFFICES ASSUME TypeOK, TotalNeverExceedsHits, PacketInv, handler = S2Xdp
               PROVE  TotalStored <= packets
    BY DEF SourcesWithinPackets
  <2>1. [k \in Keys |-> Stored(k)] \in [Keys -> Int] /\ hits \in [Keys -> Int]
    BY StoredType DEF TypeOK
  <2>2. TotalStored \in Int /\ TotalHits \in Int
    BY <2>1, FiniteAssumption, SumType DEF TotalStored, TotalHits
  <2>3. Cardinality(Uncounted) \in Nat
    <3>1. Uncounted \subseteq CPUs
      BY DEF Uncounted
    <3> QED
      BY <3>1, FiniteAssumption, FS_Subset, FS_CardinalityType
  <2> QED
    BY <2>2, <2>3 DEF TotalNeverExceedsHits, PacketInv
<1> QED
  BY <1>1, <1>2, PacketStep, XdpInvariant, XdpTotalCorrect, PTL DEF XdpSpec
=============================================================================
