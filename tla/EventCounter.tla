---------------------------- MODULE EventCounter ----------------------------
(***************************************************************************)
(* The count-and-emit programs: on every hook they look the key (a PID, a  *)
(* cgroup, an address) up in a hash map, insert 1 when it is absent, add 1 *)
(* through the pointer when it is present, and report the new count in a   *)
(* record of a ring buffer that a user-space loader drains.                *)
(*                                                                         *)
(* A program runs to completion on its CPU and never blocks; programs on   *)
(* different CPUs interleave at every helper call and atomic add, so the   *)
(* process of this model is the CPU.                                       *)
(***************************************************************************)
EXTENDS BpfHash, Naturals, Sequences, FiniteSets, Functions

CONSTANTS SamplePeriod, \* the 100 of "% 100"; a smaller period for TLC
          Handlers,     \* the programs under check (see the profiles below)
          RingCap,      \* records that fit the ring buffer
          MaxHits       \* bound: calls per key after which none starts

ASSUME CounterAssumption ==
    /\ SamplePeriod \in Nat \ {0}
    /\ RingCap \in Nat \ {0}
    /\ MaxHits \in Nat
    /\ \A h \in Handlers : h.every \in Nat \ {0} /\ h.emits \in BOOLEAN

\* A key is a machine word.
ASSUME FiniteAssumption == IsFiniteSet(Keys) /\ IsFiniteSet(CPUs)
-----------------------------------------------------------------------------
(* One profile per program: it reports every "every"-th count of a key, or *)
(* only counts.  What differs beyond that is the key and the fields copied *)
(* into the event.  bpf_ringbuf_output (S1 kprobe) reserves, copies and    *)
(* commits in one call, with the same intermediate states as the others.   *)
(* The S2 socket filter is modelled as it is written, though the verifier  *)
(* refuses it for reading skb->data.                                       *)

S1Kprobe       == [every |-> 1, emits |-> TRUE]
S1Uprobe       == [every |-> 1, emits |-> FALSE]
S1SkLookup     == [every |-> 1, emits |-> FALSE]
S2Kprobe       == [every |-> 1, emits |-> TRUE]
S2Tracepoint   == [every |-> 1, emits |-> TRUE]
S2RawTp        == [every |-> 1, emits |-> TRUE]
S2Uprobe       == [every |-> 1, emits |-> TRUE]
S2SkLookup     == [every |-> 1, emits |-> TRUE]
S2PerfEvent    == [every |-> SamplePeriod, emits |-> TRUE]
S2SocketFilter == [every |-> SamplePeriod, emits |-> TRUE]
S2CgroupSkb    == [every |-> SamplePeriod, emits |-> TRUE]
S2CgroupBpf    == [every |-> 1, emits |-> TRUE]
S2CgroupDevice == [every |-> 1, emits |-> TRUE]
S2CgroupSock   == [every |-> 1, emits |-> TRUE]
S2SockAddr     == [every |-> 1, emits |-> TRUE]
S2Sockopt      == [every |-> 1, emits |-> TRUE]
S2Sysctl       == [every |-> 1, emits |-> TRUE]

AllHandlers == {S1Kprobe, S1Uprobe, S1SkLookup, S2Kprobe, S2Tracepoint, S2RawTp,
                S2Uprobe, S2SkLookup, S2PerfEvent, S2SocketFilter, S2CgroupSkb,
                S2CgroupBpf, S2CgroupDevice, S2CgroupSock, S2SockAddr, S2Sockopt,
                S2Sysctl}
-----------------------------------------------------------------------------

VARIABLES handler, \* the program attached to the hook
          call,    \* what each CPU is doing: its next step and the program's locals
          ring,    \* every record ever reserved, in reservation order
          taken,   \* how many of them the loader has consumed
          \* history:
          hits,    \* counts taken per key: each call adds one here
          lossy,   \* keys for which an update_elem replaced a live entry or was refused
          dropped  \* counts per key whose reservation failed

ringVars == <<ring, taken>>
vars == <<handler, hashVars, call, ringVars, hits, lossy, dropped>>

\* The locals of a call: pid/cgroup_id/daddr, the looked-up pointer, new_count.
Call == [next  : {"idle", "insert", "add", "reserve", "submit"},
         key   : Keys \cup {NoElem},
         ptr   : Elems \cup {NoElem},
         count : Nat]

Idle == [next |-> "idle", key |-> NoElem, ptr |-> NoElem, count |-> 0]

Record == [cpu : CPUs, key : Keys, count : Nat, busy : BOOLEAN]

TypeOK == /\ HashTypeOK(Nat)
          /\ handler \in Handlers
          /\ call \in [CPUs -> Call]
          /\ \A c \in CPUs : /\ call[c].next # "idle" => call[c].key \in Keys
                             /\ call[c].next = "add" => call[c].ptr \in Elems
          /\ ring \in Seq(Record)
          /\ taken \in 0..Len(ring)
          /\ hits \in [Keys -> Nat]
          /\ lossy \in SUBSET Keys
          /\ dropped \in [Keys -> SUBSET Nat]

Init == /\ HashInit(0)
        /\ handler \in Handlers
        /\ call = [c \in CPUs |-> Idle]
        /\ ring = <<>>
        /\ taken = 0
        /\ hits = [k \in Keys |-> 0]
        /\ lossy = {}
        /\ dropped = [k \in Keys |-> {}]
-----------------------------------------------------------------------------
(* Each operator named Bad... is a wrong form of the action that follows   *)
(* it; no specification uses it.  It shows that the properties would see   *)
(* the slip its comment describes.                                         *)

\* The looked-up pointer is not compared with NULL.
BadEnter(c, k) ==
    /\ hits[k] < MaxHits
    /\ call[c].next = "idle"
    /\ call' = [call EXCEPT ![c] = [next |-> "add", key |-> k, ptr |-> entry[k], count |-> 0]]
    /\ UNCHANGED <<handler, hashVars, ringVars, hits, lossy, dropped>>

(* The hook fires on CPU c for key k, and the program looks k up.          *)
Enter(c, k) ==
    /\ hits[k] < MaxHits
    /\ call[c].next = "idle"
    /\ call' = [call EXCEPT ![c] = [next  |-> IF entry[k] = NoElem THEN "insert" ELSE "add",
                                    key   |-> k,
                                    ptr   |-> entry[k],
                                    count |-> 0]]
    /\ UNCHANGED <<handler, hashVars, ringVars, hits, lossy, dropped>>

\* new_count is n: go on to the event when it is sampled, else return.
Counted(c, n) ==
    /\ call' = [call EXCEPT ![c] =
                  IF handler.emits /\ n % handler.every = 0
                  THEN [next |-> "reserve", key |-> @.key, ptr |-> NoElem, count |-> n]
                  ELSE Idle]
    /\ hits' = [hits EXCEPT ![call[c].key] = @ + 1]
    /\ UNCHANGED <<handler, ringVars, dropped>>

\* The first call stores 0 instead of 1.
BadInsert(c) ==
    /\ call[c].next = "insert"
    /\ Update(c, call[c].key, 0)
    /\ Counted(c, 1)
    /\ lossy' = IF entry[call[c].key] # NoElem \/ free = {}
                THEN lossy \cup {call[c].key} ELSE lossy

(* The lookup found nothing: store 1.  The result of update_elem is not    *)
(* looked at, so new_count is 1 whatever the call did.                     *)
Insert(c) ==
    /\ call[c].next = "insert"
    /\ Update(c, call[c].key, 1)
    /\ Counted(c, 1)
    /\ lossy' = IF entry[call[c].key] # NoElem \/ free = {}
                THEN lossy \cup {call[c].key} ELSE lossy

\* The counter starts again at 0 after each sampled count.
BadAddResets(c) ==
    LET n == value[call[c].ptr] + 1 IN
    /\ call[c].next = "add"
    /\ Write(call[c].ptr, IF n % handler.every = 0 THEN 0 ELSE n)
    /\ Counted(c, n)
    /\ UNCHANGED lossy

\* A call adds 1 to the element in the lookup branch and again after it.
BadAddTwice(c) ==
    /\ call[c].next = "add"
    /\ Write(call[c].ptr, value[call[c].ptr] + 2)
    /\ Counted(c, value[call[c].ptr] + 2)
    /\ UNCHANGED lossy

\* The lookup found the element: one atomic add through the pointer.
Add(c) ==
    /\ call[c].next = "add"
    /\ Write(call[c].ptr, value[call[c].ptr] + 1)
    /\ Counted(c, value[call[c].ptr] + 1)
    /\ UNCHANGED lossy

\* The event carries new_count + 1.
BadReserve(c) ==
    /\ call[c].next = "reserve"
    /\ Len(ring) - taken < RingCap
    /\ call' = [call EXCEPT ![c].next = "submit"]
    /\ ring' = Append(ring, [cpu |-> c, key |-> call[c].key,
                             count |-> call[c].count + 1, busy |-> TRUE])
    /\ UNCHANGED <<handler, hashVars, taken, hits, lossy, dropped>>

\* bpf_ringbuf_reserve: a record that is the program's until it submits, ...
Reserve(c) ==
    /\ call[c].next = "reserve"
    /\ Len(ring) - taken < RingCap
    /\ call' = [call EXCEPT ![c].next = "submit"]
    /\ ring' = Append(ring, [cpu |-> c, key |-> call[c].key,
                             count |-> call[c].count, busy |-> TRUE])
    /\ UNCHANGED <<handler, hashVars, taken, hits, lossy, dropped>>

\* ... or NULL when the ring is full: the program returns.
ReserveFails(c) ==
    /\ call[c].next = "reserve"
    /\ Len(ring) - taken >= RingCap
    /\ call' = [call EXCEPT ![c] = Idle]
    /\ dropped' = [dropped EXCEPT ![call[c].key] = @ \cup {call[c].count}]
    /\ UNCHANGED <<handler, hashVars, ringVars, hits, lossy>>

\* A path returns without submitting the record it reserved.
BadSubmit(c) ==
    /\ call[c].next = "submit"
    /\ call' = [call EXCEPT ![c] = Idle]
    /\ UNCHANGED <<handler, hashVars, ringVars, hits, lossy, dropped>>

\* bpf_ringbuf_submit: the record is the consumer's, and the program returns.
Submit(c) ==
    /\ call[c].next = "submit"
    /\ call' = [call EXCEPT ![c] = Idle]
    /\ ring' = [i \in DOMAIN ring |-> IF ring[i].cpu = c
                                      THEN [ring[i] EXCEPT !.busy = FALSE] ELSE ring[i]]
    /\ UNCHANGED <<handler, hashVars, taken, hits, lossy, dropped>>

\* ring_buffer__poll hands the oldest record to the callback unless it is busy.
Consume ==
    /\ taken < Len(ring)
    /\ ~ring[taken + 1].busy
    /\ taken' = taken + 1
    /\ UNCHANGED <<handler, hashVars, call, ring, hits, lossy, dropped>>

Run(c) == Insert(c) \/ Add(c) \/ Reserve(c) \/ ReserveFails(c) \/ Submit(c)

Next == \/ \E c \in CPUs : Run(c) \/ \E k \in Keys : Enter(c, k)
        \/ Consume

Spec == Init /\ [][Next]_vars

(* A program that has started terminates (the verifier admits no other),   *)
(* and the loader polls for ever.  Nothing says that a hook fires again.   *)
FairSpec == Spec /\ WF_vars(Consume) /\ \A c \in CPUs : WF_vars(Run(c))
-----------------------------------------------------------------------------
(* Properties                                                              *)

\* What a dump of the map shows for k: 0 stands for "no entry".
Stored(k) == IF entry[k] = NoElem THEN 0 ELSE value[entry[k]]

Pending(k, step) == {c \in CPUs : call[c].key = k /\ call[c].next = step}

(* The stored count of a key is exact as long as no update_elem on it      *)
(* replaced a live entry or was refused: no add goes through a stale       *)
(* pointer into its element, none is lost (the lookup / update / add of    *)
(* every count-and-emit program).                                          *)
CountExact == \A k \in Keys \ lossy : Stored(k) = hits[k]

(* Why it holds: a pointer in use is never on the free list, and it points *)
(* into the element of such a key exactly when it was looked up for it.    *)
PointerInv ==
    \A c \in CPUs : call[c].next = "add" =>
        /\ call[c].ptr \notin free
        /\ \A k \in Keys \ lossy : call[c].key = k <=> call[c].ptr = entry[k]

CountInv == OneOwner /\ CountExact /\ PointerInv

(* Once the entry of a key exists and no CPU is still about to insert it,  *)
(* it stays so and the stored count never falls back: the race that can    *)
(* reset a count is confined to the first calls for the key.               *)
Settled(k) == entry[k] # NoElem /\ Pending(k, "insert") = {}

SettledCountGrows ==
    [][\A k \in Keys : Settled(k) => Settled(k)' /\ Stored(k)' >= Stored(k)]_vars

(* For a key whose count is exact, each sampled count (every "every"-th)   *)
(* is in exactly one place: in one record of the ring, among the counts    *)
(* whose reservation failed, or still in the hands of the CPU that drew    *)
(* it.  So a gap between the counts a loader prints is a full ring, never  *)
(* a call that was not counted, and no count is printed twice.             *)
Reported(k) == {i \in DOMAIN ring : ring[i].key = k}
ReportedCounts(k) == {ring[i].count : i \in Reported(k)}
InHand(k)  == {call[c].count : c \in Pending(k, "reserve")}
Sampled(k) == IF handler.emits THEN {n \in 1..hits[k] : n % handler.every = 0} ELSE {}

ReportsPartition ==
    \A k \in Keys \ lossy :
        /\ ReportedCounts(k) \cup dropped[k] \cup InHand(k) = Sampled(k)
        /\ ReportedCounts(k) \cap dropped[k] = {}
        /\ (ReportedCounts(k) \cup dropped[k]) \cap InHand(k) = {}
        /\ \A i, j \in Reported(k) : i # j => ring[i].count # ring[j].count
        /\ \A b, c \in Pending(k, "reserve") : b # c => call[b].count # call[c].count

(* A call is counted in one element at most, whatever is replaced, refused *)
(* or recycled meanwhile: the map as a whole never shows more calls than   *)
(* were made, even when a single key does, because an add went through a   *)
(* pointer to an element that has come to be linked under that key.        *)
TotalStored == SumFunctionOnSet([k \in Keys |-> Stored(k)], Keys)
TotalHits   == SumFunctionOnSet(hits, Keys)

TotalNeverExceedsHits == TotalStored <= TotalHits

(* Every record that is reserved reaches the loader's callback: no program *)
(* leaves a record busy, which would stop the consumer for good.           *)
EveryRecordConsumed == \A n \in 1..MaxHits : Len(ring) >= n ~> taken >= n
=============================================================================
