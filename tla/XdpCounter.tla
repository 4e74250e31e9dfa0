----------------------------- MODULE XdpCounter ------------------------------
(***************************************************************************)
(* S2 xdp: it counts the packets of each source in a BPF_MAP_TYPE_LRU_HASH *)
(* and samples packets into the ring by the clock, not by the count.  The  *)
(* calls on the ring and the atomic add are those of EventCounter; so that *)
(* one run compares the two kinds of map, the other programs run here as   *)
(* they do there.                                                          *)
(*                                                                         *)
(* An LRU map refuses nothing: it evicts other keys.  An evicted element   *)
(* is linked again at once, under whichever key is inserted, though a      *)
(* program on another CPU still points to it; a hash map gets there only   *)
(* through a spare or a deletion.                                          *)
(***************************************************************************)
EXTENDS EventCounter

CONSTANTS MaxPackets, \* bound: packets
          MaxRecords  \* bound: sampled packets

ASSUME XdpAssumption == MaxPackets \in Nat /\ MaxRecords \in Nat

\* Its records do not carry the count.
S2Xdp == [every |-> 1, emits |-> FALSE, evicts |-> TRUE]

VARIABLE packets \* xdp_statistics.packets (and .passed), over all CPUs

xdpVars == <<vars, packets>>

XdpInit == Init /\ packets = 0
-----------------------------------------------------------------------------
(* update_elem on an LRU map.  It takes an element from the free list or   *)
(* from a key that it evicts, perhaps others along with it, before it      *)
(* looks whether k is there; if so, the old element is freed.  (The free   *)
(* lists of the CPUs are one here, and so a key may be evicted while there *)
(* are free elements, as happens when they are another CPU's.)             *)
LruUpdate(k, v, e, evicted) ==
    LET given == free \cup {entry[j] : j \in evicted}
        old   == IF k \in evicted THEN {} ELSE {entry[k]} \ {NoElem} IN
    /\ e \in given
    /\ entry' = [j \in Keys |-> IF j = k THEN e
                                ELSE IF j \in evicted THEN NoElem ELSE entry[j]]
    /\ value' = [value EXCEPT ![e] = v]
    /\ free'  = (given \ {e}) \cup old
    /\ UNCHANGED extra

Linked == {k \in Keys : entry[k] # NoElem}

\* Some CPU is about to add through a pointer to e.
PointedTo(e) == \E c \in CPUs : call[c].next = "add" /\ call[c].ptr = e
-----------------------------------------------------------------------------
(* The program.  Each operator named Bad... is a wrong form of the         *)
(* definition that follows it.                                             *)

\* timestamp_ns % 100 = 0 asks for a record; any packet may have such a time.
SampledByClock(c, k) ==
    \E next \in {"idle"} \cup IF Len(ring) < MaxRecords THEN {"reserve"} ELSE {} :
        call' = [call EXCEPT ![c] = IF next = "idle" THEN Idle
                                    ELSE [Idle EXCEPT !.next = next, !.key = k]]

(* A packet of source k comes in and is counted in xdp_statistics.  Then   *)
(* parse_packet refuses it, or it is not IPv4 and goes on as one without a *)
(* source, or the program looks its source up.                             *)
Packet(c, k) ==
    /\ handler = S2Xdp
    /\ packets < MaxPackets
    /\ call[c].next = "idle"
    /\ packets' = packets + 1
    /\ \/ UNCHANGED call
       \/ SampledByClock(c, k)
       \/ call' = [call EXCEPT ![c] = [next  |-> IF k \in Linked THEN "add" ELSE "insert",
                                       key   |-> k,
                                       ptr   |-> entry[k],
                                       count |-> 0]]
    /\ UNCHANGED <<handler, hashVars, ringVars, hits, lossy, dropped>>

\* The packet is counted under its source; sample it.
SourceCounted(c) ==
    /\ SampledByClock(c, call[c].key)
    /\ hits' = [hits EXCEPT ![call[c].key] = @ + 1]
    /\ UNCHANGED <<handler, ringVars, dropped, packets>>

\* The lookup found nothing: store 1.
XdpInsert(c) ==
    LET k == call[c].key IN
    /\ handler = S2Xdp
    /\ call[c].next = "insert"
    /\ \E evicted \in SUBSET Linked, e \in Elems :
          /\ LruUpdate(k, 1, e, evicted)
          /\ lossy' = lossy \cup evicted
                            \cup IF k \in Linked \/ PointedTo(e) THEN {k} ELSE {}
    /\ SourceCounted(c)

\* The add is made in the else branch too.
BadXdpAdd(c) ==
    /\ handler = S2Xdp
    /\ call[c].next = "add"
    /\ Write(call[c].ptr, value[call[c].ptr] + 2)
    /\ SourceCounted(c)
    /\ UNCHANGED lossy

\* The lookup found the element: one atomic add through the pointer.
XdpAdd(c) ==
    /\ handler = S2Xdp
    /\ call[c].next = "add"
    /\ Write(call[c].ptr, value[call[c].ptr] + 1)
    /\ SourceCounted(c)
    /\ UNCHANGED lossy

\* The other programs count as before; the ring is the same for all.
OtherNext == /\ \E c \in CPUs : \/ Reserve(c) \/ ReserveFails(c) \/ Submit(c)
                                \/ /\ handler # S2Xdp
                                   /\ Insert(c) \/ Add(c) \/ \E k \in Keys : Enter(c, k)
             /\ UNCHANGED packets

XdpNext == \/ \E c \in CPUs : XdpInsert(c) \/ XdpAdd(c) \/ \E k \in Keys : Packet(c, k)
           \/ OtherNext
           \/ Consume /\ UNCHANGED packets

XdpSpec == XdpInit /\ [][XdpNext]_xdpVars
-----------------------------------------------------------------------------
(* Properties                                                              *)

(* The counts of all sources together never exceed the packets seen, which *)
(* xdp_statistics holds, although elements are evicted and linked again    *)
(* under pointers.                                                         *)
SourcesWithinPackets == handler = S2Xdp => TotalStored <= packets
=============================================================================
