------------------------------ MODULE BpfHash -------------------------------
(***************************************************************************)
(* A preallocated BPF_MAP_TYPE_HASH, as the programs of this repository    *)
(* use it: bpf_map_lookup_elem, bpf_map_update_elem(.., BPF_ANY) and       *)
(* bpf_map_delete_elem.  The map itself is kernel code, so every           *)
(* definition here is external; what matters to the programs is that       *)
(*                                                                         *)
(*   - lookup returns a POINTER to the value, which the caller goes on     *)
(*     using after the map has changed;                                    *)
(*   - all elements are allocated up front: max_entries on a free list,    *)
(*     plus one spare per CPU;                                             *)
(*   - updating a key that is present links the CPU's spare element in     *)
(*     place of the old one, and the old one becomes that CPU's spare;     *)
(*   - an insertion takes an element from the free list and fails with     *)
(*     -E2BIG when there is none; a deletion gives the element back at     *)
(*     once, whoever still holds a pointer to it.                          *)
(*                                                                         *)
(* Each of the three calls is atomic (the bucket lock, or RCU for lookup). *)
(***************************************************************************)
CONSTANTS Keys,    \* the keys the programs may look up
          CPUs,    \* the CPUs running them
          Entries, \* the max_entries elements of the free list
          NoElem   \* the NULL pointer

ASSUME HashAssumption == /\ Entries \cap CPUs = {}
                         /\ NoElem \notin Entries \cup CPUs

\* The spare a CPU starts with is named by the CPU.
Elems == Entries \cup CPUs

VARIABLES entry, \* the element linked under a key, or NoElem
          value, \* the value an element holds
          free,  \* the free list
          extra  \* each CPU's spare element

hashVars == <<entry, value, free, extra>>

HashTypeOK(Value) == /\ entry \in [Keys -> Elems \cup {NoElem}]
                     /\ value \in [Elems -> Value]
                     /\ free \in SUBSET Elems
                     /\ extra \in [CPUs -> Elems]

HashInit(zero) == /\ entry = [k \in Keys |-> NoElem]
                  /\ value = [e \in Elems |-> zero]
                  /\ free  = Entries
                  /\ extra = [c \in CPUs |-> c]

\* update_elem on a key that is present: the CPU's spare replaces the element.
Replace(c, k, v) == /\ entry[k] # NoElem
                    /\ entry' = [entry EXCEPT ![k] = extra[c]]
                    /\ value' = [value EXCEPT ![extra[c]] = v]
                    /\ extra' = [extra EXCEPT ![c] = entry[k]]
                    /\ UNCHANGED free

\* update_elem on an absent key takes some element of the free list.
Link(k, v) == /\ entry[k] = NoElem
              /\ \E e \in free : /\ entry' = [entry EXCEPT ![k] = e]
                                 /\ value' = [value EXCEPT ![e] = v]
                                 /\ free'  = free \ {e}
              /\ UNCHANGED extra

\* update_elem on an absent key when the map is full: -E2BIG.
Refuse(k) == /\ entry[k] = NoElem /\ free = {}
             /\ UNCHANGED hashVars

Update(c, k, v) == Replace(c, k, v) \/ Link(k, v) \/ Refuse(k)

\* delete_elem; on an absent key it returns -ENOENT and changes nothing.
Delete(k) == /\ entry' = [entry EXCEPT ![k] = NoElem]
             /\ free'  = IF entry[k] = NoElem THEN free ELSE free \cup {entry[k]}
             /\ UNCHANGED <<value, extra>>

\* A store, or an atomic add, through a pointer that an earlier lookup returned.
Write(e, v) == /\ value' = [value EXCEPT ![e] = v]
               /\ UNCHANGED <<entry, free, extra>>

(* No element is in two places at once: under two keys, on the free list   *)
(* and linked, the spare of two CPUs.                                      *)
OneOwner == /\ \A k \in Keys : entry[k] \notin free
            /\ \A k \in Keys, c \in CPUs : entry[k] # extra[c]
            /\ \A c \in CPUs : extra[c] \notin free
            /\ \A j, k \in Keys : j # k /\ entry[j] # NoElem => entry[j] # entry[k]
            /\ \A b, c \in CPUs : b # c => extra[b] # extra[c]
=============================================================================
