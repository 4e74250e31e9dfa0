------------------------------- MODULE MapDump -------------------------------
(***************************************************************************)
(* The loaders that print a hash map every second with the loop            *)
(*                                                                         *)
(*   key = 0;                                                              *)
(*   while (bpf_map_get_next_key(fd, &key, &next_key) == 0) {              *)
(*       if (bpf_map_lookup_elem(fd, &next_key, &value) == 0) print it;    *)
(*       key = next_key;                                                   *)
(*   }                                                                     *)
(*                                                                         *)
(* while the programs go on storing into the map.  Nothing is ever deleted *)
(* from these maps, so what matters is the order of the walk: that of the  *)
(* buckets, and in a bucket that of its chain, at whose head update_elem   *)
(* links what it stores, whether the key was there before or not.          *)
(***************************************************************************)
EXTENDS Naturals, Sequences, FiniteSets, SequencesExt

CONSTANTS Keys,       \* PIDs, or ports, that may be stored
          Zero,       \* the key 0 that the walk starts from
          NumBuckets, \* of the hash table
          BucketOf,   \* the hash function
          Capacity,   \* max_entries
          CPUs,
          NoKey,      \* a CPU that runs no program has none
          Programs    \* the programs under check (see the profiles below)

Buckets == 1..NumBuckets

ASSUME DumpAssumption == /\ NumBuckets \in Nat \ {0}
                         /\ BucketOf \in [Keys \cup {Zero} -> Buckets]
                         /\ Capacity \in Nat
                         /\ NoKey \notin Keys \cup {Zero}
-----------------------------------------------------------------------------
(* A profile of each program: whether it stores on every call (replaces)   *)
(* or adds to an element that is there in place; and whether its key is a  *)
(* port, which can be 0 as no PID of a process can.                        *)

S1Kretprobe == [replaces |-> TRUE,  ports |-> FALSE]
S1Uretprobe == [replaces |-> TRUE,  ports |-> FALSE]
S1Uprobe    == [replaces |-> FALSE, ports |-> FALSE]
S1SkLookup  == [replaces |-> FALSE, ports |-> TRUE]

AllPrograms == {S1Kretprobe, S1Uretprobe, S1Uprobe, S1SkLookup}
-----------------------------------------------------------------------------

VARIABLES program, \* the attached program
          chain,   \* the keys in each bucket, from its head
          store,   \* what each CPU's program is about to store under
          reader,  \* where the loader is: "start", "next", "show"
          key,     \* its cursor
          nextKey, \* the key it found
          \* history:
          before,  \* keys in the map when the walk began
          moved,   \* keys stored since then
          turned,  \* the key the walk goes on from was among them when it was stored
          times    \* how often each key was printed since then, up to 2

table == <<program, chain, store>>
walk  == <<reader, key, nextKey, before, times>>
vars  == <<table, walk, moved, turned>>

AllKeys == IF program.ports THEN Keys \cup {Zero} ELSE Keys
Table   == UNION {Range(chain[b]) : b \in Buckets}

\* The place of k in its chain.
Index(k) == CHOOSE i \in DOMAIN chain[BucketOf[k]] : chain[BucketOf[k]][i] = k

TypeOK == /\ program \in Programs
          /\ chain \in [Buckets -> Seq(Keys \cup {Zero})]
          /\ \A b \in Buckets : IsInjective(chain[b]) /\ \A k \in Range(chain[b]) : BucketOf[k] = b
          /\ Cardinality(Table) <= Capacity
          /\ store \in [CPUs -> AllKeys \cup {NoKey}]
          /\ reader \in {"start", "next", "show"}
          /\ key \in AllKeys \cup {Zero}
          /\ nextKey \in AllKeys \cup {Zero}
          /\ reader = "show" => nextKey \in Table
          /\ before \in SUBSET Table
          /\ moved \in SUBSET Table
          /\ turned \in BOOLEAN
          /\ times \in [Keys \cup {Zero} -> 0..2]

Init == /\ program \in Programs
        /\ chain = [b \in Buckets |-> <<>>]
        /\ store = [c \in CPUs |-> NoKey]
        /\ reader = "start" /\ key = Zero /\ nextKey = Zero
        /\ before = {} /\ moved = {} /\ turned = FALSE
        /\ times = [k \in Keys \cup {Zero} |-> 0]
-----------------------------------------------------------------------------
(* The programs.  Each operator named Bad... is a wrong form of the        *)
(* definition that follows it; no specification uses it.                   *)

(* A call of the traced function by process k, or a socket lookup from     *)
(* remote port k.  An element that the program finds, unless it replaces   *)
(* it, it changes in place.                                                *)
Fire(c, k) ==
    /\ store[c] = NoKey
    /\ store' = [store EXCEPT ![c] = IF program.replaces \/ k \notin Table THEN k ELSE NoKey]
    /\ UNCHANGED <<program, chain, walk, moved, turned>>

\* The old element stays linked.
BadStore(c) ==
    LET k == store[c]
        b == BucketOf[k]
        cursor == IF reader = "show" THEN nextKey ELSE key IN
    /\ k # NoKey
    /\ store' = [store EXCEPT ![c] = NoKey]
    /\ IF k \notin Table /\ Cardinality(Table) >= Capacity
       THEN UNCHANGED <<chain, moved, turned>>
       ELSE /\ chain' = [chain EXCEPT ![b] = Cons(k, @)]
            /\ moved' = moved \cup {k}
            /\ turned' = (turned \/ k = cursor)
    /\ UNCHANGED <<program, walk>>

\* update_elem: linked at the head, then the old element unlinked, under the
\* bucket's lock; when the map is full a new key is refused.
Store(c) ==
    LET k == store[c]
        b == BucketOf[k]
        cursor == IF reader = "show" THEN nextKey ELSE key IN
    /\ k # NoKey
    /\ store' = [store EXCEPT ![c] = NoKey]
    /\ IF k \notin Table /\ Cardinality(Table) >= Capacity
       THEN UNCHANGED <<chain, moved, turned>>
       ELSE /\ chain' = [chain EXCEPT ![b] = Cons(k, IF k \in Table THEN RemoveAt(@, Index(k)) ELSE @)]
            /\ moved' = moved \cup {k}
            /\ turned' = (turned \/ k = cursor)
    /\ UNCHANGED <<program, walk>>
-----------------------------------------------------------------------------
(* The loader.                                                             *)

\* The keys that come after j in the order of the walk.
Behind(j) == {k \in Table : \/ BucketOf[k] > BucketOf[j]
                            \/ BucketOf[k] = BucketOf[j] /\ Index(k) > Index(j)}

\* From a key that is not in the map get_next_key starts with the first one.
Following(j) == IF j \in Table THEN Behind(j) ELSE Table

\* "key = 0" stands outside the function: the next walk goes on from the last key.
BadGetNextKey ==
    LET ahead == Following(key) IN
    /\ reader \in {"start", "next"}
    /\ IF ahead = {}
       THEN /\ reader' = "start" /\ UNCHANGED <<key, nextKey>>
       ELSE /\ reader' = "show" /\ UNCHANGED key
            /\ nextKey' \in ahead /\ \A k \in ahead \ {nextKey'} : k \in Behind(nextKey')
    /\ IF reader = "start"
       THEN /\ before' = Table /\ moved' = {} /\ turned' = FALSE
            /\ times' = [k \in Keys \cup {Zero} |-> 0]
       ELSE UNCHANGED <<before, moved, turned, times>>
    /\ UNCHANGED table

\* -ENOENT when there is none: the loop ends, and a second later another begins.
GetNextKey ==
    LET ahead == Following(key) IN
    /\ reader \in {"start", "next"}
    /\ IF ahead = {}
       THEN /\ reader' = "start" /\ key' = Zero
            /\ UNCHANGED nextKey
       ELSE /\ reader' = "show" /\ UNCHANGED key
            /\ nextKey' \in ahead /\ \A k \in ahead \ {nextKey'} : k \in Behind(nextKey')
    /\ IF reader = "start"
       THEN /\ before' = Table /\ moved' = {} /\ turned' = FALSE
            /\ times' = [k \in Keys \cup {Zero} |-> 0]
       ELSE UNCHANGED <<before, moved, turned, times>>
    /\ UNCHANGED table

\* key = next_key stands in the branch of a failed lookup.
BadShow ==
    /\ reader = "show"
    /\ times' = [times EXCEPT ![nextKey] = IF @ = 2 THEN 2 ELSE @ + 1]
    /\ reader' = "next"
    /\ UNCHANGED <<table, key, nextKey, before, moved, turned>>

\* lookup_elem finds what no one deletes; print it; key = next_key.
Show ==
    /\ reader = "show"
    /\ times' = [times EXCEPT ![nextKey] = IF @ = 2 THEN 2 ELSE @ + 1]
    /\ reader' = "next" /\ key' = nextKey
    /\ UNCHANGED <<table, nextKey, before, moved, turned>>

Next == \/ GetNextKey \/ Show
        \/ \E c \in CPUs : Store(c) \/ \E k \in AllKeys : Fire(c, k)

Spec == Init /\ [][Next]_vars

\* The loader prints for ever; a program that runs terminates.
FairSpec == /\ Spec /\ WF_vars(GetNextKey \/ Show)
            /\ \A c \in CPUs : WF_vars(Store(c))
-----------------------------------------------------------------------------
(* Properties                                                              *)

(* What a dump is worth when the loop ends, though the programs stored all *)
(* the while.  A key that was in the map when the walk began is printed,   *)
(* except when it was stored again meanwhile (its move to the head of its  *)
(* chain can take it past the cursor) or when 0 is a key of the map (the   *)
(* walk then starts behind it).  And no key is printed twice, except when  *)
(* the key under the cursor was stored again (which takes the cursor back  *)
(* to the head of the chain).                                              *)
DumpComplete ==
    reader = "start" =>
        /\ Zero \notin before => \A k \in before \ moved : times[k] > 0
        /\ ~turned => \A k \in AllKeys : times[k] < 2

(* For the programs that add in place a key once stored is printed in the  *)
(* end, whatever is stored meanwhile, again unless 0 is a key.             *)
EveryKeyPrinted ==
    \A k \in Keys : k \in Table /\ ~program.replaces ~> times[k] > 0 \/ Zero \in Table

(* And their loop always ends, so that the loader looks at "stop" again.   *)
(* For the programs that store on every call it need not: it follows a     *)
(* chain whose head changes as fast as it walks.                           *)
DumpEnds == ~program.replaces ~> reader = "start"
=============================================================================
