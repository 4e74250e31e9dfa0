------------------------------ MODULE StatsMap ------------------------------
(***************************************************************************)
(* The programs that keep a struct of statistics per key in a hash map:    *)
(* counts, totals, a minimum and a maximum, each field changed on its own, *)
(* by an atomic add or by a load, a test and a store.  Some load a field   *)
(* again after the add and report that.  The ring buffer is here only its  *)
(* answer to bpf_ringbuf_reserve; EventCounter has the rest of it, and     *)
(* LatencyPair has the part of a return program that measures the latency. *)
(*                                                                         *)
(* As in EventCounter the process is the CPU, and programs on different    *)
(* CPUs interleave at every access to the map.                             *)
(***************************************************************************)
EXTENDS BpfHash, Naturals, Sequences, FiniteSets

CONSTANTS SamplePeriod, \* the 100 of "% 100"; a smaller period for TLC
          Programs,     \* the programs under check (see the profiles below)
          Amounts,      \* latencies, or packet lengths
          MaxCalls      \* bound: calls per key after which none starts

ASSUME StatsAssumption ==
    SamplePeriod \in Nat \ {0} /\ Amounts \subseteq Nat \ {0} /\ MaxCalls \in Nat

ASSUME FiniteAssumption == IsFiniteSet(CPUs)

(* The shape of a profile (see below).  A call changes its element once:   *)
(* in a struct of its own, in a copy, or field by field; and where what is *)
(* inserted is empty, it looks it up again and goes on as if it had been   *)
(* there.  No add comes after a step that may skip it, and a count is      *)
(* loaded again after its add and before the record is submitted.          *)
Has(s, step) == \E i \in DOMAIN s : s[i] = step

\* In s no step of T follows step.
NoneAfter(s, step, T) == \A i, j \in DOMAIN s : i < j /\ s[i] = step => s[j] \notin T

WellFormed(p) ==
    /\ p.zeroed \in BOOLEAN /\ p.unmeasured \in BOOLEAN /\ p.extra \in Nat
    /\ p.before \in Seq({"reserve", "submit"})
    /\ p.miss = IF p.zeroed THEN <<"insert", "relookup">> ELSE <<"insert">>
    /\ p.hit \in Seq({"copy", "insert", "count", "class", "positive", "total", "min", "max",
                      "sample", "reload"})
    /\ p.after \in Seq({"reserve", "reload", "submit"})
    /\ Has(p.hit, "copy") \/ Has(p.hit, "insert")
          => p.hit = <<"copy", "insert">> /\ ~p.zeroed /\ ~Has(p.after, "reload")
    /\ Has(p.hit, "copy") \/ Has(p.hit, "count")
    /\ Has(p.hit, "class") => p.zeroed
    /\ Has(p.hit, "min") <=> Has(p.hit, "max")
    /\ p.unmeasured => p.zeroed
    /\ \A s \in {"count", "class", "total"} : NoneAfter(p.hit, s, {s})
    /\ NoneAfter(p.hit, "positive", {"count", "class", "reload"})
    /\ NoneAfter(p.hit, "sample", {"count", "class", "total"})
    /\ NoneAfter(p.hit, "reload", {"count"})
    /\ NoneAfter(p.after, "submit", {"reload"})

ASSUME ProgramAssumption == \A p \in Programs : WellFormed(p)
-----------------------------------------------------------------------------
(* A profile of each program: what it does before it looks its key up, on  *)
(* an element that is there (hit) or not (miss), and after that.           *)
(*   "reserve" and "submit" are the ring buffer's, "insert" is update_elem,*)
(*   "count" .. "max" the changes of the fields, "copy" of all of them,    *)
(*   "relookup" a second lookup, "sample" and "reload" loads of the count. *)
(*   "positive" the test of the latency that guards what follows it.       *)
(* With zeroed an insertion stores an empty struct, otherwise one with the *)
(* call already in it; extra is what is added to a reloaded count; and a   *)
(* return that was not measured goes on with latency 0 (unmeasured).  The  *)
(* LSM program's decision is always 0: its denials are never counted.      *)

S2Fentry    == [before |-> <<"reserve">>, miss |-> <<"insert">>,
                hit |-> <<"count", "total", "min", "max", "reload">>, after |-> <<"submit">>,
                zeroed |-> FALSE, unmeasured |-> FALSE, extra |-> 1]
S2Uretprobe == [before |-> <<"reserve", "submit">>, miss |-> <<"insert">>,
                hit |-> <<"count", "total", "min", "max">>, after |-> <<>>,
                zeroed |-> FALSE, unmeasured |-> FALSE, extra |-> 0]
S2Kretprobe == [before |-> <<>>, miss |-> <<"insert", "relookup">>,
                hit |-> <<"count", "class", "positive", "total", "min", "max">>,
                after |-> <<"reserve", "submit">>,
                zeroed |-> TRUE, unmeasured |-> TRUE, extra |-> 0]
S1Uretprobe == [before |-> <<>>, miss |-> <<"insert">>,
                hit |-> <<"copy", "insert">>, after |-> <<>>,
                zeroed |-> FALSE, unmeasured |-> FALSE, extra |-> 0]
S2Tc        == [before |-> <<>>, miss |-> <<"insert">>,
                hit |-> <<"count", "total", "sample">>, after |-> <<"reserve", "reload", "submit">>,
                zeroed |-> FALSE, unmeasured |-> FALSE, extra |-> 0]
S2Lsm       == [before |-> <<"reserve">>, miss |-> <<"insert">>,
                hit |-> <<"count", "reload">>, after |-> <<"submit">>,
                zeroed |-> FALSE, unmeasured |-> FALSE, extra |-> 0]

AllPrograms == {S2Fentry, S2Uretprobe, S2Kretprobe, S1Uretprobe, S2Tc, S2Lsm}
-----------------------------------------------------------------------------

VARIABLES program, \* the program attached to the hook
          run,     \* what each CPU is doing: the steps to come and the program's locals
          \* history:
          calls,    \* calls per key that have looked the key up, ...
          spent,    \* ... the sum of their amounts ...
          measured, \* ... and the set of them
          lossy     \* keys on which an update was refused, or lost what it replaced

hist == <<calls, spent, measured, lossy>>
vars == <<program, hashVars, run, hist>>

\* classed is success_calls + error_calls.  The last return value is left out.
Stats == [count : Nat, classed : Nat, total : Nat, min : Nat, max : Nat]
Zero  == [count |-> 0, classed |-> 0, total |-> 0, min |-> 0, max |-> 0]

Steps == {"lookup", "reserve", "submit", "insert", "relookup", "copy", "count", "class",
          "positive", "total", "min", "store min", "max", "store max", "sample", "reload"}

Run == [todo : Seq(Steps), key : Keys \cup {NoElem}, amount : Amounts \cup {0},
        ptr : Elems \cup {NoElem}, base : Stats, own : Nat, shown : Nat]
Idle == [todo |-> <<>>, key |-> NoElem, amount |-> 0,
         ptr |-> NoElem, base |-> Zero, own |-> 0, shown |-> 0]

At(c, s)  == run[c].todo # <<>> /\ Head(run[c].todo) = s
Does(s)   == Has(program.hit, s)
Reports   == Does("reload") \/ Has(program.after, "reload")

TypeOK == /\ HashTypeOK(Stats)
          /\ program \in Programs
          /\ run \in [CPUs -> Run]
          /\ \A c \in CPUs : run[c].todo # <<>> => run[c].key \in Keys
          /\ \A c \in CPUs : \A s \in {"copy", "count", "class", "total", "min", "store min",
                                       "max", "store max", "sample"} :
                 At(c, s) => run[c].ptr \in Elems
          /\ calls \in [Keys -> Nat]
          /\ spent \in [Keys -> Nat]
          /\ measured \in [Keys -> SUBSET Amounts]
          /\ lossy \in SUBSET Keys

Init == /\ HashInit(Zero)
        /\ program \in Programs
        /\ run = [c \in CPUs |-> Idle]
        /\ calls = [k \in Keys |-> 0]
        /\ spent = [k \in Keys |-> 0]
        /\ measured = [k \in Keys |-> {}]
        /\ lossy = {}
-----------------------------------------------------------------------------
(* Each operator named Bad... is a wrong form of the definition that       *)
(* follows it; no specification uses it.                                   *)

\* The program of c goes on with the steps todo, its locals being r; it returns
\* after the last one.
GoOn(c, todo, r) ==
    run' = [run EXCEPT ![c] = IF todo = <<>> THEN Idle ELSE [r EXCEPT !.todo = todo]]

Proceed(c) == GoOn(c, Tail(run[c].todo), run[c])

(* The hook fires on CPU c for key k (a process, a flow).                  *)
Start(c, k) ==
    /\ calls[k] < MaxCalls
    /\ run[c].todo = <<>>
    /\ \E a \in IF program.unmeasured THEN Amounts \cup {0} ELSE Amounts :
          run' = [run EXCEPT ![c] =
                    [Idle EXCEPT !.todo = Append(program.before, "lookup"),
                                 !.key = k, !.amount = a, !.shown = 1]]
    /\ UNCHANGED <<program, hashVars, hist>>

\* bpf_ringbuf_reserve: when the ring is full the program skips all the rest.
Reserve(c) ==
    /\ At(c, "reserve")
    /\ Proceed(c) \/ GoOn(c, <<>>, Idle)
    /\ UNCHANGED <<program, hashVars, hist>>

Submit(c) ==
    /\ At(c, "submit")
    /\ Proceed(c)
    /\ UNCHANGED <<program, hashVars, hist>>

Lookup(c) ==
    LET k == run[c].key
        a == run[c].amount IN
    /\ At(c, "lookup")
    /\ GoOn(c, (IF entry[k] = NoElem THEN program.miss ELSE program.hit) \o program.after,
            [run[c] EXCEPT !.ptr = entry[k]])
    /\ calls' = [calls EXCEPT ![k] = @ + 1]
    /\ spent' = [spent EXCEPT ![k] = @ + a]
    /\ measured' = [measured EXCEPT ![k] = @ \cup ({a} \ {0})]
    /\ UNCHANGED <<program, hashVars, lossy>>

\* The lookup after the insertion is taken to have succeeded.
BadRelookup(c) ==
    /\ At(c, "relookup")
    /\ GoOn(c, program.hit \o program.after, [run[c] EXCEPT !.ptr = entry[run[c].key]])
    /\ UNCHANGED <<program, hashVars, hist>>

\* The second lookup, and "if (stats)".
Relookup(c) ==
    LET e == entry[run[c].key] IN
    /\ At(c, "relookup")
    /\ GoOn(c, (IF e = NoElem THEN <<>> ELSE program.hit) \o program.after,
            [run[c] EXCEPT !.ptr = e])
    /\ UNCHANGED <<program, hashVars, hist>>

\* stat = *cur.  The copy is torn only if the element has been replaced and used
\* again meanwhile, and then the insertion to come is lossy anyway.
Copy(c) ==
    /\ At(c, "copy")
    /\ GoOn(c, Tail(run[c].todo), [run[c] EXCEPT !.base = value[run[c].ptr]])
    /\ UNCHANGED <<program, hashVars, hist>>

\* new_stats.min_ns is not set.
BadPlus(s, a) == [s EXCEPT !.count = @ + 1,
                           !.total = IF Does("total") \/ Does("copy") THEN @ + a ELSE @,
                           !.max   = IF Does("max") THEN a ELSE @]

\* The struct s with one more call, the first if it has extremes.
Plus(s, a) == [s EXCEPT !.count = @ + 1,
                        !.total = IF Does("total") \/ Does("copy") THEN @ + a ELSE @,
                        !.min   = IF Does("min") THEN a ELSE @,
                        !.max   = IF Does("max") THEN a ELSE @]

(* update_elem, its result unchecked.  Something is lost when it is        *)
(* refused, or when what it replaces is not what the lookup showed.        *)
Insert(c) ==
    LET k == run[c].key
        v == IF program.zeroed THEN Zero ELSE Plus(run[c].base, run[c].amount) IN
    /\ At(c, "insert")
    /\ Update(c, k, v)
    /\ Proceed(c)
    /\ lossy' = IF \/ entry[k] = NoElem /\ free = {}
                   \/ entry[k] # NoElem /\ (~Does("copy") \/ value[entry[k]] # run[c].base)
                THEN lossy \cup {k} ELSE lossy
    /\ UNCHANGED <<program, calls, spent, measured>>

\* An atomic add to a field, through the pointer.
Add(c, step, field, n) ==
    /\ At(c, step)
    /\ Write(run[c].ptr, [value[run[c].ptr] EXCEPT ![field] = @ + n])
    /\ UNCHANGED <<program, hist>>

AddCount(c) == /\ Add(c, "count", "count", 1)
               /\ GoOn(c, Tail(run[c].todo), [run[c] EXCEPT !.own = value[run[c].ptr].count + 1])
AddClass(c) == Add(c, "class", "classed", 1) /\ Proceed(c)

\* "if (latency > 0)" guards the total and the extremes.
Positive(c) ==
    /\ At(c, "positive")
    /\ GoOn(c, IF run[c].amount = 0 THEN program.after ELSE Tail(run[c].todo), run[c])
    /\ UNCHANGED <<program, hashVars, hist>>

\* total_ns = latency, in place of the atomic add.
BadAddTotal(c) ==
    /\ At(c, "total")
    /\ Write(run[c].ptr, [value[run[c].ptr] EXCEPT !.total = run[c].amount])
    /\ Proceed(c)
    /\ UNCHANGED <<program, hist>>

AddTotal(c) == Add(c, "total", "total", run[c].amount) /\ Proceed(c)

\* The load and the test of an extreme, ...
TestMin(c) ==
    LET old == value[run[c].ptr].min IN
    /\ At(c, "min")
    /\ GoOn(c, IF (program.zeroed /\ old = 0) \/ run[c].amount < old
               THEN <<"store min">> \o Tail(run[c].todo) ELSE Tail(run[c].todo), run[c])
    /\ UNCHANGED <<program, hashVars, hist>>

TestMax(c) ==
    /\ At(c, "max")
    /\ GoOn(c, IF run[c].amount > value[run[c].ptr].max
               THEN <<"store max">> \o Tail(run[c].todo) ELSE Tail(run[c].todo), run[c])
    /\ UNCHANGED <<program, hashVars, hist>>

\* ... and its store, by then perhaps over a better one.
Store(c, step, field) ==
    /\ At(c, step)
    /\ Write(run[c].ptr, [value[run[c].ptr] EXCEPT ![field] = run[c].amount])
    /\ Proceed(c)
    /\ UNCHANGED <<program, hist>>

StoreMin(c) == Store(c, "store min", "min")
StoreMax(c) == Store(c, "store max", "max")

\* "if (stats && (stats->packets % 100) != 0) return": the count is loaded again.
Sample(c) ==
    /\ At(c, "sample")
    /\ IF value[run[c].ptr].count % SamplePeriod # 0 THEN GoOn(c, <<>>, Idle) ELSE Proceed(c)
    /\ UNCHANGED <<program, hashVars, hist>>

\* The count is what it was before this call.
BadReload(c) ==
    /\ At(c, "reload")
    /\ GoOn(c, Tail(run[c].todo),
            [run[c] EXCEPT !.shown = IF run[c].ptr = NoElem THEN 1
                                     ELSE value[run[c].ptr].count - 1])
    /\ UNCHANGED <<program, hashVars, hist>>

\* evt->count is loaded once more (S2 fentry adds 1 to it); 1 after an insertion.
Reload(c) ==
    /\ At(c, "reload")
    /\ GoOn(c, Tail(run[c].todo),
            [run[c] EXCEPT !.shown = IF run[c].ptr = NoElem THEN 1
                                     ELSE value[run[c].ptr].count + program.extra])
    /\ UNCHANGED <<program, hashVars, hist>>

RunStep(c) == \/ Reserve(c) \/ Submit(c) \/ Lookup(c) \/ Relookup(c) \/ Copy(c) \/ Insert(c)
              \/ AddCount(c) \/ AddClass(c) \/ Positive(c) \/ AddTotal(c) \/ TestMin(c) \/ TestMax(c)
              \/ StoreMin(c) \/ StoreMax(c) \/ Sample(c) \/ Reload(c)

Next == \E c \in CPUs : RunStep(c) \/ \E k \in Keys : Start(c, k)

Spec == Init /\ [][Next]_vars
-----------------------------------------------------------------------------
(* Properties                                                              *)

Cell(k) == IF entry[k] = NoElem THEN Zero ELSE value[entry[k]]

\* No call that has looked k up is still under way.
Quiet(k) == \A c \in CPUs : run[c].key = k => Has(run[c].todo, "lookup")

(* The fields are changed one by one, and still, when no call for a key is *)
(* under way, its count, its total and its two classes speak of the same   *)
(* calls: all that were made, as long as no update was refused or lost     *)
(* another one's work.                                                     *)
TotalsMatch ==
    \A k \in Keys \ lossy : Quiet(k) =>
        /\ Cell(k).count = calls[k]
        /\ Does("total") \/ Does("copy") => Cell(k).total = spent[k]
        /\ Does("class") => Cell(k).classed = calls[k]

(* A minimum or maximum may be lost to a race of two stores, but what is   *)
(* there was measured for that key and no other, and where the first call  *)
(* sets both (S2 fentry, uretprobe) the minimum never exceeds the maximum. *)
(* In S2 kretprobe, which starts both at 0, it may.                        *)
ExtremesMeasured ==
    \A k \in Keys \ lossy : entry[k] # NoElem /\ Does("min") =>
        /\ {Cell(k).min, Cell(k).max} \subseteq
               measured[k] \cup (IF program.zeroed THEN {0} ELSE {})
        /\ ~program.zeroed => Cell(k).min <= Cell(k).max

(* A count that is loaded again for the event is not below the one this    *)
(* call made it, and (but for the 1 that S2 fentry adds) not above the     *)
(* calls there have been.                                                  *)
ReloadBounds ==
    \A c \in CPUs :
        At(c, "submit") /\ Reports /\ run[c].ptr # NoElem /\ run[c].key \notin lossy =>
            /\ run[c].own + program.extra <= run[c].shown
            /\ run[c].shown <= calls[run[c].key] + program.extra
=============================================================================
