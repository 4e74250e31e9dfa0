# A TLA+ development of monsa-ebpf

The repository holds some forty small eBPF programs in two generations
(`S1-basic`, `S2-advanced`), each with a user-space loader.  They look alike
and share almost no code, but they share a handful of protocols: count a key
in a hash map and report the count through a ring buffer; store a time on
entry and take it back on return; count in a per-CPU array that the loader
sums up; set up, attach, loop until a signal, tear down.  The modules here
model those protocols once each, with a *profile* (a record) for every program
that follows one, so that a run over the set of profiles is a run over the
programs.

## Inventory

| part | code | state | operations | what is hard |
|---|---|---|---|---|
| hash map (kernel) | used by every `*.bpf.c` with `BPF_MAP_TYPE_HASH` | elements, free list, a spare element per CPU | lookup (a pointer!), update, delete | a pointer outlives the entry it was looked up for |
| count-and-emit programs | S1 kprobe, uprobe, sk_lookup; S2 kprobe, tracepoint, raw_tracepoint, uprobe, sk_lookup, perf, socket_filter, all cgroup programs | the map, the locals of each running program, the ring buffer | lookup, insert, add, reserve, submit | lookup/update races, full map, full ring, records submitted out of order |
| latency pairs | S1 fentry_fexit, uretprobe; S2 kretprobe, fentry_fexit, uretprobe | a map of start times | store on entry; lookup, read, delete, report on return | recursion, threads sharing a key, threads killed inside, full map |
| latency statistics | S2 fentry, uretprobe and kretprobe, S1 uretprobe: their second map | count, total, min, max per key | add; load, test and store; copy, change and store back | every field is changed on its own |
| per-CPU counters | the 13 S1 programs with `BPF_MAP_TYPE_PERCPU_ARRAY` and their `print_stats` | one value per counter and CPU; the reader's key, index and sum | bump; read a copy; print | the read is not a snapshot |
| re-read counters | S2 tc, S2 lsm | hash map of statistics | add, then load again | deciding on a value another CPU has moved |
| map dumps | `dump_map` / `print_map` of S1 kretprobe, uprobe, sk_lookup, uretprobe | a cursor key | get_next_key, lookup | keys move in the map under the cursor; 0 is both a key and "no key" |
| packet inspection | S2 xdp | per-CPU statistics, an LRU map | parse, count, sample by time | elements evicted under a pointer |
| loaders | the 41 `main()`s | what is acquired, `stop`, `err` | setup, poll or print, teardown; signals | signals and failures at every point; several loaders, of different programs too, on one interface |
| build verification test | `main` and `run_test` of `bvt_examples.sh` | the test it is at, a child process and its log, the status | start, wait, SIGTERM, SIGKILL, judge, next | a loader that is slow to start or to stop, or that the signals do not reach; failures it excuses |
| file-open events | S1 lsm | none | one `bpf_ringbuf_output` per call | nothing beyond the ring (`EventCounter`) and the loader (`Loader`) |
| build scripts | `build_examples.sh`, `bootstrap-ebpf.sh`, `build.sh` | none | call the tools | nothing to model |

Programs and loaders interact through maps (shared memory: a program on every
CPU, the loader in user space), through the ring buffer (many producers, one
consumer) and through attachment (a loader's link or filter makes the hooks
fire).  Programs on one CPU do not preempt each other here: a program is run
to completion, and the interleaving that matters is between CPUs.

What makes each part correct:

* counting: a call counted is counted once, under its key; what is reported is
  what was counted; gaps in the reports are drops, not losses.
* latency: a return measures the call that returns.
* per-CPU counts: what is printed is a value the counter had.
* loaders: what has been acquired is given back from every exit; failure is
  visible; while the loader runs the program is attached; a signal ends it.
* map dumps: a dump ends, and prints each key once, whatever is stored meanwhile
  (with exceptions that the code does not mention and `DumpComplete` spells out).
* packet inspection: what is counted for all sources is not more than the packets.
* build verification test: there is a verdict; PASS is true; anything else has a
  cause; the status 0 stands for every test, the excused failures left aside.

## Modules

| module | models | extends / used by |
|---|---|---|
| `BpfHash` | the kernel's preallocated hash map, as far as the programs can see it (external) | extended by `EventCounter`, `LatencyPair`, `StatsMap` |
| `EventCounter` | the count-and-emit programs and the consumption of the ring | `XdpCounter`, `MCEventCounter`, `EventCounter_proofs` |
| `XdpCounter` | S2 xdp: counting in an LRU map, sampling by the clock | extends `EventCounter`; `MCXdpCounter`, `EventCounter_proofs` |
| `LatencyPair` | the start-time map of the entry/return pairs | `MCLatencyPair`, `LatencyPair_proofs` |
| `StatsMap` | the programs that keep several fields per key and change them one by one | `MCStatsMap`, `StatsMap_proofs` |
| `PerCpuCounter` | per-CPU counters, their hooks and the loaders that print them | `MCPerCpuCounter`, `PerCpuCounter_proofs` |
| `CounterService` | abstract: what such a program and its loader promise together | refined by `PerCpuCounter` |
| `MapDump` | the loops that print a hash map, against the programs that store into it | `MCMapDump`, `MapDump_proofs` |
| `Loader` | the `main()` of every loader, several at once | `Bvt`, `Loader_proofs` |
| `Bvt` | the build verification script over its loaders | extends `Loader`; `MCBvt`, `Bvt_proofs` |
| `BpfHash_proofs`, `EventCounter_proofs` (also of `XdpCounter`), `LatencyPair_proofs`, `StatsMap_proofs`, `PerCpuCounter_proofs`, `MapDump_proofs`, `Loader_proofs`, `Bvt_proofs` | theorems | |

### BpfHash

A value of a preallocated hash map lives in an element.  There are
`max_entries` elements on a free list and one spare per CPU.  Updating a key
that is present links the CPU's spare and keeps the old element as the new
spare; deletion puts the element back on the free list at once.  Neither waits
for programs that hold a pointer from an earlier lookup.  The model's `entry`
(which element is linked under a key), `value`, `free` and `extra` are that
state; `Update` is `Replace`, `Link` or `Refuse`.  The map of type LRU is in
`XdpCounter`, the order of the keys in `MapDump`, which needs no elements: both
are the same table seen for another purpose.  Everything in the module is
marked external: it is kernel code the repository relies on.

### EventCounter

The process is a CPU.  `Enter` is the hook firing and the lookup; `Insert` the
`update_elem` after a lookup that found nothing; `Add` the atomic add through
the pointer; `Reserve`, `ReserveFails` and `Submit` the ring buffer calls;
`Consume` one step of `ring_buffer__poll`.  `call[c]` holds the program's locals
(`pid`, the pointer, `new_count`).  The profiles differ in whether a program
reports at all and whether it samples every hundredth count (`SamplePeriod`
stands for the 100).  `hits`, `lossy` and `dropped` are history: the calls made,
the keys on which some update replaced a live entry or was refused, the counts
whose reservation failed.

The S2 socket filter is in the set as it is written; the verifier refuses its
program (`bvt_examples.sh:417-419`).  `S2/perf/example_perf_event.*` is modelled
too, though no build script compiles it.

### XdpCounter

S2 xdp does to its map what the programs of `EventCounter` do, with an update
that never refuses: `LruUpdate` takes an element from the free list or from a
key it evicts, possibly others with it, before it looks whether the key is
there.  `Packet` is the whole way to the lookup: the packet is counted in
`xdp_statistics`, and then refused by `parse_packet`, without a source, or with
one to look up.  `SampledByClock` is `timestamp_ns % 100 == 0`, which may be
true of any packet.  Reserving, submitting and consuming are `EventCounter`'s.
Of `xdp_statistics` only `packets` is a variable: `passed` is added to at the
same time, and `bytes` and `dropped` say nothing about the rest.

### LatencyPair

The process is a thread in the traced function; every thread has a CPU of its
own.  `Entry` is the entry program; `Lookup`/`Missing`, `Clock` (the second
`bpf_ktime_get_ns`), `Read` (the load through the pointer), `Emit` and
`DeleteEntry` are the steps of the return program, in the order of its profile.
The clock is read before the start time is loaded, so a start time that another
thread stored in between is in the future: a negative latency stands for the
unsigned subtraction that wraps.  What the programs do with the latency is in
`StatsMap`, which takes it from a set.  `stack` is history: the calls a thread is in and whether their time is in the
map.  `Vanish` kills a thread inside a user-space function.

### StatsMap

The process is a CPU again.  A profile lists, as sequences of steps, what the
program does before its lookup, when the lookup finds nothing, when it finds an
element, and after that; `run[c].todo` is what the program on CPU `c` has still
to do, and each step is an action: `Lookup`, `Insert`, `Relookup` (S2 kretprobe
looks up again what it inserted), `AddCount`, `AddClass`, `AddTotal` (atomic
adds), `TestMin`/`StoreMin` and `TestMax`/`StoreMax` (a load with its test, and the
store), `Positive` (S2 kretprobe's "if (latency > 0)" around the total and the
extremes), `Copy` (S1 uretprobe changes a copy and stores it back whole), `Sample`
(S2 tc's "% 100") and `Reload` (the loads for the event).  The ring buffer is
only its answer to `bpf_ringbuf_reserve`.  `WellFormed` says which profiles the
proofs admit: a call changes its element once, in a struct of its own, in a copy or
field by field; what is inserted empty is looked up again; and no add comes after a
step that may skip it (`NoneAfter`).  The six of the repository are among them
(`ProgramAssumption`, which TLC evaluates on the run).  `calls`, `spent`, `measured` and `lossy`
are history: per key the calls, the sum and the set of their latencies, and
whether an update was refused or overwrote another call's work.

S2 fentry reports `stats->count + 1` after it has added to it, so that its
events say 1, 3, 4, ...: the profile's `extra`.  The last return value that S2
kretprobe keeps is left out, and so are S2 lsm's denials, since its decision is
always 0.

### PerCpuCounter

`Fire` is a hook on some CPU; `ReadCopy` copies one more CPU's value out, which
is how `bpf_map_lookup_elem` fills `values[]` while hooks fire; `PrintSum` prints a
sum and goes on to the next key.  A profile gives the printed names, the
counter each event adds to, and what the event is; for cgroup_device these
differ, because the program's `switch` is translated with the kernel's encoding
of `access_type`.  `firstOnly` is the sock_addr loader, which passes room for a
single value.

### MapDump

`chain` is the table: the keys in each bucket from the head of its list.  A
program is `Fire`, the call and the lookup, and `Store`, its `update_elem`, which
links at the head whether or not the key was there (an update of a present key
links a new element and unlinks the old one).  S1 kretprobe stores on every call
and S1 uretprobe on every return; uprobe and sk_lookup only when the key is
absent, and then add in place.  The loader is `GetNextKey` and `Show`.  `Following`
is the kernel's rule: after the key if it is in the map, else from the beginning.
That is how the loop starts, with a key 0 that no process has as PID; sk_lookup,
whose key is a port, can have it in the map (`Zero`).  `before`, `moved`, `turned`
and `times` are history about the walk under way, and they state what a dump may
miss (keys stored again, and everything in front of a key 0) and what it may
repeat (nothing, unless the key under the cursor was stored again).

### Loader

A profile is the list of what `main()` acquires, how many of these return at
once on failure, its kind of loop, whether SIGTERM is handled, and the list of
what its cleanup gives back (`With` says what goes along with it).
`Acquire`/`AcquireFails` is one call of the setup, `Check` the loop's test,
`Wait`, `Poll`, `PollInterrupted`, `PollFails` its body, `Release` and `Finish` the
cleanup, `Signal` the handler, `Kill` a signal that is not handled.  `main` says
which program each process runs, and `slot` is the network interface: whose
program each of its two hooks has.  The code attaches there in three ways: S1
xdp by a link, which is refused while any program is on the hook and keeps out
every other (`Linked`); S2 xdp by netlink, which replaces any program but a
linked one, and detaches whatever is there but a linked one, its own or not;
S1 tc by a filter that replaces, and that `detach_tc` removes, its own or not.

What is right about the `main()`s is in their order, and four predicates on
profiles say which order that is: `WellFormed`, `Ordered` (what refers to the
skeleton is acquired after it and given back not after it, and everything
acquired is given back), `Detaches` (no early return after attaching to the
interface, and the detaching is not the last destructor) and `Attaches`.  The
theorems are about any profile with the predicate; `MCBvt` has an assumption
that TLC evaluates, that the profiles of the repository have them.

### Bvt

`suite` is the sequence of tests that `main()` has to run: it skips those whose
binary is not built or whose target is not set, which is why any member of
`Suites` may be it.  The loader under test (`Tested`) is one process of `Loader`, the
script is the other actor: `Look` (`sleep 4`, `ps -p`), `Term`, `KillNow`, `Judge`
(`wait`, the verdict and `|| status=1`), and `NextTest`, the return to `main()` and the
next call of `run_test`.  A loader of a later test is `Waiting`; one that is in no
test is a user's, beside the script.  How long the script sleeps is nothing a model should rely on, so each of
its steps may come between any two calls of the loader.  `Writes` is what of the log
`grep` will look for: the message `main()` prints at the end of its setup, and the two
notices that make a test "Skip", whose order `VerdictOf` keeps before the message.
`Notice` says which failed call may leave which: the log holds stderr, where libbpf
warns unless told not to, and no loader tells it.  S1 sk_lookup, the script's first test,
passes 0 to `bpf_program__attach_netns`, its stdin, which is no network namespace: so
"failed to attach to netns" is what its log normally has, and the script says Skip
and goes on with status 0.  `foreign` is the setting `EXAMPLES_DIR=./S2-advanced/examples`
of the repository's README: the first half of `main()` then starts S2's programs and
looks for S1's texts, which those in `Reworded` do not print, so that they fail.
`MaySignal` is FALSE when the script is run by a user who is not root: the child is
then `sudo`, and `kill` is refused, which `|| true` hides.  `attached`, `broke` (the call
that failed) and `killed` are history about the tested loader, and `missed` about the
tests that neither saw their program attached nor had such an excuse (`Excused`).  The
exit status that the script collects is not part of `VerdictOf`, since every call of
`run_test` gives a text to expect, and then the text decides alone.

## Runs

Passing:

| run | properties | bounds |
|---|---|---|
| `EventCounter_race` | `TypeOK CountInv ReportsPartition SettledCountGrows EveryRecordConsumed` | 2 CPUs, 2 keys, 2 calls per key, ring of 1, all programs |
| `XdpCounter_recycle` | `CountExact TotalNeverExceedsHits SourcesWithinPackets` | 4 CPUs, 3 keys for 2 entries, 2 calls per key, 4 packets, S2 xdp and the programs that only count |
| `LatencyPair_pairs` | `TypeOK ThreadPairsExact PairInv NoOrphan` | 2 threads of a process, 1 entry, recursion depth 2, 4 ticks, all pairs |
| `StatsMap_fields` | `TypeOK TotalsMatch ExtremesMeasured ReloadBounds` | 2 CPUs, 2 keys for 1 entry, amounts 1 to 3, 2 calls per key, all programs |
| `PerCpuCounter_read` | `TypeOK ImplementsService CountsGrow CatchesUp` | 3 CPUs, 2 events, the summing programs |
| `MapDump_walk` | `TypeOK DumpComplete EveryKeyPrinted DumpEnds` | 2 CPUs, 2 chains, 3 keys and 0, room for 3, all programs |
| `Bvt_root` | `BvtTypeOK TeardownComplete SkeletonOutlives FailureReported RunningIsAttached NothingLeft PassMeansAttached FailHasCause ZeroMeansAttached Stops TestEnds` | two loaders, both tested in turn or one tested and one a user's; each main that attaches with one that shares nothing with it (S1 kretprobe), and every pair of those on the interface; signals allowed |

Why the bounds are enough.  Two CPUs and two calls show every collision of a
lookup with an update, and a ring of one record makes every drop possible.  An
element that is replaced, kept as a spare, linked elsewhere and then added to
takes four CPUs (two that race for each of two keys, one of them with both
races, and one that holds the old pointer), which is why `recycle` has four, and of
the reporting programs only S2 xdp, with one record.  Such an add gives a key more calls than it had, and leaves another
with fewer: the total over all keys never exceeds the calls made.  Three keys
over two entries make every refusal possible.  Recursion of depth two shows both the
overwriting and the overwritten call, and a map with one entry for two threads
the refused one.  In `StatsMap` a
first call and two that race after it show every lost store of an extreme, and
three amounts tell the least, the greatest and one between them apart; two keys
for one entry make the refused update.  Two keys in one chain and
another bucket before or behind show a key moving past the cursor within its chain,
and a walk that still has a bucket to go; with room for three of the four keys, the
last is refused.  Four packets are two that are counted and evicted, and two whose
adds come late.  Three CPUs let events fall on a copy already read, the one
being read and one still to be read; `CatchesUp` needs one event after the
first reading, and there are two.  Two processes show every way one loader meets another on the interface, of the
same program or another, and two tests how one may hide the failure of another; the theorems about `Loader` and `Bvt` hold for any number of both.  In
"2 calls per key" a call counts once the program has added it (`EventCounter`)
or looked its key up (`StatsMap`), so that as many more as there are CPUs may
have started before.  The runs use symmetry over
CPUs, keys and entries only where no liveness is checked.

`Bvt_root` leaves three mains out.  The S2 sk_lookup loader calls the skeleton's
attach, which does nothing for its program type (libbpf has no auto-attach for
it), and the S2 tc loader does not attach and prints how to do it by hand (a
program loaded by hand has maps of its own, not the loader's): `Bvt_detached`
is about them.  The S2 socket filter's program is refused by the verifier, so that
its loader ends in its setup, and the script does not test it.  `RunningIsAttached`
also excepts a loader whose program another one has displaced from the
interface (tc's replace, netlink's set): the first goes on polling, and nothing
tells it.

What the passing runs take for granted is worth knowing, since the code does not
say it:

* two CPUs that find a key absent both store 1, and one call is lost
  (`S1/.../kprobe/example_kprobe.bpf.c:56` and its like): `CountExact` speaks of the
  keys that are not `lossy`;
* with a full map every call of a new key is reported with count 1, `Insert` not
  looking at what `Update` did: so does `ReportsPartition`;
* of two concurrent stores of a minimum or maximum the worse one may stay
  (`S2/.../kretprobe/example_kretprobe.bpf.c:147-150`): `ExtremesMeasured` asks only
  that it was measured;
* `main()` returns 1 after a normal stop when the signal comes between a poll that
  delivered records and the loop's test (`S1/.../kprobe/example_kprobe_user.c:99`, `err`
  still being their number): `FailureReported` is an implication;
* a loader killed after it has attached S2 xdp or S1 tc leaves its program on the
  interface (`NothingLeft` excepts it): with the program of S2 xdp there,
  every S1 xdp is refused and its test fails, until the next S2 xdp detaches it;
* the script's status 0 does not mean that every program was attached: two messages in
  the log excuse a failure (`bvt_examples.sh:141-149`), and that of S1 sk_lookup is
  normally excused.  `FailHasCause` and `ZeroMeansAttached` say that nothing else is: a
  test is skipped only with nothing attached, because of the call its message blames;
* with `EXAMPLES_DIR=./S2-advanced/examples` tests fail for the text alone
  (`bvt_examples.sh:185` and its like): `FailHasCause` lists that as a cause;
* S1 sk_lookup counts under the remote port, where its comments say the
  destination port.

Violated, each by what the code does against what the repository says (the
quotations are in `PROJECT.json` under `findings`):

| run | property | what happens |
|---|---|---|
| `LatencyPair_overlap` | `MeasuresOwnCall` | threads of one process share a start time |
| `PerCpuCounter_sockaddr` | `PrintsWholeCount` | only one CPU's value is printed |
| `PerCpuCounter_device` | `CountedByKind` | every access is counted as "other" |
| `Bvt_hang` | `TestEnds` | run by a user other than root, the signals are refused and `wait` never returns |
| `Bvt_detached` | `PassMeansAttached` | a loader that attaches nothing passes its test |

Every property of a passing run has a mutant: an operator named `Bad...` beside
the definition it would replace, with a comment saying which slip it is.  The
property fails when the mutant takes the definition's place.

## Fairness

`EventCounter`: a BPF program terminates (the verifier admits no other), so
each CPU's steps are weakly fair; the loader polls in a loop, so `Consume` is;
nothing makes a hook fire.  `PerCpuCounter`: the reader's loop is weakly fair,
hooks are not.  `MapDump`: the loader and a program that has begun are, hooks are
not.  `Bvt`: the script is weakly fair (a sleep ends, and `wait` returns when the
child is gone), and nothing is assumed of the loaders: as root the script ends even
if they hang.  `Stops` states the loader's own fairness as its hypothesis: every
call of `main()` returns (poll after 100 ms, sleep after a second).  In `Bvt_hang` the
loaders are fair as well, so that what hangs is the script's doing.  Signals by users
are never fair.  The safety properties assume none of this.

## Proofs

Every safety property of the passing runs is also a theorem, and so are their
action properties and `ImplementsService`.  An inductive invariant was checked by TLC
on the run before it was proved.

`BpfHash_proofs` proves that update, delete and write keep the map well typed
and `OneOwner`: no element is linked under two keys, free and linked, or spare
and linked.  It also has the lemmas about the sum of a function over a finite set that
the totals below rest on (`SumUpdate`: a change of one value changes the sum by as much;
`SumMonotone`, `SumZero`, `SumGrowsByOne`).  `SumFunctionOnSet` is a fold; its recursion
is unfolded in `SumExists`, by an induction on the size of a set that is
itself proved as a fact about sets of numbers (`NatSetInduction`, `SubsetInduction`).

`EventCounter_proofs`, first about `EventCounter`:

* `TypeCorrect`: `Spec => []TypeOK`.
* `CountInvCorrect` and `CountCorrect`: `Spec => []CountInv`, `Spec => [](OneOwner /\ CountExact)`.
  `CountExact` alone is not inductive: an `Add` writes through a pointer, so one must
  know where pointers lead.  The strengthening `CountInv` adds `OneOwner` and
  `PointerInv`: a pointer in use is not on the free list, and it leads to the element
  of a key that is not lossy exactly when it was looked up for that key.
* `SettledGrows`: `Spec => SettledCountGrows`, from `CountInv` and one case per
  action.
* `ReportsCorrect`: `Spec => []ReportsPartition`, with `CountInv` as a lemma: the
  count an `Add` draws is `hits + 1`, so it is a new member of `Sampled`.
* `TotalCorrect`: `Spec => []TotalNeverExceedsHits`.  Given `OneOwner` it is inductive
  over the keys as a whole and over none of them alone: in a step that counts a call of
  one key at most one element grows, by 1, and it may be another key's (`OneGrows`); in
  all others none does (`NoneGrows`).

and then about `XdpCounter`:

* `XdpCountCorrect`: `XdpSpec => [](OneOwner /\ CountExact)`.  When the program is not
  S2 xdp every step is one of `EventCounter` and its lemmas serve.  When it is, a
  pointer may lead to an evicted element on the free list, so of `PointerInv` only
  `OwnPointers` is left; an insertion that takes an element still pointed to makes
  its key lossy.
* `OthersCountAsBefore`: `handler # S2Xdp /\ XdpSpec => Spec`, the refinement behind that.
* `XdpTotalCorrect`: `XdpSpec => []TotalNeverExceedsHits`, evictions only lowering what is
  stored under the keys.
* `SourcesCorrect`: `XdpSpec => []SourcesWithinPackets`.  `PacketInv` closes the gap between the
  two maps, the packets that a CPU has counted but not yet added under their
  source: these CPUs and the calls together are at most the packets.

`LatencyPair_proofs`:

* `TypeCorrect`: `Spec => []TypeOK`.
* `MeasureCorrect`: `Spec => []ThreadPairsExact`: a pair that keys its map by
  thread measures each call by its own start.  The strengthening is
  `OneOwner /\ OwnEntry`: what is linked under a thread is the time of its
  innermost call, and its pointer leads there.  `handler` never changes, and for
  the pairs keyed by process `LatencyPair_overlap` violates the property.
* `PairCorrect`: `Spec => []PairInv`, that invariant itself, with `OneOwner` for the
  pairs keyed by process too.
* `NoOrphanCorrect`: `Spec => []NoOrphan`, for all pairs.  `NoOrphan` is not
  inductive: a return that has deleted the entry and has yet to report is still in
  the function but deletes nothing more.  `OwedInv` asks of every entry a thread of
  its key that was killed or has yet to delete it.  That two threads of a process share an
  entry does no harm: the one that deletes it makes the claim void for both.

`StatsMap_proofs`, for any set of well-formed profiles:

* `StatsTypeCorrect`: `Spec => []TypeOK`, which says that who is about to use the pointer
  of its lookup has one.  The strengthening `PointerTyped` says it of all the steps
  still to do.
* `ExtremesCorrect`: `Spec => []ExtremesMeasured`.  "The minimum is not above the
  maximum" is not inductive: a store on its way could pass the other field.  What
  is invariant is that some amount, the first call's, lies between the two fields
  and on the right side of every such store (`Between`): a store of a minimum was
  decided by a test against a minimum no higher than that amount.  `StatsInv` adds that
  an amount still to be used has been measured, and, for programs that change
  elements in place, where pointers lead, as in `EventCounter`.
* `TotalsCorrect`: `Spec => []TotalsMatch`.  The property speaks of keys that no call is
  working on, which says nothing about the next step.  `TotalInv` is the account at
  every moment: what a field holds and what the CPUs still owe it (`Owed`, a sum over the
  CPUs) is what is due from the calls made.  A CPU owes as long as a step that adds to the
  field, or leads to one, is still on its list; that it does so once and cannot
  skip it is `InOrder`, which holds of every list of steps a well-formed profile gives.
  `Located` says that a pointer or a copy comes from an entry that is there.
* `ReloadCorrect`: `Spec => []ReloadBounds`.  `ReloadInv`: until it is loaded again, the count
  a CPU made is not above what its element holds, because counts that are changed in
  place never go down (`Grows`); by `TotalInv` it is not above the calls either.

`PerCpuCounter_proofs`, for any number of CPUs and any set of well-formed profiles:

* `TypeCorrect`: `Spec => []TypeOK`.
* `CountersImplementService`: `Spec => ImplementsService`, and `PrintedCountsGrow`: `Spec =>
  CountsGrow`, for programs that count each event as what it is and whose loader
  reads every CPU's copy (`Sums`; `MCPerCpuCounter` checks that all but sock_addr and
  cgroup_device do).  The strengthening `SumInv` needs no sum over the CPUs: it says
  that there is a function `below`, of what the first i CPUs have counted, that
  ends at `hits`; the loader's sum is at most `below[got]`, and `low` at most that sum and
  what the CPUs still to be read have.  A hook that fires adds 1 to `below` past its
  CPU, and disturbs neither.

`MapDump_proofs`, for any number of keys, buckets and CPUs, any hash function and capacity:

* `DumpTypeCorrect`: `Spec => []TypeOK`, which says of the chains that a key is in one
  place, in the chain of its bucket, and of the map that it stays within its capacity;
  `Finite` (the table is a finite set) goes with it.
* `DumpCompleteCorrect`: `Spec => []DumpComplete`.  `WalkInv` says of every key that was there when
  the walk began and has not been stored again that it has been printed or is still
  to come (`Left`: under the cursor or behind it), and, while the walk was not turned
  back, that none is both.  The work is in `ToHead`: storing a key puts
  it in front of its chain and leaves the order of all others, so that of what
  lies behind the cursor only that key moves.

`Loader_proofs`, for any number of processes and any set of profiles:

* `TypeCorrect`: `Spec => []TypeOK`, which is more than types: a process in its
  setup or cleanup has a next call.
* `FailureCorrect`: `Spec => []FailureReported`.  `FailInv` follows the failure from
  the call to the exit status: in the loop nothing has failed, in the cleanup `err`
  remembers.
* `TeardownCorrect` and `SkeletonCorrect`, when all mains are `Ordered`.  `HeldInv`
  says which calls of the setup, and which destructors still to come, may
  account for what is held.
* `NothingLeftCorrect`, when all are `Ordered` and `Detaches`.  `SlotInv`: who has
  a hook of the interface either holds what attached it there, or was killed
  without a link.
* `RunningCorrect`, when all are `Attaches`, `Ordered` and `Detaches`.  `RunInv`: from its
  attachment to the end of its loop a process has its hook, or has attached
  without a link and another has got as far.  `SlotInv` is needed with it: that a
  link keeps others out is of use only if who has the hook also holds the link.

`Bvt_proofs`:

* `TestRunsLoaders`: `BvtSpec => Spec`.  The script's steps are steps of the loaders or
  leave them alone, so that all of the above holds under test as well.
* `BvtTypeCorrect`, and `VerdictCorrect` and `CauseCorrect` for mains that are
  `Attaches`.  The strengthening `LogInv` relates the log to the history: the
  expected text is there only if the setup was completed with the program attached, a
  notice only if the call it is about failed, and a loader that ended without the text
  failed, was killed or was asked for another's.  `OrderInv` goes with it: earlier tests'
  loaders have ended, later ones' have not begun.
* `StatusCorrect` (`ZeroMeansAttached`) for the same mains: with `LogInv` at hand it is
  inductive, one test adding to what the status stands for.

The theorems hold for every value of the constants that satisfies the modules'
assumptions (`HashAssumption`, `CounterAssumption`, `PairAssumption`,
`XdpAssumption`, `StatsAssumption`, `ProgramAssumption`, `PerCpuAssumption`,
`DumpAssumption`, `ProfileAssumption`, `LoaderAssumption`, `BvtAssumption`, and a
`FiniteAssumption` in `EventCounter` and `StatsMap`: there are finitely many CPUs, and a key
is a machine word) and the hypotheses they name.

Only model-checked are the liveness properties, since fairness and ENABLED are out of
the prover's reach: `EveryRecordConsumed`, `CatchesUp`, `EveryKeyPrinted`, `DumpEnds`, `Stops`
and `TestEnds`; and what the runs that end in a violation show.

## Not modelled

The formatting of what is printed and the fields of events other than the
count; `bpf_printk`; the width of counters (64 bits, never wrapped in practice);
machines with more than 128 possible CPUs (`values[128]` is then too small: the
module assumes `NumCPUs <= Slots`); the verifier; the parsing of a packet beyond
its three outcomes, and the bytes and drops of `xdp_statistics`; the S1 LSM program,
whose one call keeps no state; how `bvt_examples.sh` finds an interface, a cgroup and
the binaries (`suite` is any outcome of it); the build and bootstrap scripts, which
call tools in sequence.

## Plan

What is left, in this order:

1. Proofs: the safety part of the liveness arguments, that is, what a step of the reader or of
   the script gets nearer to the end (for `DumpEnds`: between two turns the keys behind the
   cursor become fewer).
2. An abstract specification of `StatsMap` (a call adds to all its fields at once, somewhere
   between its lookup and its return), of which `TotalInv` is already the
   refinement mapping.
3. A ring buffer of several record sizes, should the programs of one loader ever
   share a ring.
