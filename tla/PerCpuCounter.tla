--------------------------- MODULE PerCpuCounter ----------------------------
(***************************************************************************)
(* The S1 programs that count in a BPF_MAP_TYPE_PERCPU_ARRAY: each hook    *)
(* looks its counter up, which never fails for an array, and adds 1 to the *)
(* copy of the CPU it runs on.  The loader reads a counter with one        *)
(* bpf_map_lookup_elem, which copies the CPUs' values out one after the    *)
(* other while the hooks go on firing, and prints their sum, for each      *)
(* counter in turn and again every second.                                 *)
(***************************************************************************)
EXTENDS Integers, Sequences

LOCAL INSTANCE FiniteSetsExt

CONSTANTS NumCPUs,  \* libbpf_num_possible_cpus()
          Slots,    \* the 128 of "values[128]"
          Programs, \* the programs under check (see the profiles below)
          MaxHits   \* bound: events

ASSUME PerCpuAssumption == NumCPUs \in 1..Slots /\ Slots \in Nat /\ MaxHits \in Nat

CPUs == 0..NumCPUs - 1
-----------------------------------------------------------------------------
(* A profile of each program: the names its loader prints, in the order of *)
(* the keys; the counter that each event adds to; what the event is; and   *)
(* whether the loader reads the copy of every CPU or only the first.       *)

\* Programs with one counter, at key 0.
OneCounter(name) == [names |-> <<name>>, index |-> [e \in {name} |-> name],
                     is |-> [e \in {name} |-> name], firstOnly |-> FALSE]

XdpPass       == OneCounter("xdp packets")
TcClassifier  == OneCounter("tc packets")
SocketFilter  == OneCounter("socket packets")
Tracepoint    == OneCounter("execve")
RawTracepoint == OneCounter("sched_process_fork")
PerfEvent     == OneCounter("perf samples")
CgroupSock    == OneCounter("sock_create")

\* Programs whose hooks, or whose cases, have a counter each.
Tallies(names, index) == [names |-> names, index |-> index, is |-> index, firstOnly |-> FALSE]

CgroupSkb == Tallies(<<"ingress", "egress">>, [e \in {"ingress", "egress"} |-> e])

Sockopt == Tallies(<<"setsockopt", "getsockopt">>, [e \in {"setsockopt", "getsockopt"} |-> e])

Sysctl == Tallies(<<"read", "write">>,
                  [write \in BOOLEAN |-> IF write THEN "write" ELSE "read"])

BpfCommands == {"prog_load", "map_create", "prog_attach", "prog_detach"}
CgroupBpf == Tallies(<<"prog_load", "map_create", "prog_attach", "prog_detach", "other">>,
                     [cmd \in BpfCommands \cup {"link_create", "map_lookup_elem"} |->
                         IF cmd \in BpfCommands THEN cmd ELSE "other"])

\* The six hooks of sock_addr share three counters, and its loader passes
\* bpf_map_lookup_elem room for one value only: it gets the first CPU's.
SockAddr ==
    LET index == [h \in {"connect4", "connect6", "bind4", "bind6", "sendmsg4", "sendmsg6"} |->
                     CASE h \in {"connect4", "connect6"} -> "connect"
                       [] h \in {"bind4", "bind6"} -> "bind"
                       [] h \in {"sendmsg4", "sendmsg6"} -> "sendmsg"]
    IN  [Tallies(<<"connect", "bind", "sendmsg">>, index) EXCEPT !.firstOnly = TRUE]

\* The kernel's access_type: BPF_DEVCG_ACC_* shifted left by 16, and the
\* device's type (1: block, 2: character) in the low half.
AccMknod == 1
AccRead  == 2
AccWrite == 4
AccessTypes == {access * 2^16 + type : access \in {AccMknod, AccRead, AccWrite}, type \in {1, 2}}

\* The switch of the program, on the whole of access_type ...
DeviceIndex(t) == CASE t = AccRead  -> "read"
                    [] t = AccWrite -> "write"
                    [] t = AccMknod -> "mknod"
                    [] OTHER        -> "other"
\* ... and what the access is.
DeviceAccess(t) == CASE t \div 2^16 = AccRead  -> "read"
                     [] t \div 2^16 = AccWrite -> "write"
                     [] t \div 2^16 = AccMknod -> "mknod"
CgroupDevice == [names |-> <<"read", "write", "mknod", "other">>,
                 index |-> [t \in AccessTypes |-> DeviceIndex(t)],
                 is    |-> [t \in AccessTypes |-> DeviceAccess(t)],
                 firstOnly |-> FALSE]

SummingPrograms == {XdpPass, TcClassifier, SocketFilter, Tracepoint, RawTracepoint, PerfEvent,
                    CgroupSock, CgroupSkb, Sockopt, Sysctl, CgroupBpf}
-----------------------------------------------------------------------------

VARIABLES prog,    \* the attached program, and its loader
          copy,    \* the map: each counter's value on each CPU
          key,     \* the loader's key, counted from 1
          got,     \* how many CPUs' copies it has
          sum,     \* their total
          printed, \* the last count printed under each name
          hits,    \* history: the events of each name so far
          low      \* history: hits of the name being read, when the reading began

reader == <<key, got, sum>>
vars == <<prog, copy, reader, printed, hits, low>>

NamesOf(p) == {p.names[i] : i \in DOMAIN p.names}
Names == UNION {NamesOf(p) : p \in Programs}

\* The shape of a profile.
WellFormed(p) == /\ p.names \in Seq(STRING) \ {<<>>} /\ "none" \notin NamesOf(p)
                 /\ {p.index, p.is} \subseteq [DOMAIN p.index -> NamesOf(p)]
                 /\ p.firstOnly \in BOOLEAN

ASSUME ProfileAssumption == \A p \in Programs : WellFormed(p)

\* It counts an event as what it is, and its loader reads every CPU's copy.
Sums(p) == p.is = p.index /\ ~p.firstOnly

Events == DOMAIN prog.index
Current == prog.names[key]
ToRead == IF prog.firstOnly THEN 1 ELSE NumCPUs

TotalHits == FoldSet(LAMBDA n, t : hits[n] + t, 0, Names)

TypeOK == /\ prog \in Programs
          /\ copy \in [Names -> [CPUs -> Nat]]
          /\ key \in DOMAIN prog.names
          /\ got \in 0..ToRead
          /\ sum \in Nat
          /\ printed \in [Names -> Nat]
          /\ hits \in [Names -> Nat]
          /\ low \in Nat

Init == /\ prog \in Programs
        /\ copy = [n \in Names |-> [c \in CPUs |-> 0]]
        /\ key = 1 /\ got = 0 /\ sum = 0
        /\ printed = [n \in Names |-> 0]
        /\ hits = [n \in Names |-> 0]
        /\ low = 0

(* A hook fires on CPU c.  The programs of one CPU do not interleave with  *)
(* each other inside the atomic add.                                       *)
Fire(c, e) ==
    /\ TotalHits < MaxHits
    /\ copy' = [copy EXCEPT ![prog.index[e]][c] = @ + 1]
    /\ hits' = [hits EXCEPT ![prog.is[e]] = @ + 1]
    /\ UNCHANGED <<prog, reader, printed, low>>

\* The lookup copies the value of one more CPU, and the loader adds it up.
ReadCopy ==
    /\ got < ToRead
    /\ sum' = sum + copy[Current][got]
    /\ got' = got + 1
    /\ low' = IF got = 0 THEN hits[Current] ELSE low
    /\ UNCHANGED <<prog, copy, key, printed, hits>>

(* Each operator named Bad... is a wrong form of PrintSum; no             *)
(* specification uses it.                                                  *)

\* "key < n" is written "key <= n".
BadPrintPastEnd ==
    /\ got = ToRead
    /\ printed' = [printed EXCEPT ![Current] = sum]
    /\ key' = IF key > Len(prog.names) THEN 1 ELSE key + 1
    /\ got' = 0 /\ sum' = 0
    /\ UNCHANGED <<prog, copy, hits, low>>

\* "total = 0" is outside the loop over the keys.
BadPrintKeepsSum ==
    /\ got = ToRead
    /\ printed' = [printed EXCEPT ![Current] = sum]
    /\ key' = IF key = Len(prog.names) THEN 1 ELSE key + 1
    /\ got' = 0 /\ sum' = IF key = Len(prog.names) THEN 0 ELSE sum
    /\ UNCHANGED <<prog, copy, hits, low>>

\* names[0] is printed for every key.
BadPrintName ==
    /\ got = ToRead
    /\ printed' = [printed EXCEPT ![prog.names[1]] = sum]
    /\ key' = IF key = Len(prog.names) THEN 1 ELSE key + 1
    /\ got' = 0 /\ sum' = 0
    /\ UNCHANGED <<prog, copy, hits, low>>

\* The key is not advanced.
BadPrintOneKey ==
    /\ got = ToRead
    /\ printed' = [printed EXCEPT ![Current] = sum]
    /\ got' = 0 /\ sum' = 0
    /\ UNCHANGED <<prog, copy, key, hits, low>>

\* The count is printed; the next key, or after a second the first one again.
PrintSum ==
    /\ got = ToRead
    /\ printed' = [printed EXCEPT ![Current] = sum]
    /\ key' = IF key = Len(prog.names) THEN 1 ELSE key + 1
    /\ got' = 0 /\ sum' = 0
    /\ UNCHANGED <<prog, copy, hits, low>>

Next == ReadCopy \/ PrintSum \/ \E c \in CPUs, e \in Events : Fire(c, e)

Spec == Init /\ [][Next]_vars

\* The loader's loop goes on until it is stopped; nothing makes a hook fire.
FairSpec == Spec /\ WF_vars(ReadCopy \/ PrintSum)
-----------------------------------------------------------------------------
(* Properties                                                              *)

(* A printed count is one the counter had while it was being read, though  *)
(* the CPUs' copies are read one by one and hooks fire meanwhile: the      *)
(* loader and the program implement CounterService.                        *)
Service == INSTANCE CounterService WITH
               Names  <- Names,
               NoName <- "none",
               total  <- hits,
               asked  <- IF got = 0 THEN "none" ELSE Current

ImplementsService == Service!Spec

(* The counts on the user's terminal never go back.                        *)
CountsGrow == [][\A n \in Names : printed'[n] >= printed[n]]_vars

(* When events stop, every name's count is printed in full, in the end.    *)
CatchesUp == \A n \in Names, m \in 0..MaxHits :
    <>[](n \in NamesOf(prog) /\ hits[n] = m) => <>[](printed[n] = m)
-----------------------------------------------------------------------------
(* What the sources say of two programs, and they do not keep.             *)

(* "prints connect/bind/sendmsg counts": the count about to be printed is   *)
(* not below what had happened when the loader asked for it.               *)
PrintsWholeCount == got = ToRead => sum >= low

(* "prints device access counts": no access is counted under another name. *)
CountedByKind == \A n \in Names : \A c \in CPUs : copy[n][c] <= hits[n]
=============================================================================
