------------------------------- MODULE Loader -------------------------------
(***************************************************************************)
(* The user-space loaders: each main() sets up signal handlers, its        *)
(* target, the skeleton, the attachments and the ring buffer, loops until  *)
(* a signal sets "stop", and tears everything down.  One action of a       *)
(* process here is one call of main(); signals come between any two.       *)
(*                                                                         *)
(* Loaders that attach to a network interface share it, those of different *)
(* programs too: "slot" is the process whose program each of its two hooks *)
(* runs.                                                                   *)
(***************************************************************************)
EXTENDS Integers, Sequences, FiniteSets

CONSTANTS Processes,  \* running loaders
          NoProcess,  \* nobody's program is on the hook
          Mains,      \* the mains under check (see the profiles below)
          Assignments \* which of them each process may run

-----------------------------------------------------------------------------
OnInterface == {"xdp_link", "filter", "xdp"}
Attachments == {"attach", "link"} \cup OnInterface
Hooks       == {"xdp", "tc"}
HookOf(r)   == IF r = "filter" THEN "tc" ELSE "xdp"
Resources   == {"args", "signal", "fd", "skel", "ring"} \cup Attachments

\* These refer to the maps and programs of the skeleton.
OfSkeleton == {"ring", "link", "attach", "xdp_link"}

(* A profile of each main().                                               *)
(*   setup    : what it acquires, in order                                 *)
(*   bare     : how many of these return at once when they fail, instead   *)
(*              of going to the cleanup label                              *)
(*   loop     : "dump" prints the maps every second; "poll" looks at the   *)
(*              result of ring_buffer__poll, "drain" does not              *)
(*   sigterm  : SIGTERM is handled like SIGINT                             *)
(*   teardown : what it gives back, in order                               *)
(* What it acquires: "args" and "signal" stand for their checks; "fd" is   *)
(* the cgroup, the socket or the perf event; "attach" is the skeleton's    *)
(* attach, given back with the skeleton; "link" the links it keeps itself; *)
(* "xdp_link", "filter" and "xdp" are the three ways to the interface.     *)

(* The shapes that several mains share. *)
Ring(loop, sigterm) == [setup |-> <<"signal", "skel", "attach", "ring">>, bare |-> 2,
                        loop |-> loop, sigterm |-> sigterm, teardown |-> <<"ring", "skel">>]
Dump == [setup |-> <<"signal", "skel", "attach">>, bare |-> 2,
         loop |-> "dump", sigterm |-> TRUE, teardown |-> <<"skel">>]
CgroupDump == [setup |-> <<"args", "signal", "fd", "skel", "link">>, bare |-> 3,
               loop |-> "dump", sigterm |-> TRUE, teardown |-> <<"link", "skel", "fd">>]
CgroupRing == [setup |-> <<"args", "signal", "fd", "skel", "link", "ring">>, bare |-> 4,
               loop |-> "drain", sigterm |-> FALSE, teardown |-> <<"ring", "link", "fd", "skel">>]
LinkDump == [setup |-> <<"args", "signal", "skel", "link">>, bare |-> 3,
             loop |-> "dump", sigterm |-> TRUE, teardown |-> <<"link", "skel">>]
LinkRing == [setup |-> <<"args", "signal", "skel", "link", "ring">>, bare |-> 3,
             loop |-> "drain", sigterm |-> FALSE, teardown |-> <<"ring", "link", "skel">>]
PerfDump == [setup |-> <<"signal", "fd", "skel", "link">>, bare |-> 2,
             loop |-> "dump", sigterm |-> TRUE, teardown |-> <<"link", "skel", "fd">>]
\* libbpf has no auto-attach for these program types: attach returns 0, having done nothing.
RingOnly == [setup |-> <<"signal", "skel", "ring">>, bare |-> 2,
             loop |-> "drain", sigterm |-> FALSE, teardown |-> <<"ring", "skel">>]

S1CgroupBpf      == Dump
S1CgroupDevice   == CgroupDump
S1CgroupSkb      == CgroupDump
S1CgroupSock     == CgroupDump
S1CgroupSockAddr == CgroupDump
S1CgroupSockopt  == CgroupDump
S1CgroupSysctl   == CgroupDump
S1SkLookup       == [LinkDump EXCEPT !.setup = Tail(@), !.bare = 2]
S1SocketFilter   == [setup |-> <<"args", "signal", "skel", "fd", "link">>, bare |-> 3,
                     loop |-> "dump", sigterm |-> TRUE, teardown |-> <<"fd", "skel">>]
S1Tc             == [setup |-> <<"args", "signal", "skel", "filter">>, bare |-> 3,
                     loop |-> "dump", sigterm |-> TRUE, teardown |-> <<"filter", "skel">>]
S1Xdp            == [setup |-> <<"args", "signal", "skel", "xdp_link">>, bare |-> 3,
                     loop |-> "dump", sigterm |-> TRUE, teardown |-> <<"xdp_link", "skel">>]
S1PerfEvent      == PerfDump
S1Lsm            == Ring("poll", TRUE)
S1Fentry         == Ring("poll", TRUE)
S1Kprobe         == Ring("poll", TRUE)
S1Kretprobe      == Dump
S1RawTracepoint  == Dump
S1Tracepoint     == Dump
S1Uprobe         == LinkDump
S1Uretprobe      == LinkDump

S2CgroupBpf      == CgroupRing
S2CgroupDevice   == CgroupRing
S2CgroupSkb      == CgroupRing
S2CgroupSock     == CgroupRing
S2CgroupSockAddr == CgroupRing
S2CgroupSockopt  == CgroupRing
S2CgroupSysctl   == CgroupRing
S2SkLookup       == RingOnly
\* The verifier refuses this one's program, which reads skb->data: "skel" fails.
S2SocketFilter   == RingOnly
S2Tc             == [setup |-> <<"args", "signal", "skel", "ring">>, bare |-> 3,
                     loop |-> "drain", sigterm |-> FALSE, teardown |-> <<"ring", "skel">>]
S2Xdp            == [setup |-> <<"args", "signal", "skel", "xdp", "ring">>, bare |-> 3,
                     loop |-> "drain", sigterm |-> TRUE, teardown |-> <<"xdp", "ring", "skel">>]
\* example_perf_event_user.c in perf/ itself, which no build.sh compiles.
S2Perf           == [setup |-> <<"signal", "skel", "fd", "link", "ring">>, bare |-> 2,
                     loop |-> "drain", sigterm |-> FALSE,
                     teardown |-> <<"ring", "link", "fd", "skel">>]
S2PerfEvent      == PerfDump
S2Lsm            == Ring("drain", FALSE)
S2FentryFexit    == Ring("drain", FALSE)
S2Kprobe         == Ring("poll", TRUE)
S2Kretprobe      == Ring("poll", TRUE)
S2RawTracepoint  == Ring("drain", FALSE)
S2Tracepoint     == Ring("drain", FALSE)
S2Uprobe         == LinkRing
S2Uretprobe      == LinkRing

\* What the destructor of r gives back: the socket filter, attached by
\* setsockopt, goes with its socket.
With(m, r) == IF r = "skel" THEN {"skel", "attach"}
              ELSE IF r = "fd" /\ m = S1SocketFilter THEN {"fd", "link"} ELSE {r}

Attaching == {S1CgroupBpf, S1CgroupDevice, S1CgroupSkb, S1CgroupSock, S1CgroupSockAddr,
              S1CgroupSockopt, S1CgroupSysctl, S1SkLookup, S1SocketFilter, S1Tc, S1Xdp,
              S1PerfEvent, S1Lsm, S1Fentry, S1Kprobe, S1Kretprobe, S1RawTracepoint,
              S1Tracepoint, S1Uprobe, S1Uretprobe, S2CgroupBpf, S2CgroupDevice, S2CgroupSkb,
              S2CgroupSock, S2CgroupSockAddr, S2CgroupSockopt, S2CgroupSysctl, S2Xdp, S2Perf,
              S2PerfEvent, S2Lsm, S2FentryFexit, S2Kprobe, S2Kretprobe, S2RawTracepoint,
              S2Tracepoint, S2Uprobe, S2Uretprobe}
AllMains == Attaching \cup {S2SkLookup, S2SocketFilter, S2Tc}

\* Something is acquired and given back, and each is a resource.
WellFormed(m) == /\ m.setup \in Seq(Resources) /\ m.setup # <<>>
                 /\ m.teardown \in Seq(Resources) /\ m.teardown # <<>>
                 /\ m.bare \in Nat /\ m.sigterm \in BOOLEAN

(* What refers to the skeleton is acquired after it; what is acquired is   *)
(* given back, and not after the skeleton if it refers to that.            *)
Ordered(m) ==
    /\ \A i \in DOMAIN m.setup :
          m.setup[i] \in OfSkeleton => \E j \in 1..i - 1 : m.setup[j] = "skel"
    /\ \A i \in DOMAIN m.setup : m.setup[i] \notin {"args", "signal"} =>
          \E j \in DOMAIN m.teardown : m.setup[i] \in With(m, m.teardown[j])
    /\ \A i \in DOMAIN m.setup, n \in DOMAIN m.teardown :
          m.setup[i] \in OfSkeleton /\ "skel" \in With(m, m.teardown[n]) =>
              \E j \in 1..n : m.setup[i] \in With(m, m.teardown[j])

\* No error after attaching to the interface returns at once; the last destructor
\* is not the one that detaches; and a filter is removed only by who makes one.
Detaches(m) ==
    /\ \A i \in 1..m.bare : \A j \in 1..i - 1 : m.setup[j] \notin {"filter", "xdp"}
    /\ m.teardown[Len(m.teardown)] \notin OnInterface
    /\ \A n \in DOMAIN m.teardown : m.teardown[n] = "filter" =>
          \E i \in DOMAIN m.setup : m.setup[i] = "filter"

\* It attaches a program itself.
Attaches(m) == \E i \in DOMAIN m.setup : m.setup[i] \in Attachments

\* The hooks it attaches to, and whether it does so by links only.
Uses(m)   == {HookOf(r) : r \in {m.setup[i] : i \in DOMAIN m.setup} \cap OnInterface}
ByLink(m) == \A i \in DOMAIN m.setup : m.setup[i] \notin {"filter", "xdp"}

ASSUME LoaderAssumption == /\ NoProcess \notin Processes
                           /\ Assignments \subseteq [Processes -> Mains]
                           /\ \A m \in Mains : WellFormed(m)
-----------------------------------------------------------------------------

VARIABLES main, \* the main() that each process runs
          pc,   \* where each process is
          step, \* its next call in setup or teardown
          held, \* what it has acquired and not given back
          stop, \* the flag its signal handler sets
          hit,  \* a signal arrived while it was waiting
          err,  \* the local variable err
          code, \* its exit status
          slot, \* whose program is on each hook of the interface
          failed \* history: a call that main() checks has failed

vars == <<main, pc, step, held, stop, hit, err, code, slot, failed>>

TypeOK == /\ main \in [Processes -> Mains]
          /\ pc \in [Processes -> {"setup", "check", "wait", "teardown", "exited"}]
          /\ step \in [Processes -> Nat \ {0}]
          /\ \A p \in Processes : /\ pc[p] = "setup" => step[p] \in DOMAIN main[p].setup
                                  /\ pc[p] = "teardown" => step[p] \in DOMAIN main[p].teardown
          /\ held \in [Processes -> SUBSET Resources]
          /\ stop \in [Processes -> BOOLEAN]
          /\ hit \in [Processes -> BOOLEAN]
          /\ err \in [Processes -> {-1, 0, 1}]
          /\ code \in [Processes -> {0, 1, 130, 137, 143}]
          /\ slot \in [Hooks -> Processes \cup {NoProcess}]
          /\ failed \in [Processes -> BOOLEAN]

Init == /\ main \in Assignments
        /\ pc = [p \in Processes |-> "setup"]
        /\ step = [p \in Processes |-> 1]
        /\ held = [p \in Processes |-> {}]
        /\ stop = [p \in Processes |-> FALSE]
        /\ hit = [p \in Processes |-> FALSE]
        /\ err = [p \in Processes |-> 0]
        /\ code = [p \in Processes |-> 0]
        /\ slot = [h \in Hooks |-> NoProcess]
        /\ failed = [p \in Processes |-> FALSE]
-----------------------------------------------------------------------------
(* Each operator named Bad... is a wrong form of the definition that       *)
(* follows it; no specification uses it.                                   *)

\* The process ends with status c.  The kernel closes its descriptors, and
\* with them goes whatever is attached by a link, but not a tc filter and
\* not a program attached to the interface by bpf_xdp_attach.
Ends(p, c) ==
    /\ pc' = [pc EXCEPT ![p] = "exited"]
    /\ code' = [code EXCEPT ![p] = c]
    /\ held' = [held EXCEPT ![p] = {}]
    /\ slot' = IF slot["xdp"] = p /\ "xdp_link" \in held[p]
               THEN [slot EXCEPT !["xdp"] = NoProcess] ELSE slot

GoTo(p, label) == /\ pc' = [pc EXCEPT ![p] = label]
                  /\ step' = [step EXCEPT ![p] = 1]

\* Some process has its program on the XDP hook by a link.
Linked == \E q \in Processes : slot["xdp"] = q /\ "xdp_link" \in held[q]

\* bpf_xdp_attach replaces a link.
BadAcquire(p) ==
    LET r == main[p].setup[step[p]] IN
    /\ pc[p] = "setup"
    /\ r = "xdp_link" => slot["xdp"] = NoProcess
    /\ held' = [held EXCEPT ![p] = @ \cup {r}]
    /\ slot' = IF r \in OnInterface THEN [slot EXCEPT ![HookOf(r)] = p] ELSE slot
    /\ IF step[p] = Len(main[p].setup)
       THEN GoTo(p, "check")
       ELSE step' = [step EXCEPT ![p] = @ + 1] /\ UNCHANGED pc
    /\ UNCHANGED <<main, stop, hit, err, code, failed>>

(* The next call of the setup succeeds.  An XDP link is exclusive;         *)
(* BPF_TC_F_REPLACE and bpf_xdp_attach without flags take the hook from    *)
(* whoever has it, unless by a link.                                       *)
Acquire(p) ==
    LET r == main[p].setup[step[p]] IN
    /\ pc[p] = "setup"
    /\ r = "xdp_link" => slot["xdp"] = NoProcess
    /\ r = "xdp" => ~Linked
    /\ held' = [held EXCEPT ![p] = @ \cup {r}]
    /\ slot' = IF r \in OnInterface THEN [slot EXCEPT ![HookOf(r)] = p] ELSE slot
    /\ IF step[p] = Len(main[p].setup)
       THEN GoTo(p, "check")
       ELSE step' = [step EXCEPT ![p] = @ + 1] /\ UNCHANGED pc
    /\ UNCHANGED <<main, stop, hit, err, code, failed>>

\* The error path does not set err.
BadAcquireFails(p) ==
    /\ pc[p] = "setup"
    /\ main[p].setup[step[p]] # "signal"
    /\ failed' = [failed EXCEPT ![p] = TRUE]
    /\ IF step[p] <= main[p].bare
       THEN Ends(p, 1) /\ UNCHANGED step
       ELSE GoTo(p, "teardown") /\ UNCHANGED <<held, code, slot>>
    /\ UNCHANGED <<main, stop, hit, err>>

\* Every error goes to the last label.
BadLabel(p) ==
    /\ pc[p] = "setup"
    /\ main[p].setup[step[p]] # "signal"
    /\ failed' = [failed EXCEPT ![p] = TRUE]
    /\ IF step[p] <= main[p].bare
       THEN Ends(p, 1) /\ UNCHANGED <<step, err>>
       ELSE /\ pc' = [pc EXCEPT ![p] = "teardown"]
            /\ step' = [step EXCEPT ![p] = Len(main[p].teardown)]
            /\ err' = [err EXCEPT ![p] = -1]
            /\ UNCHANGED <<held, code, slot>>
    /\ UNCHANGED <<main, stop, hit>>

(* It fails: main() returns 1, or sets err and cleans up; of several links *)
(* some may have been made.  signal() cannot fail for these two signals.   *)
AcquireFails(p) ==
    LET r == main[p].setup[step[p]] IN
    /\ pc[p] = "setup"
    /\ r # "signal"
    /\ failed' = [failed EXCEPT ![p] = TRUE]
    /\ IF step[p] <= main[p].bare
       THEN Ends(p, 1) /\ UNCHANGED <<step, err>>
       ELSE /\ GoTo(p, "teardown")
            /\ err' = [err EXCEPT ![p] = -1]
            /\ \E some \in {{}, {r} \cap {"attach", "link"}} :
                  held' = [held EXCEPT ![p] = @ \cup some]
            /\ UNCHANGED <<code, slot>>
    /\ UNCHANGED <<main, stop, hit>>

\* while (1)
BadCheck(p) ==
    /\ pc[p] = "check"
    /\ GoTo(p, "wait")
    /\ hit' = [hit EXCEPT ![p] = FALSE]
    /\ UNCHANGED <<main, held, stop, err, code, slot, failed>>

\* while (!stop)
Check(p) ==
    /\ pc[p] = "check"
    /\ GoTo(p, IF stop[p] THEN "teardown" ELSE "wait")
    /\ hit' = [hit EXCEPT ![p] = FALSE]
    /\ UNCHANGED <<main, held, stop, err, code, slot, failed>>

(* The body of a loop that does not look at results: ring_buffer__poll, or *)
(* printing the maps and sleep(1), which a signal cuts short.              *)
Wait(p) ==
    /\ pc[p] = "wait" /\ main[p].loop \in {"dump", "drain"}
    /\ GoTo(p, "check")
    /\ UNCHANGED <<main, held, stop, hit, err, code, slot, failed>>

\* err = ring_buffer__poll(rb, 100): it has handed n records to the callback, ...
Poll(p) ==
    /\ pc[p] = "wait" /\ main[p].loop = "poll"
    /\ \E n \in {0, 1} : err' = [err EXCEPT ![p] = n]
    /\ GoTo(p, "check")
    /\ UNCHANGED <<main, held, stop, hit, code, slot, failed>>

\* ... or a signal interrupted it, -EINTR: err = 0 and break, ...
PollInterrupted(p) ==
    /\ pc[p] = "wait" /\ main[p].loop = "poll" /\ hit[p]
    /\ err' = [err EXCEPT ![p] = 0]
    /\ GoTo(p, "teardown")
    /\ UNCHANGED <<main, held, stop, hit, code, slot, failed>>

\* ... or it failed: break.
PollFails(p) ==
    /\ pc[p] = "wait" /\ main[p].loop = "poll"
    /\ err' = [err EXCEPT ![p] = -1]
    /\ failed' = [failed EXCEPT ![p] = TRUE]
    /\ GoTo(p, "teardown")
    /\ UNCHANGED <<main, held, stop, hit, code, slot>>

\* The program is not detached from the interface.
BadCleared(p, r) == r = "xdp_link" /\ slot["xdp"] = p

(* Whether the hook is empty after p gave r back: detach_tc removes the    *)
(* filter of the handle and flushes the hook, whoever made it and even if  *)
(* p did not get to make one; bpf_xdp_detach removes whatever program is   *)
(* there, but not a link, and is skipped when p did not attach; a link     *)
(* goes only if it is there.                                               *)
Cleared(p, r) == \/ r = "filter"
                 \/ r = "xdp" /\ "xdp" \in held[p] /\ ~Linked
                 \/ r = "xdp_link" /\ slot["xdp"] = p

\* One destructor too many.
BadRelease(p) ==
    LET r == main[p].teardown[step[p]] IN
    /\ pc[p] = "teardown"
    /\ step[p] <= Len(main[p].teardown)
    /\ held' = [held EXCEPT ![p] = @ \ With(main[p], r)]
    /\ slot' = IF Cleared(p, r) THEN [slot EXCEPT ![HookOf(r)] = NoProcess] ELSE slot
    /\ step' = [step EXCEPT ![p] = @ + 1]
    /\ UNCHANGED <<main, pc, stop, hit, err, code, failed>>

\* The destructors run in the wrong order.
BadReleaseOrder(p) ==
    LET r == main[p].teardown[Len(main[p].teardown) + 1 - step[p]] IN
    /\ pc[p] = "teardown"
    /\ step[p] < Len(main[p].teardown)
    /\ held' = [held EXCEPT ![p] = @ \ With(main[p], r)]
    /\ slot' = IF Cleared(p, r) THEN [slot EXCEPT ![HookOf(r)] = NoProcess] ELSE slot
    /\ step' = [step EXCEPT ![p] = @ + 1]
    /\ UNCHANGED <<main, pc, stop, hit, err, code, failed>>

Release(p) ==
    LET r == main[p].teardown[step[p]] IN
    /\ pc[p] = "teardown"
    /\ step[p] < Len(main[p].teardown)
    /\ held' = [held EXCEPT ![p] = @ \ With(main[p], r)]
    /\ slot' = IF Cleared(p, r) THEN [slot EXCEPT ![HookOf(r)] = NoProcess] ELSE slot
    /\ step' = [step EXCEPT ![p] = @ + 1]
    /\ UNCHANGED <<main, pc, stop, hit, err, code, failed>>

\* The last destructor, and return err ? 1 : 0.
Finish(p) ==
    /\ pc[p] = "teardown"
    /\ step[p] = Len(main[p].teardown)
    /\ Ends(p, IF err[p] # 0 THEN 1 ELSE 0)
    /\ UNCHANGED <<main, step, stop, hit, err, failed>>

\* SIGINT or SIGTERM, to a process that handles it ...
Signal(p) ==
    /\ pc[p] # "exited" /\ "signal" \in held[p]
    /\ ~stop[p]
    /\ stop' = [stop EXCEPT ![p] = TRUE]
    /\ hit' = [hit EXCEPT ![p] = pc[p] = "wait"]
    /\ UNCHANGED <<main, pc, step, held, err, code, slot, failed>>

\* ... or that does not, or SIGKILL.
Kill(p) ==
    /\ pc[p] # "exited"
    /\ \/ Ends(p, 137)
       \/ Ends(p, 143) /\ ("signal" \in held[p] => ~main[p].sigterm)
       \/ Ends(p, 130) /\ "signal" \notin held[p]
    /\ UNCHANGED <<main, step, stop, hit, err, failed>>

Step(p) == \/ Acquire(p) \/ AcquireFails(p) \/ Check(p) \/ Wait(p)
           \/ Poll(p) \/ PollInterrupted(p) \/ PollFails(p) \/ Release(p) \/ Finish(p)

Next == \E p \in Processes : Step(p) \/ Signal(p) \/ Kill(p)

Spec == Init /\ [][Next]_vars
-----------------------------------------------------------------------------
(* Properties                                                              *)

(* However a process ends, its program does not stay on the interface:     *)
(* after an error at any point of the setup, a stop at any point and, when *)
(* it attached by a link, even after it was killed.                        *)
NothingLeft ==
    \A p \in Processes :
        pc[p] = "exited" /\ (code[p] \in {0, 1} \/ ByLink(main[p])) => \A h \in Hooks : slot[h] # p

(* The cleanup label gives back whatever has been acquired on the way to   *)
(* it, from whichever call came there: with the last destructor nothing is *)
(* left for the kernel to close.                                           *)
TeardownComplete ==
    \A p \in Processes :
        pc[p] = "teardown" /\ step[p] = Len(main[p].teardown) =>
            held[p] \subseteq {"args", "signal"} \cup With(main[p], main[p].teardown[step[p]])

(* The ring buffer and the links are used and given back only while the    *)
(* skeleton whose maps and programs they refer to exists.                  *)
SkeletonOutlives ==
    \A p \in Processes :
        held[p] \cap OfSkeleton # {} => "skel" \in held[p]

(* A process that failed says so: its exit status is 1 (or it was killed). *)
FailureReported ==
    \A p \in Processes : pc[p] = "exited" /\ failed[p] => code[p] # 0

\* Another process that attaches to the same hook has got that far.
Started(q) == pc[q] # "setup" \/ held[q] \cap OnInterface # {}

Rivalled(p) == \E q \in Processes \ {p} : Uses(main[p]) \cap Uses(main[q]) # {} /\ Started(q)

(* While a loader is in its loop its program is attached.  On a hook of    *)
(* the interface it is the only one there, whatever other loaders do, if   *)
(* it attached by a link; if not, as long as no other one gets that far.   *)
RunningIsAttached ==
    \A p \in Processes :
        pc[p] \in {"check", "wait"} =>
            /\ held[p] \cap Attachments # {}
            /\ \A h \in Uses(main[p]) : slot[h] = p \/ (~ByLink(main[p]) /\ Rivalled(p))

(* A loader that has been told to stop does, if its calls return: poll     *)
(* after 100 ms, sleep after a second.                                     *)
Stops == \A p \in Processes : WF_vars(Step(p)) => (stop[p] ~> pc[p] = "exited")
=============================================================================
