--------------------------------- MODULE Bvt ---------------------------------
(***************************************************************************)
(* The build verification script: main() calls run_test for one example    *)
(* after the other.  run_test starts a loader in the background, waits,    *)
(* asks it to stop, kills it, waits for its end and judges by what it has  *)
(* printed.  The loaders it starts are processes of Loader; the others are *)
(* loaders that a user runs beside the test, and the user may signal any   *)
(* of them at any time.                                                    *)
(*                                                                         *)
(* The script's sleeps say nothing about how far the loader is: a step of  *)
(* the script comes between any two calls of main().                       *)
(***************************************************************************)
EXTENDS Loader

CONSTANTS Suites,   \* which loaders the script may have to start, in order
          MaySignal \* kill reaches them: the script runs as root.  If not, it
                    \* runs sudo, which belongs to root: kill gets EPERM

ASSUME BvtAssumption ==
    /\ \A s \in Suites : /\ s \in Seq(Processes) /\ s # <<>>
                         /\ \A i, j \in DOMAIN s : s[i] = s[j] => i = j
    /\ MaySignal \in BOOLEAN

VARIABLES suite,   \* those that are built and whose target is there
          test,    \* which of them run_test is at
          foreign, \* the text this test looks for is another program's
          script,  \* where run_test is: in its first sleep, before the TERM,
                   \* before the KILL, in wait, or back in main()
          log,     \* what of the log file grep looks for
          verdict, \* what run_test said
          status,  \* of the script
          \* history of the tested loader:
          attached, \* it had its program attached and all it needs when it printed
          broke,    \* the call of its setup that failed, or "nothing"
          killed,   \* it was killed in its setup
          missed    \* the tests before that neither saw it attached nor had an excuse

plan     == <<suite, test, foreign>>
inTest   == <<attached, broke, killed>>
testVars == <<plan, script, log, verdict, status, inTest, missed>>
bvtVars  == <<vars, testVars>>

Tested == suite[test]

\* What makes run_test skip a test, whatever else is in the log.
Notices == {"failed to attach to netns", "perf_event_open"}

(* Which of them the failed call for r may leave in the log, where stderr  *)
(* goes too.  libbpf warns there by default when it cannot attach to a     *)
(* network namespace (S1 sk_lookup passes its stdin, 0, for one), or when  *)
(* perf_event_open fails, by which it attaches kprobes, uprobes and        *)
(* tracepoints; the perf_event loaders call that themselves, and perror.   *)
(* Mains of one profile are one main here.                                 *)
PerfOpens ==
    {<<m, "attach">> : m \in {S1Kprobe, S1Kretprobe, S1Tracepoint,
                             S2Kprobe, S2Kretprobe, S2Tracepoint}} \cup
    {<<m, "link">> : m \in {S1Uprobe, S1Uretprobe, S2Uprobe, S2Uretprobe}} \cup
    {<<m, "fd">> : m \in {S1PerfEvent, S2PerfEvent}}
Notice(m, r) == IF <<m, r>> = <<S1SkLookup, "link">> THEN {"failed to attach to netns"}
                ELSE IF <<m, r>> \in PerfOpens THEN {"perf_event_open"} ELSE {}

\* S2's programs that the script runs in place of S1's of the same name when
\* EXAMPLES_DIR says so, and that do not print S1's text (uprobe and perf_event do).
Reworded == {S2SkLookup, S2SocketFilter, S2Tc, S2Xdp, S2Lsm, S2Kprobe, S2Kretprobe,
             S2Tracepoint, S2RawTracepoint, S2Uretprobe, S2CgroupBpf, S2CgroupDevice,
             S2CgroupSkb, S2CgroupSock, S2CgroupSockAddr, S2CgroupSockopt, S2CgroupSysctl}
Foreign(p) == IF main[p] \in Reworded THEN BOOLEAN ELSE {FALSE}

BvtTypeOK == /\ TypeOK
             /\ suite \in Suites /\ test \in DOMAIN suite
             /\ foreign \in BOOLEAN
             /\ script \in {"sleep", "term", "kill", "wait", "done"}
             /\ log \in SUBSET ({"expected text"} \cup Notices)
             /\ verdict \in {"none", "PASS", "FAIL", "Skip"}
             /\ verdict = "none" <=> script # "done"
             /\ status \in {0, 1}
             /\ attached \in BOOLEAN /\ broke \in Resources \cup {"nothing"} /\ killed \in BOOLEAN
             /\ missed \in SUBSET DOMAIN suite

BvtInit == /\ Init
           /\ suite \in Suites /\ test = 1
           /\ foreign \in Foreign(Tested)
           /\ script = "sleep" /\ log = {} /\ verdict = "none" /\ status = 0
           /\ attached = FALSE /\ broke = "nothing" /\ killed = FALSE
           /\ missed = {}
-----------------------------------------------------------------------------
(* What the tested loader's step adds to the log.  Each operator named     *)
(* Bad... is a wrong form of the definition that follows it.               *)

\* The message stands before the calls that attach.
BadWrites(old, new) ==
    IF "skel" \in held[Tested] THEN new = old \cup {"expected text"} ELSE new = old

(* Every main() prints its message when its setup is complete, before its  *)
(* loop: the text that the script looks for, unless it expects another     *)
(* program's.  A call that fails may leave a notice.                       *)
Writes(old, new) ==
    LET inSetup == pc[Tested] = "setup" IN
    IF inSetup /\ pc'[Tested] = "check"
    THEN new = old \cup IF foreign THEN {} ELSE {"expected text"}
    ELSE IF inSetup /\ failed'[Tested]
         THEN new \in {old, old \cup Notice(main[Tested], main[Tested].setup[step[Tested]])}
         ELSE new = old

Remember ==
    LET inSetup == pc[Tested] = "setup" IN
    /\ attached' = \/ attached
                   \/ inSetup /\ pc'[Tested] = "check" /\ held'[Tested] \cap Attachments # {}
    /\ broke' = IF inSetup /\ failed'[Tested] THEN main[Tested].setup[step[Tested]] ELSE broke
    /\ killed' = (killed \/ (inSetup /\ pc'[Tested] = "exited" /\ code'[Tested] # 1))

\* A loader that the script has yet to start.
Waiting(p) == \E i \in DOMAIN suite : i > test /\ p = suite[i]

\* The loaders and the user go on, whatever the script does.
Loaders(p) == /\ ~Waiting(p)
              /\ Step(p) \/ Signal(p) \/ Kill(p)
              /\ Writes(log, log') /\ Remember
              /\ UNCHANGED <<plan, script, verdict, status, missed>>

-----------------------------------------------------------------------------
(* run_test, and the calls of it in main().                                *)

Gone == pc[Tested] = "exited"

\* sleep 4; if ps -p "$pid"
Look == /\ script = "sleep"
        /\ script' = IF Gone THEN "wait" ELSE "term"
        /\ UNCHANGED <<vars, plan, log, verdict, status, inTest, missed>>

\* kill -TERM "$pid" || true: the handler sets "stop", or the loader ends.
Term == /\ script = "term"
        /\ script' = "kill"
        /\ IF MaySignal /\ ~Gone
           THEN \/ Kill(Tested) /\ code'[Tested] = 143
                \/ /\ "signal" \in held[Tested] /\ main[Tested].sigterm
                   /\ IF stop[Tested] THEN UNCHANGED vars ELSE Signal(Tested)
           ELSE UNCHANGED vars
        /\ Remember
        /\ UNCHANGED <<plan, log, verdict, status, missed>>

\* The signal is TERM once more.
BadKillNow == /\ script = "kill"
              /\ script' = "wait"
              /\ UNCHANGED <<vars, plan, log, verdict, status, inTest, missed>>

\* sleep 1; kill -KILL "$pid" || true
KillNow == /\ script = "kill"
           /\ script' = "wait"
           /\ IF MaySignal /\ ~Gone
              THEN Kill(Tested) /\ code'[Tested] = 137
              ELSE UNCHANGED vars
           /\ Remember
           /\ UNCHANGED <<plan, log, verdict, status, missed>>

\* A message passes only with an accepted status.
BadStatusOf(text, rc) ==
    IF text \cap Notices # {} THEN "Skip"
    ELSE IF "expected text" \in text /\ rc \in {0, 137, 143} THEN "PASS" ELSE "FAIL"

\* A notice comes first.  Then a missing message fails the test, and a message
\* passes it whatever the status: every call of run_test gives a text to expect.
VerdictOf(text, rc) ==
    IF text \cap Notices # {} THEN "Skip"
    ELSE IF "expected text" \in text THEN "PASS" ELSE "FAIL"

\* The call that attaches to the namespace, or opens a perf event, failed.
Excused == Notice(main[Tested], broke) # {}

\* What a test leaves in the history.
Missed == missed \cup IF attached \/ Excused THEN {} ELSE {test}

\* The status is that of the last test.
BadJudge == /\ script = "wait" /\ Gone
            /\ script' = "done"
            /\ verdict' = VerdictOf(log, code[Tested])
            /\ status' = IF verdict' = "FAIL" THEN 1 ELSE 0
            /\ missed' = Missed
            /\ UNCHANGED <<vars, plan, log, inTest>>

\* wait "$pid"; rc=$?, the verdict, and "|| status=1" of the caller.
Judge == /\ script = "wait" /\ Gone
         /\ script' = "done"
         /\ verdict' = VerdictOf(log, code[Tested])
         /\ status' = IF verdict' = "FAIL" THEN 1 ELSE status
         /\ missed' = Missed
         /\ UNCHANGED <<vars, plan, log, inTest>>

\* main() goes on to the next example: another log file.
NextTest == /\ script = "done" /\ test < Len(suite)
            /\ test' = test + 1 /\ script' = "sleep" /\ log' = {} /\ verdict' = "none"
            /\ attached' = FALSE /\ broke' = "nothing" /\ killed' = FALSE
            /\ foreign' \in Foreign(suite[test + 1])
            /\ UNCHANGED <<vars, suite, status, missed>>

Script == Look \/ Term \/ KillNow \/ Judge \/ NextTest

BvtNext == Script \/ \E p \in Processes : Loaders(p)

BvtSpec == BvtInit /\ [][BvtNext]_bvtVars

\* A sleep ends, and wait returns once the process is gone.  Nothing is assumed
\* of the loaders, which may hang in any of their calls.
BvtFairSpec == BvtSpec /\ WF_bvtVars(Script)

\* Or else the loaders do not hang.
BvtLiveSpec == BvtFairSpec /\ \A p \in Processes : WF_vars(Step(p))
-----------------------------------------------------------------------------
(* Properties                                                              *)

(* A test that passes has seen the loader's program attached and the rest  *)
(* of its setup done.                                                      *)
PassMeansAttached == verdict = "PASS" => attached /\ broke = "nothing"

(* A test fails only for a reason: a call of the setup failed, somebody    *)
(* (the script itself, if the setup takes longer than four seconds) killed *)
(* the loader before it was ready, or the text was another program's.  One *)
(* is skipped only if nothing was attached because of the very call that   *)
(* the script's message blames.                                            *)
FailHasCause == /\ verdict = "FAIL" => broke # "nothing" \/ killed \/ foreign
                /\ verdict = "Skip" => Excused /\ ~attached

(* "All selected tests completed successfully", and status 0, leave out no *)
(* other failure: every test has seen its program attached, or the call to *)
(* attach it to the network namespace or to open its perf event failed.    *)
ZeroMeansAttached == status = 0 => missed = {}

(* The script comes to its end, with a verdict for each test (README.md:   *)
(* "Timeout per test"), though the loaders may hang.                       *)
TestEnds == <>(test = Len(suite) /\ verdict # "none")
=============================================================================
