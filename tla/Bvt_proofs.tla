------------------------------ MODULE Bvt_proofs ------------------------------
(***************************************************************************)
(* Theorems about the build verification script, for any number of tests   *)
(* and of loaders beside the tested one, signalled at any time.            *)
(***************************************************************************)
EXTENDS Bvt, Loader_proofs

-----------------------------------------------------------------------------
(* The loaders in a test behave as loaders do.                             *)

LEMMA SuiteSequence ==
    ASSUME NEW s \in Suites
    PROVE  /\ Len(s) \in Nat \ {0} /\ DOMAIN s = 1..Len(s)
           /\ \A i \in DOMAIN s : s[i] \in Processes
BY BvtAssumption

LEMMA TestedIsLoader == ASSUME BvtTypeOK PROVE Tested \in Processes
<1>1. suite \in Suites /\ test \in DOMAIN suite
  BY DEF BvtTypeOK
<1> QED
  BY <1>1, SuiteSequence DEF Tested

LEMMA BvtStepIsLoaderStep == BvtTypeOK /\ [BvtNext]_bvtVars => [Next]_vars
<1> SUFFICES ASSUME BvtTypeOK, [BvtNext]_bvtVars PROVE [Next]_vars
  OBVIOUS
<1>t. Tested \in Processes
  BY TestedIsLoader
<1>1. CASE Look \/ Judge \/ NextTest
  BY <1>1 DEF Look, Judge, NextTest
<1>2. CASE Term
  <2>1. Kill(Tested) \/ Signal(Tested) \/ UNCHANGED vars
    BY <1>2 DEF Term
  <2> QED
    BY <2>1, <1>t DEF Next
<1>3. CASE KillNow
  <2>1. Kill(Tested) \/ UNCHANGED vars
    BY <1>3 DEF KillNow
  <2> QED
    BY <2>1, <1>t DEF Next
<1>4. ASSUME NEW p \in Processes, Loaders(p) PROVE Next
  BY <1>4 DEF Loaders, Next
<1>5. CASE UNCHANGED bvtVars
  BY <1>5 DEF bvtVars
<1> QED
  BY <1>1, <1>2, <1>3, <1>4, <1>5 DEF BvtNext, Script
-----------------------------------------------------------------------------
(* Type correctness.                                                       *)

LEMMA NoticeType == ASSUME NEW m, NEW r PROVE Notice(m, r) \subseteq Notices
BY DEF Notice, Notices

LEMMA NoNotice == ASSUME NEW m PROVE Notice(m, "nothing") = {}
BY DEF Notice, PerfOpens

\* The next call of a setup is for some resource.
LEMMA NextCall ==
    ASSUME TypeOK, NEW t \in Processes, pc[t] = "setup"
    PROVE  main[t].setup[step[t]] \in Resources
<1>1. WellFormed(main[t]) /\ step[t] \in DOMAIN main[t].setup
  BY LoaderAssumption DEF TypeOK
<1> QED
  BY <1>1 DEF WellFormed

LEMMA BvtTypeInit == BvtInit => BvtTypeOK
<1>1. \A s \in Suites : 1 \in DOMAIN s
  BY SuiteSequence
<1> QED
  BY <1>1, TypeInit DEF BvtInit, BvtTypeOK, Foreign

LEMMA BvtTypeStep == BvtTypeOK /\ [BvtNext]_bvtVars => BvtTypeOK'
<1> SUFFICES ASSUME BvtTypeOK, [BvtNext]_bvtVars PROVE BvtTypeOK'
  OBVIOUS
<1>1. TypeOK'
  BY BvtStepIsLoaderStep, TypeStep DEF BvtTypeOK
<1>2. ASSUME Remember
      PROVE  /\ attached' \in BOOLEAN /\ killed' \in BOOLEAN
             /\ broke' \in Resources \cup {"nothing"}
  <2>1. /\ attached' \in BOOLEAN /\ killed' \in BOOLEAN
        /\ broke' = broke \/ (pc[Tested] = "setup" /\ broke' = main[Tested].setup[step[Tested]])
    BY <1>2 DEF Remember, BvtTypeOK
  <2>2. pc[Tested] = "setup" => main[Tested].setup[step[Tested]] \in Resources
    BY TestedIsLoader, NextCall DEF BvtTypeOK
  <2> QED
    BY <2>1, <2>2 DEF BvtTypeOK
<1>3. ASSUME NEW p \in Processes, Loaders(p) PROVE BvtTypeOK'
  <2>1. \/ log' \in {log, log \cup {}, log \cup {"expected text"}}
        \/ log' = log \cup Notice(main[Tested], main[Tested].setup[step[Tested]])
    BY <1>3 DEF Loaders, Writes
  <2>l. log' \subseteq {"expected text"} \cup Notices
    BY <2>1, NoticeType DEF BvtTypeOK
  <2>2. UNCHANGED <<suite, test, foreign, script, verdict, status, missed>> /\ Remember
    BY <1>3 DEF Loaders, plan
  <2> QED
    BY <1>1, <1>2, <2>l, <2>2 DEF BvtTypeOK
<1>4. CASE Look
  <2>1. script' \in {"wait", "term"} /\ script # "done"
    BY <1>4 DEF Look
  <2>2. UNCHANGED <<suite, test, foreign, log, verdict, status, missed, attached, broke, killed>>
    BY <1>4 DEF Look, plan, inTest
  <2> QED
    BY <1>1, <2>1, <2>2 DEF BvtTypeOK
<1>5. ASSUME Term \/ KillNow PROVE BvtTypeOK'
  <2>1. /\ script' \in {"kill", "wait"} /\ script # "done" /\ Remember
        /\ UNCHANGED <<suite, test, foreign, log, verdict, status, missed>>
    BY <1>5 DEF Term, KillNow, plan
  <2> QED
    BY <1>1, <1>2, <2>1 DEF BvtTypeOK
<1>6. CASE Judge
  <2>1. /\ script' = "done" /\ verdict' \in {"PASS", "FAIL", "Skip"}
        /\ status' \in {1, status} /\ missed' \in {missed, missed \cup {test}}
        /\ UNCHANGED <<suite, test, foreign, log, attached, broke, killed>>
    BY <1>6 DEF Judge, VerdictOf, Missed, plan, inTest
  <2> QED
    BY <1>1, <2>1 DEF BvtTypeOK
<1>7. CASE NextTest
  <2>1. test + 1 \in DOMAIN suite
    <3>1. suite \in Suites /\ test \in DOMAIN suite /\ test < Len(suite)
      BY <1>7 DEF NextTest, BvtTypeOK
    <3> QED
      BY <3>1, SuiteSequence
  <2>2. /\ test' = test + 1 /\ script' = "sleep" /\ log' = {} /\ verdict' = "none"
        /\ attached' = FALSE /\ broke' = "nothing" /\ killed' = FALSE
        /\ foreign' \in BOOLEAN /\ UNCHANGED <<suite, status, missed>>
    BY <1>7 DEF NextTest, Foreign
  <2> QED
    BY <1>1, <2>1, <2>2 DEF BvtTypeOK
<1>8. CASE UNCHANGED bvtVars
  BY <1>1, <1>8 DEF BvtTypeOK, bvtVars, testVars, plan, inTest
<1> QED
  BY <1>3, <1>4, <1>5, <1>6, <1>7, <1>8 DEF BvtNext, Script

(* The state of the script is well typed, and there is a verdict exactly   *)
(* when run_test has returned.                                             *)
THEOREM BvtTypeCorrect == BvtSpec => []BvtTypeOK
BY BvtTypeInit, BvtTypeStep, PTL DEF BvtSpec

(* The script, which starts loaders, signals and kills them at moments of  *)
(* its own, and waits for them, does nothing to a loader that could not    *)
(* happen to it without the script: what is proved of the loaders holds in *)
(* a test.                                                                 *)
THEOREM TestRunsLoaders == BvtSpec => Spec
<1>1. BvtInit => Init
  BY DEF BvtInit
<1> QED
  BY <1>1, BvtTypeInit, BvtTypeStep, BvtStepIsLoaderStep, PTL DEF BvtSpec, Spec
-----------------------------------------------------------------------------
(* The loaders one by one.                                                 *)

\* No step changes what a process runs.
LEMMA MainStays == [Next]_vars => main' = main
BY DEF Next, Step, Signal, Kill, Acquire, AcquireFails, Check, Wait, Poll, PollInterrupted,
       PollFails, Release, Finish, vars

(* What a step of any loader does to p.                                    *)
Progress(p) ==
    \/ pc'[p] = pc[p] /\ failed'[p] = failed[p]
    \/ pc[p] = "setup" /\ pc'[p] = "check" /\ ~failed'[p]
    \/ pc[p] = "setup" /\ pc'[p] = "teardown" /\ failed'[p]
    \/ /\ pc[p] = "setup" /\ pc'[p] = "exited"
       /\ failed'[p] \/ code'[p] # 1
    \/ pc[p] # "setup" /\ pc'[p] # "setup" /\ pc[p] # "exited"

LEMMA StepProgress == 
    ASSUME TypeOK, FailInv, [Next]_vars, NEW t \in Processes PROVE Progress(t)
<1> USE DEF FailInv, TypeOK, Progress
<1>1. ASSUME NEW p \in Processes, Acquire(p) PROVE Progress(t)
  <2>1. pc[p] = "setup" /\ UNCHANGED failed
    BY <1>1 DEF Acquire
  <2>2. pc' \in {pc, [pc EXCEPT ![p] = "check"]}
    BY <1>1 DEF Acquire, GoTo
  <2> QED
    BY <2>1, <2>2
<1>2. ASSUME NEW p \in Processes, AcquireFails(p) PROVE Progress(t)
  <2>1. pc[p] = "setup" /\ failed' = [failed EXCEPT ![p] = TRUE]
    BY <1>2 DEF AcquireFails
  <2>2. CASE step[p] <= main[p].bare
    <3>1. Ends(p, 1)
      BY <1>2, <2>2 DEF AcquireFails
    <3>2. pc' = [pc EXCEPT ![p] = "exited"]
      BY <3>1, EndsSo
    <3>3. CASE p = t
      <4>1. pc'[t] = "exited" /\ failed'[t] /\ pc[t] = "setup"
        <5>1. failed'[p] = TRUE
          BY <2>1
        <5>2. pc'[p] = "exited"
          BY <3>2
        <5> QED
          BY <2>1, <3>3, <5>1, <5>2
      <4> QED
        BY <4>1
    <3>4. CASE p # t
      <4>1. pc'[t] = pc[t] /\ failed'[t] = failed[t]
        BY <2>1, <3>4, <3>2
      <4> QED
        BY <4>1
    <3> QED
      BY <3>3, <3>4
  <2>3. CASE ~(step[p] <= main[p].bare)
    <3>1. GoTo(p, "teardown")
      BY <1>2, <2>3 DEF AcquireFails
    <3>2. pc' = [pc EXCEPT ![p] = "teardown"]
      BY <3>1 DEF GoTo
    <3>3. CASE p = t
      <4>1. pc'[t] = "teardown" /\ failed'[t] /\ pc[t] = "setup"
        BY <2>1, <3>2, <3>3
      <4> QED
        BY <4>1
    <3>4. CASE p # t
      <4>1. pc'[t] = pc[t] /\ failed'[t] = failed[t]
        BY <2>1, <3>2, <3>4
      <4> QED
        BY <4>1
    <3> QED
      BY <3>3, <3>4
  <2> QED
    BY <2>2, <2>3
<1>3. ASSUME NEW p \in Processes,
             Check(p) \/ Wait(p) \/ Poll(p) \/ PollInterrupted(p) \/ PollFails(p)
      PROVE Progress(t)
  <2>1. /\ pc[p] \in {"check", "wait"}
        /\ \E label \in {"check", "wait", "teardown"} : GoTo(p, label)
        /\ failed' \in {failed, [failed EXCEPT ![p] = TRUE]}
    BY <1>3 DEF Check, Wait, Poll, PollInterrupted, PollFails
  <2> QED
    BY <2>1 DEF GoTo
<1>4. ASSUME NEW p \in Processes, Release(p) \/ Signal(p) PROVE Progress(t)
  BY <1>4 DEF Release, Signal
<1>5. ASSUME NEW p \in Processes, Finish(p) PROVE Progress(t)
  <2>1. pc[p] = "teardown" /\ failed' = failed /\ \E c \in {0, 1} : Ends(p, c)
    BY <1>5 DEF Finish
  <2> QED
    BY <2>1, EndsSo
<1>6. ASSUME NEW p \in Processes, Kill(p) PROVE Progress(t)
  <2>1. pc[p] # "exited" /\ failed' = failed /\ \E c \in {130, 137, 143} : Ends(p, c)
    BY <1>6 DEF Kill
  <2> QED
    BY <2>1, EndsSo
<1>7. CASE UNCHANGED vars
  BY <1>7 DEF vars
<1> QED
  BY <1>1, <1>2, <1>3, <1>4, <1>5, <1>6, <1>7 DEF Next, Step
-----------------------------------------------------------------------------
(* One test after the other.                                               *)

(* The loaders of the tests before have ended, that of this test has when  *)
(* there is a verdict, and those of the tests to come are yet to start.    *)
OrderInv ==
    /\ verdict # "none" => pc[Tested] = "exited"
    /\ \A i \in DOMAIN suite : i < test => pc[suite[i]] = "exited"
    /\ \A i \in DOMAIN suite : i > test => pc[suite[i]] = "setup"

LEMMA OrderInit == BvtInit => OrderInv
<1> SUFFICES ASSUME BvtInit PROVE OrderInv
  OBVIOUS
<1>1. \A i \in DOMAIN suite : i \in Nat \ {0} /\ suite[i] \in Processes
  BY SuiteSequence DEF BvtInit
<1> QED
  BY <1>1 DEF BvtInit, Init, OrderInv

LEMMA OrderStep == BvtTypeOK /\ FailInv /\ OrderInv /\ [BvtNext]_bvtVars => OrderInv'
<1> SUFFICES ASSUME BvtTypeOK, FailInv, OrderInv, [BvtNext]_bvtVars PROVE OrderInv'
  OBVIOUS
<1>t. Tested \in Processes /\ suite \in Suites /\ test \in DOMAIN suite /\ TypeOK
  BY TestedIsLoader DEF BvtTypeOK
<1>i. /\ DOMAIN suite = 1..Len(suite) /\ Len(suite) \in Nat
      /\ \A i \in DOMAIN suite : suite[i] \in Processes
  BY <1>t, SuiteSequence
<1>1. \A p \in Processes : pc[p] = "exited" => pc'[p] = "exited"
  BY <1>t, BvtStepIsLoaderStep, StepProgress DEF Progress
<1>2. ASSUME NEW p \in Processes, ~Waiting(p), Step(p) \/ Signal(p) \/ Kill(p),
             UNCHANGED <<suite, test, verdict>>
      PROVE OrderInv'
  <2>1. \A i \in DOMAIN suite : i > test => suite[i] # p
    BY <1>2 DEF Waiting
  <2>2. \A i \in DOMAIN suite : i > test => pc'[suite[i]] = pc[suite[i]]
    BY <1>2, <2>1, <1>i, <1>t, OthersKeep
  <2> QED
    BY <1>1, <1>2, <2>2, <1>t, <1>i DEF OrderInv, Tested
<1>3. ASSUME UNCHANGED <<vars, suite, test>>, verdict' # "none" => Gone PROVE OrderInv'
  BY <1>3 DEF OrderInv, Tested, Gone, vars
<1>4. ASSUME NEW p \in Processes, Loaders(p) PROVE OrderInv'
  BY <1>2, <1>4 DEF Loaders, plan
<1>5. CASE Look \/ Judge
  BY <1>3, <1>5 DEF Look, Judge, OrderInv, Gone, plan
<1>6. ASSUME Term \/ KillNow PROVE OrderInv'
  <2>1. UNCHANGED <<suite, test, verdict>>
    BY <1>6 DEF Term, KillNow, plan
  <2>2. Kill(Tested) \/ Signal(Tested) \/ UNCHANGED vars
    BY <1>6 DEF Term, KillNow
  <2>3. ~Waiting(Tested)
    BY <1>t, BvtAssumption DEF Waiting, Tested
  <2>4. CASE UNCHANGED vars
    BY <1>3, <2>1, <2>4 DEF OrderInv, Gone
  <2> QED
    BY <1>2, <1>t, <2>1, <2>2, <2>3, <2>4
<1>7. CASE NextTest
  <2>1. /\ verdict' = "none" /\ test' = test + 1 /\ UNCHANGED <<suite, pc>>
        /\ pc[Tested] = "exited"
    BY <1>7 DEF NextTest, vars, OrderInv, BvtTypeOK
  <2>2. \A i \in DOMAIN suite : i < test + 1 => i < test \/ i = test
    BY <1>t, <1>i
  <2>3. \A i \in DOMAIN suite : i > test + 1 => i > test
    BY <1>t, <1>i
  <2> QED
    BY <2>1, <2>2, <2>3 DEF OrderInv, Tested
<1>8. CASE UNCHANGED bvtVars
  BY <1>3, <1>8 DEF bvtVars, testVars, plan, OrderInv, Gone
<1> QED
  BY <1>4, <1>5, <1>6, <1>7, <1>8 DEF BvtNext, Script
-----------------------------------------------------------------------------
(* The verdict.                                                            *)

(* What the log tells of the setup, and the verdict of the log.            *)
LogInv ==
    /\ pc[Tested] = "setup" => broke = "nothing"
    /\ pc[Tested] # "setup" => "expected text" \in log \/ broke # "nothing" \/ killed \/ foreign
    /\ "expected text" \in log => attached
    /\ attached => pc[Tested] # "setup" /\ broke = "nothing"
    /\ log \cap Notices # {} => Excused
    /\ verdict = "PASS" => "expected text" \in log
    /\ verdict = "FAIL" => "expected text" \notin log
    /\ verdict = "Skip" => log \cap Notices # {}

LEMMA LogStep ==
    ASSUME \A m \in Mains : Attaches(m)
    PROVE  BvtTypeOK /\ FailInv /\ HeldInv /\ OrderInv /\ LogInv /\ [BvtNext]_bvtVars => LogInv'
<1> SUFFICES ASSUME BvtTypeOK, FailInv, HeldInv, OrderInv, LogInv, [BvtNext]_bvtVars PROVE LogInv'
  OBVIOUS
<1>t. Tested \in Processes /\ TypeOK
  BY TestedIsLoader DEF BvtTypeOK
<1>1. Progress(Tested) /\ TypeOK' /\ FailInv' /\ HeldInv' /\ main' = main
  BY <1>t, BvtStepIsLoaderStep, StepProgress, MainStays, TypeStep, FailStep, HeldStep
<1>2. pc'[Tested] = "check" => held'[Tested] \cap Attachments # {}
  <2> SUFFICES ASSUME pc'[Tested] = "check" PROVE held'[Tested] \cap Attachments # {}
    OBVIOUS
  <2>1. Attaches(main'[Tested])
    BY <1>1, <1>t DEF TypeOK
  <2>2. PICK i \in DOMAIN main'[Tested].setup : main'[Tested].setup[i] \in Attachments
    BY <2>1 DEF Attaches
  <2>3. main'[Tested].setup[i] \in held'[Tested]
    BY <1>1, <1>t, <2>2 DEF HeldInv
  <2> QED
    BY <2>2, <2>3
<1>3. ASSUME Remember, UNCHANGED <<suite, test, foreign, verdict>>,
             Writes(log, log') \/ (UNCHANGED log /\ (pc'[Tested] # "setup" => pc[Tested] # "setup" \/ killed'))
      PROVE LogInv'
  <2> DEFINE call    == main[Tested].setup[step[Tested]]
             fails   == pc[Tested] = "setup" /\ failed'[Tested]
             readies == pc[Tested] = "setup" /\ pc'[Tested] = "check"
  <2>t. Tested' = Tested
    BY <1>3 DEF Tested
  <2>c. pc[Tested] = "setup" => call # "nothing"
    BY <1>t, NextCall DEF Resources, Attachments, OnInterface
  <2>v. verdict # "none" => pc[Tested] = "exited"
    BY DEF OrderInv
  <2>1. /\ attached' = (attached \/ readies)
        /\ broke' = IF fails THEN call ELSE broke
        /\ killed => killed'
        /\ pc[Tested] = "setup" /\ pc'[Tested] = "exited" /\ code'[Tested] # 1 => killed'
    BY <1>2, <1>3 DEF Remember, BvtTypeOK
  <2>2. fails => ~readies
    BY <1>t, <1>1 DEF Progress, FailInv
  <2>3. /\ log \subseteq log'
        /\ "expected text" \in log' => "expected text" \in log \/ readies
        /\ readies => "expected text" \in log' \/ killed' \/ foreign
        /\ log' \cap Notices # {} => log \cap Notices # {} \/ (fails /\ Notice(main[Tested], call) # {})
    <3>1. CASE log' = log /\ (pc'[Tested] # "setup" => pc[Tested] # "setup" \/ killed')
      BY <3>1
    <3>2. CASE Writes(log, log')
      <4>1. CASE readies
        <5>1. log' = log \cup IF foreign THEN {} ELSE {"expected text"}
          BY <3>2, <4>1 DEF Writes
        <5> QED
          BY <4>1, <5>1 DEF Notices
      <4>2. CASE ~readies /\ fails
        <5>1. log' = log \/ log' = log \cup Notice(main[Tested], call)
          BY <3>2, <4>2 DEF Writes
        <5>2. "expected text" \notin Notice(main[Tested], call)
          <6>1. Notice(main[Tested], call) \subseteq Notices
            BY NoticeType
          <6>2. "expected text" \notin Notices
            BY DEF Notices
          <6> QED
            BY <6>1, <6>2
        <5> QED
          BY <4>2, <5>1, <5>2
      <4>3. CASE ~readies /\ ~fails
        <5>1. log' = log
          BY <3>2, <4>3 DEF Writes
        <5> QED
          BY <4>3, <5>1
      <4> QED
        BY <4>1, <4>2, <4>3
    <3> QED
      BY <1>3, <3>1, <3>2
  <2>4. log' \cap Notices # {} => Excused'
    <3> SUFFICES ASSUME log' \cap Notices # {} PROVE Notice(main[Tested], broke') # {}
      BY <1>1, <2>t DEF Excused
    <3>1. CASE fails /\ Notice(main[Tested], call) # {}
      BY <2>1, <3>1
    <3>2. CASE log \cap Notices # {}
      <4>1. Excused
        BY <3>2 DEF LogInv
      <4>2. broke # "nothing"
        BY <4>1, NoNotice DEF Excused
      <4>3. broke' = broke
        BY <2>1, <4>2 DEF LogInv
      <4> QED
        BY <4>1, <4>3 DEF Excused
    <3> QED
      BY <2>3, <3>1, <3>2
  <2>5. /\ "expected text" \in log' => attached'
        /\ pc'[Tested] = "setup" => pc[Tested] = "setup" /\ broke' = "nothing" /\ ~attached'
        /\ attached' => broke' = "nothing"
        /\ pc'[Tested] # "setup" =>
              "expected text" \in log' \/ broke' # "nothing" \/ killed' \/ foreign
    <3>0. /\ pc[Tested] = "setup" => ~failed[Tested] /\ broke = "nothing" /\ ~attached
          /\ "expected text" \in log => attached
          /\ attached => broke = "nothing"
          /\ pc[Tested] # "setup" =>
                "expected text" \in log \/ broke # "nothing" \/ killed \/ foreign
      BY <1>t DEF LogInv, FailInv
    <3> HIDE DEF call
    <3>1. CASE pc[Tested] # "setup"
      <4>1. broke' = broke /\ pc'[Tested] # "setup"
        BY <1>1, <2>1, <3>1 DEF Progress
      <4>2. attached' <=> attached
        BY <2>1, <3>1
      <4> QED
        BY <2>1, <2>3, <3>0, <3>1, <4>1, <4>2
    <3>2. CASE fails
      BY <1>1, <2>1, <2>2, <2>3, <2>c, <3>0, <3>2 DEF Progress
    <3>3. CASE pc[Tested] = "setup" /\ ~fails
      BY <1>1, <2>1, <2>2, <2>3, <3>0, <3>3 DEF Progress
    <3> QED
      BY <3>1, <3>2, <3>3
  <2> QED
    <3>1. verdict' = verdict /\ (verdict # "none" => pc'[Tested] = "exited" /\ log' = log)
      <4>1. verdict # "none" => pc[Tested] = "exited"
        BY <2>v
      <4>2. pc[Tested] = "exited" => ~readies /\ ~fails /\ pc'[Tested] = "exited"
        BY <1>1 DEF Progress
      <4>3. ~readies /\ ~fails => log' = log
        BY <1>3 DEF Writes
      <4> QED
        BY <1>3, <4>1, <4>2, <4>3
    <3> QED
      BY <1>3, <2>t, <2>4, <2>5, <3>1 DEF LogInv
<1>4. ASSUME NEW p \in Processes, Loaders(p) PROVE LogInv'
  BY <1>3, <1>4 DEF Loaders, plan
<1>5. CASE Look
  <2>1. UNCHANGED <<suite, test, foreign, main, pc, log, verdict, attached, broke, killed>>
    BY <1>5 DEF Look, vars, plan, inTest
  <2> QED
    BY <2>1 DEF LogInv, Tested, Excused
<1>6. ASSUME Term \/ KillNow PROVE LogInv'
  <2>1. Remember /\ UNCHANGED <<suite, test, foreign, log, verdict>>
    BY <1>6 DEF Term, KillNow, plan
  <2>2. \/ Kill(Tested) /\ code'[Tested] # 1
        \/ Signal(Tested)
        \/ UNCHANGED vars
    BY <1>6 DEF Term, KillNow
  <2>3. pc'[Tested] # "setup" => pc[Tested] # "setup" \/ killed'
    <3>1. CASE Kill(Tested) /\ code'[Tested] # 1
      <4>1. pc'[Tested] = "exited"
        <5>1. \E c \in {130, 137, 143} : Ends(Tested, c)
          BY <3>1 DEF Kill
        <5>2. pc' = [pc EXCEPT ![Tested] = "exited"]
          BY <1>t, <5>1, EndsSo
        <5> QED
          BY <1>t, <5>2 DEF TypeOK
      <4> QED
        BY <2>1, <3>1, <4>1 DEF Remember
    <3>2. CASE Signal(Tested) \/ UNCHANGED vars
      BY <3>2 DEF Signal, vars
    <3> QED
      BY <2>2, <3>1, <3>2
  <2> QED
    BY <1>3, <2>1, <2>3
<1>7. CASE Judge
  <2>1. /\ UNCHANGED <<suite, test, foreign, main, pc, log, attached, broke, killed>>
        /\ verdict' = VerdictOf(log, code[Tested])
    BY <1>7 DEF Judge, vars, plan, inTest
  <2> QED
    BY <2>1 DEF LogInv, VerdictOf, Tested, Excused
<1>8. CASE NextTest
  <2>1. /\ test + 1 \in DOMAIN suite /\ test + 1 > test
        /\ test' = test + 1 /\ log' = {} /\ verdict' = "none" /\ broke' = "nothing"
        /\ attached' = FALSE /\ UNCHANGED <<suite, pc>>
    <3>1. suite \in Suites /\ test \in DOMAIN suite /\ test < Len(suite)
      BY <1>8 DEF NextTest, BvtTypeOK
    <3>2. /\ test' = test + 1 /\ log' = {} /\ verdict' = "none" /\ broke' = "nothing"
          /\ attached' = FALSE /\ UNCHANGED <<suite, pc>>
      BY <1>8 DEF NextTest, vars
    <3> QED
      BY <3>1, <3>2, SuiteSequence
  <2>2. Tested' = suite[test + 1]
    BY <2>1 DEF Tested
  <2>3. pc'[Tested'] = "setup"
    BY <2>1, <2>2 DEF OrderInv
  <2> QED
    BY <2>1, <2>3 DEF LogInv
<1>9. CASE UNCHANGED bvtVars
  BY <1>9 DEF LogInv, Tested, Excused, bvtVars, testVars, plan, inTest, vars
<1> QED
  BY <1>4, <1>5, <1>6, <1>7, <1>8, <1>9 DEF BvtNext, Script

LEMMA LogInit == BvtInit => LogInv
BY BvtTypeInit, TestedIsLoader DEF BvtInit, Init, LogInv

(* All that the verdict rests on.                                          *)
VerdictInv == BvtTypeOK /\ FailInv /\ HeldInv /\ OrderInv /\ LogInv

LEMMA VerdictInvariant ==
    ASSUME \A m \in Mains : Attaches(m)
    PROVE  /\ BvtInit => VerdictInv
           /\ VerdictInv /\ [BvtNext]_bvtVars => VerdictInv'
<1>1. BvtInit => VerdictInv
  BY BvtTypeInit, FailInit, HeldInit, OrderInit, LogInit DEF BvtInit, VerdictInv
<1>2. ASSUME VerdictInv, [BvtNext]_bvtVars PROVE VerdictInv'
  <2>1. TypeOK /\ [Next]_vars
    BY <1>2, BvtStepIsLoaderStep DEF VerdictInv, BvtTypeOK
  <2> QED
    BY <1>2, <2>1, BvtTypeStep, FailStep, HeldStep, OrderStep, LogStep DEF VerdictInv
<1> QED
  BY <1>1, <1>2

(* A test passes only if the loader has told that its setup is complete,   *)
(* and then its program was attached, whatever was signalled when: for     *)
(* every main() that attaches a program itself.                            *)
THEOREM VerdictCorrect ==
    ASSUME \A m \in Mains : Attaches(m)
    PROVE  BvtSpec => []PassMeansAttached
<1>1. VerdictInv => PassMeansAttached
  BY DEF VerdictInv, LogInv, PassMeansAttached
<1> QED
  BY <1>1, VerdictInvariant, PTL DEF BvtSpec

(* A test fails only because a call of the setup failed, the loader was    *)
(* killed before it was ready, or the text is another program's; and it is *)
(* skipped only with nothing attached, because the call to attach to the   *)
(* network namespace or to open the perf event failed.                     *)
THEOREM CauseCorrect ==
    ASSUME \A m \in Mains : Attaches(m)
    PROVE  BvtSpec => []FailHasCause
<1>1. ASSUME VerdictInv PROVE FailHasCause
  <2>1. verdict = "FAIL" => broke # "nothing" \/ killed \/ foreign
    BY <1>1 DEF VerdictInv, OrderInv, LogInv
  <2>2. ASSUME verdict = "Skip" PROVE Excused /\ ~attached
    <3>1. Excused
      BY <1>1, <2>2 DEF VerdictInv, LogInv
    <3>2. broke # "nothing"
      BY <3>1, NoNotice DEF Excused
    <3> QED
      BY <1>1, <3>1, <3>2 DEF VerdictInv, LogInv
  <2> QED
    BY <2>1, <2>2 DEF FailHasCause
<1> QED
  BY <1>1, VerdictInvariant, PTL DEF BvtSpec

(* The script's status 0 says that each of any number of tests has seen    *)
(* its program attached, or that the call to attach it to the network      *)
(* namespace, or to open its perf event, failed: no other failure is taken *)
(* for a reason to skip, and no later test covers one.                     *)
THEOREM StatusCorrect ==
    ASSUME \A m \in Mains : Attaches(m)
    PROVE  BvtSpec => []ZeroMeansAttached
<1>1. BvtInit => ZeroMeansAttached
  BY DEF BvtInit, ZeroMeansAttached
<1>2. ASSUME VerdictInv, ZeroMeansAttached, [BvtNext]_bvtVars PROVE ZeroMeansAttached'
  <2>1. CASE Judge
    <3> SUFFICES ASSUME status' = 0 PROVE missed' = {}
      BY DEF ZeroMeansAttached
    <3>1. status = 0 /\ verdict' # "FAIL" /\ verdict' = VerdictOf(log, code[Tested])
      BY <2>1 DEF Judge
    <3>2. missed = {}
      BY <1>2, <3>1 DEF ZeroMeansAttached
    <3>3. missed' = missed \cup IF attached \/ Excused THEN {} ELSE {test}
      BY <2>1 DEF Judge, Missed
    <3>4. log \cap Notices # {} \/ "expected text" \in log
      BY <3>1 DEF VerdictOf
    <3>5. attached \/ Excused
      BY <1>2, <3>4 DEF VerdictInv, LogInv
    <3> QED
      BY <3>2, <3>3, <3>5
  <2>2. CASE ~Judge
    <3>1. UNCHANGED <<status, missed>>
      BY <1>2, <2>2 DEF BvtNext, Script, Look, Term, KillNow, NextTest, Loaders, bvtVars, testVars
    <3> QED
      BY <1>2, <3>1 DEF ZeroMeansAttached
  <2> QED
    BY <2>1, <2>2
<1> QED
  BY <1>1, <1>2, VerdictInvariant, PTL DEF BvtSpec
===============================================================================
