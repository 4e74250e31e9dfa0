---------------------------- MODULE Loader_proofs ----------------------------
(***************************************************************************)
(* Theorems about the loaders, for any number of instances and any main()  *)
(* whose profile is well formed; where the order of its calls matters, for *)
(* any Ordered one, as the mains of the repository are.                    *)
(***************************************************************************)
EXTENDS Loader, TLAPS

-----------------------------------------------------------------------------
(* Type correctness.                                                       *)

LEMMA MainsWellFormed ==
    ASSUME TypeOK, NEW p \in Processes PROVE main[p] \in Mains /\ WellFormed(main[p])
BY LoaderAssumption DEF TypeOK

LEMMA EndsType ==
    ASSUME TypeOK, NEW p \in Processes, NEW c \in {0, 1, 130, 137, 143}, Ends(p, c)
    PROVE  /\ pc' \in [Processes -> {"setup", "check", "wait", "teardown", "exited"}]
           /\ pc' = [pc EXCEPT ![p] = "exited"]
           /\ code' \in [Processes -> {0, 1, 130, 137, 143}]
           /\ held' \in [Processes -> SUBSET Resources]
           /\ slot' \in [Hooks -> Processes \cup {NoProcess}]
BY DEF TypeOK, Ends, Hooks

LEMMA EndsSo ==
    ASSUME NEW p \in Processes, NEW c \in {0, 1, 130, 137, 143}, Ends(p, c)
    PROVE  /\ pc' = [pc EXCEPT ![p] = "exited"]
           /\ code' = [code EXCEPT ![p] = c]
           /\ held' = [held EXCEPT ![p] = {}]
BY DEF Ends

(* The label a process goes to has a first call.                           *)
LEMMA GoToType ==
    ASSUME TypeOK, NEW p \in Processes, NEW label \in {"check", "wait", "teardown"},
           GoTo(p, label), main' = main
    PROVE  /\ pc' \in [Processes -> {"setup", "check", "wait", "teardown", "exited"}]
           /\ step' \in [Processes -> Nat \ {0}]
           /\ \A q \in Processes : /\ pc'[q] = "setup" => step'[q] \in DOMAIN main'[q].setup
                                   /\ pc'[q] = "teardown" => step'[q] \in DOMAIN main'[q].teardown
<1>1. WellFormed(main[p])
  BY MainsWellFormed
<1>2. 1 \in DOMAIN main[p].teardown
  BY <1>1 DEF WellFormed
<1> QED
  BY <1>2 DEF TypeOK, GoTo

LEMMA TypeInit == Init => TypeOK
<1> SUFFICES ASSUME Init PROVE TypeOK
  OBVIOUS
<1>1. main \in [Processes -> Mains]
  BY LoaderAssumption DEF Init
<1>2. ASSUME NEW p \in Processes PROVE 1 \in DOMAIN main[p].setup
  BY <1>1, LoaderAssumption DEF WellFormed
<1> QED
  BY <1>1, <1>2 DEF Init, TypeOK

LEMMA TypeStep == TypeOK /\ [Next]_vars => TypeOK'
<1> SUFFICES ASSUME TypeOK, [Next]_vars PROVE TypeOK'
  OBVIOUS
<1>wf. \A p \in Processes : WellFormed(main[p])
  BY MainsWellFormed
<1>1. ASSUME NEW p \in Processes, Acquire(p) PROVE TypeOK'
  <2>1. main[p].setup[step[p]] \in Resources
    <3>1. main[p].setup \in Seq(Resources)
      BY <1>wf DEF WellFormed
    <3>2. step[p] \in DOMAIN main[p].setup
      BY <1>1 DEF TypeOK, Acquire
    <3> QED
      BY <3>1, <3>2
  <2>2. /\ held' = [held EXCEPT ![p] = @ \cup {main[p].setup[step[p]]}]
        /\ \/ slot' = slot
           \/ slot' = [slot EXCEPT ![HookOf(main[p].setup[step[p]])] = p]
        /\ UNCHANGED <<main, stop, hit, err, code, failed>>
    BY <1>1 DEF Acquire
  <2>5. /\ held' \in [Processes -> SUBSET Resources]
        /\ slot' \in [Hooks -> Processes \cup {NoProcess}]
        /\ UNCHANGED <<main, stop, hit, err, code, failed>>
    BY <2>1, <2>2 DEF TypeOK
  <2>3. CASE step[p] = Len(main[p].setup)
    <3>1. GoTo(p, "check") /\ main' = main
      BY <1>1, <2>3 DEF Acquire
    <3> QED
      BY <3>1, <2>2, <2>5, GoToType DEF TypeOK
  <2>4. CASE step[p] # Len(main[p].setup)
    <3>1. step' = [step EXCEPT ![p] = @ + 1] /\ UNCHANGED pc /\ pc[p] = "setup"
      BY <1>1, <2>4 DEF Acquire
    <3>2. step[p] \in Nat \ {0} /\ step[p] + 1 \in DOMAIN main[p].setup
      BY <3>1, <2>4, <1>wf DEF TypeOK, WellFormed
    <3> QED
      BY <3>1, <3>2, <2>2, <2>5 DEF TypeOK
  <2> QED
    BY <2>3, <2>4
<1>2. ASSUME NEW p \in Processes, AcquireFails(p) PROVE TypeOK'
  <2>1. UNCHANGED <<main, stop, hit>> /\ failed' \in [Processes -> BOOLEAN]
    BY <1>2 DEF TypeOK, AcquireFails
  <2>2. CASE step[p] <= main[p].bare
    <3>1. Ends(p, 1) /\ UNCHANGED <<step, err>>
      BY <1>2, <2>2 DEF AcquireFails
    <3> QED
      BY <3>1, <2>1, EndsType DEF TypeOK
  <2>3. CASE ~(step[p] <= main[p].bare)
    <3>1. GoTo(p, "teardown") /\ main' = main /\ UNCHANGED <<code, slot>>
      BY <1>2, <2>3 DEF AcquireFails
    <3>2. err' \in [Processes -> {-1, 0, 1}] /\ held' \in [Processes -> SUBSET Resources]
      BY <1>2, <2>3 DEF AcquireFails, TypeOK, Resources, Attachments
    <3> QED
      BY <3>1, <3>2, <2>1, GoToType DEF TypeOK
  <2> QED
    BY <2>2, <2>3
<1>3. ASSUME NEW p \in Processes,
             Check(p) \/ Wait(p) \/ Poll(p) \/ PollInterrupted(p) \/ PollFails(p)
      PROVE TypeOK'
  <2>1. PICK label \in {"check", "wait", "teardown"} : GoTo(p, label)
    BY <1>3 DEF Check, Wait, Poll, PollInterrupted, PollFails
  <2>2. UNCHANGED <<main, held, stop, code, slot>>
    BY <1>3 DEF Check, Wait, Poll, PollInterrupted, PollFails
  <2>3. hit' \in [Processes -> BOOLEAN]
    BY <1>3 DEF TypeOK, Check, Wait, Poll, PollInterrupted, PollFails
  <2>4. err' \in [Processes -> {-1, 0, 1}]
    BY <1>3 DEF TypeOK, Check, Wait, Poll, PollInterrupted, PollFails
  <2>5. failed' \in [Processes -> BOOLEAN]
    BY <1>3 DEF TypeOK, Check, Wait, Poll, PollInterrupted, PollFails
  <2> QED
    BY <2>1, <2>2, <2>3, <2>4, <2>5, GoToType DEF TypeOK
<1>4. ASSUME NEW p \in Processes, Release(p) PROVE TypeOK'
  <2>1. step[p] + 1 \in DOMAIN main[p].teardown /\ step[p] + 1 \in Nat \ {0}
    BY <1>4, <1>wf DEF TypeOK, Release, WellFormed
  <2>2. slot' \in [Hooks -> Processes \cup {NoProcess}]
    BY <1>4 DEF TypeOK, Release
  <2>3. /\ held' \in [Processes -> SUBSET Resources]
        /\ step' = [step EXCEPT ![p] = @ + 1]
        /\ UNCHANGED <<main, pc, stop, hit, err, code, failed>>
    BY <1>4 DEF TypeOK, Release
  <2>4. ASSUME NEW q \in Processes
        PROVE  /\ pc'[q] = "setup" => step'[q] \in DOMAIN main'[q].setup
               /\ pc'[q] = "teardown" => step'[q] \in DOMAIN main'[q].teardown
    <3>1. pc[p] = "teardown" /\ step'[p] = step[p] + 1 /\ (q # p => step'[q] = step[q])
      BY <1>4, <2>3 DEF TypeOK, Release
    <3> QED
      BY <2>1, <2>3, <3>1 DEF TypeOK
  <2>5. step' \in [Processes -> Nat \ {0}]
    BY <2>1, <2>3 DEF TypeOK
  <2> QED
    BY <2>2, <2>3, <2>4, <2>5 DEF TypeOK
<1>5. ASSUME NEW p \in Processes, Finish(p) PROVE TypeOK'
  <2>1. PICK c \in {0, 1} : Ends(p, c)
    BY <1>5 DEF Finish
  <2>2. UNCHANGED <<main, step, stop, hit, err, failed>>
    BY <1>5 DEF Finish
  <2>3. /\ pc' \in [Processes -> {"setup", "check", "wait", "teardown", "exited"}]
        /\ pc' = [pc EXCEPT ![p] = "exited"]
        /\ code' \in [Processes -> {0, 1, 130, 137, 143}]
        /\ held' \in [Processes -> SUBSET Resources]
        /\ slot' \in [Hooks -> Processes \cup {NoProcess}]
    BY <2>1, EndsType
  <2>4. ASSUME NEW q \in Processes
        PROVE  /\ pc'[q] = "setup" => step'[q] \in DOMAIN main'[q].setup
               /\ pc'[q] = "teardown" => step'[q] \in DOMAIN main'[q].teardown
    <3>1. pc'[q] \in {"setup", "teardown"} => pc'[q] = pc[q]
      BY <2>3 DEF TypeOK
    <3> QED
      BY <2>2, <3>1 DEF TypeOK
  <2> QED
    BY <2>2, <2>3, <2>4 DEF TypeOK
<1>6. ASSUME NEW p \in Processes, Signal(p) PROVE TypeOK'
  BY <1>6 DEF TypeOK, Signal
<1>7. ASSUME NEW p \in Processes, Kill(p) PROVE TypeOK'
  <2>1. PICK c \in {130, 137, 143} : Ends(p, c)
    BY <1>7 DEF Kill
  <2> QED
    BY <1>7, <2>1, EndsType DEF TypeOK, Kill
<1>8. CASE UNCHANGED vars
  BY <1>8 DEF TypeOK, vars
<1> QED
  BY <1>1, <1>2, <1>3, <1>4, <1>5, <1>6, <1>7, <1>8 DEF Next, Step

(* The state of every loader stays well typed, and a process in its setup  *)
(* or its cleanup always has a next call: both lists end where main() does.*)
THEOREM TypeCorrect == Spec => []TypeOK
BY TypeInit, TypeStep, PTL DEF Spec
-----------------------------------------------------------------------------
(* Failures.                                                               *)

(* What FailureReported needs: a failure is remembered in err until the    *)
(* cleanup has turned it into the status.                                  *)
FailInv == \A p \in Processes :
              /\ pc[p] \in {"setup", "check", "wait"} => ~failed[p]
              /\ pc[p] = "teardown" /\ failed[p] => err[p] # 0
              /\ pc[p] = "exited" /\ failed[p] => code[p] # 0

LEMMA FailStep == TypeOK /\ FailInv /\ [Next]_vars => FailInv'
<1> SUFFICES ASSUME TypeOK, FailInv, [Next]_vars PROVE FailInv'
  OBVIOUS
<1> USE DEF FailInv, TypeOK
<1>1. ASSUME NEW p \in Processes, Acquire(p) PROVE FailInv'
  <2>1. pc[p] = "setup" /\ UNCHANGED <<failed, err, code>>
    BY <1>1 DEF Acquire
  <2>2. pc' \in {pc, [pc EXCEPT ![p] = "check"]}
    BY <1>1 DEF Acquire, GoTo
  <2> QED
    BY <2>1, <2>2
<1>2. ASSUME NEW p \in Processes, AcquireFails(p) PROVE FailInv'
  <2>1. failed' = [failed EXCEPT ![p] = TRUE]
    BY <1>2 DEF AcquireFails
  <2>2. CASE step[p] <= main[p].bare
    <3>1. Ends(p, 1) /\ err' = err
      BY <1>2, <2>2 DEF AcquireFails
    <3> QED
      BY <2>1, <3>1, EndsSo
  <2>3. CASE ~(step[p] <= main[p].bare)
    <3>1. GoTo(p, "teardown") /\ err' = [err EXCEPT ![p] = -1] /\ code' = code
      BY <1>2, <2>3 DEF AcquireFails
    <3> QED
      BY <2>1, <3>1 DEF GoTo
  <2> QED
    BY <2>2, <2>3
<1>3. ASSUME NEW p \in Processes, Check(p) \/ Wait(p) \/ Poll(p) PROVE FailInv'
  BY <1>3 DEF Check, Wait, Poll, GoTo
<1>4. ASSUME NEW p \in Processes, PollInterrupted(p) \/ PollFails(p) PROVE FailInv'
  BY <1>4 DEF PollInterrupted, PollFails, GoTo
<1>5. ASSUME NEW p \in Processes, Release(p) \/ Signal(p) PROVE FailInv'
  BY <1>5 DEF Release, Signal
<1>6. ASSUME NEW p \in Processes, Finish(p) PROVE FailInv'
  <2>1. /\ pc[p] = "teardown" /\ UNCHANGED <<err, failed>>
        /\ Ends(p, IF err[p] # 0 THEN 1 ELSE 0)
    BY <1>6 DEF Finish
  <2> QED
    BY <2>1, EndsSo
<1>7. ASSUME NEW p \in Processes, Kill(p) PROVE FailInv'
  <2>1. UNCHANGED <<err, failed>> /\ \E c \in {130, 137, 143} : Ends(p, c)
    BY <1>7 DEF Kill
  <2> QED
    BY <2>1, EndsSo
<1>8. CASE UNCHANGED vars
  BY <1>8 DEF vars
<1> QED
  BY <1>1, <1>2, <1>3, <1>4, <1>5, <1>6, <1>7, <1>8 DEF Next, Step

LEMMA FailInit == Init => FailInv
BY DEF Init, FailInv

(* A loader that met a failure ends with a status other than 0, whichever  *)
(* of the two error paths it took and whatever came after.                 *)
THEOREM FailureCorrect == Spec => []FailureReported
<1>1. FailInv => FailureReported
  BY DEF FailInv, FailureReported
<1> QED
  BY <1>1, FailInit, FailStep, TypeInit, TypeStep, PTL DEF Spec
-----------------------------------------------------------------------------
(* Cleanup.                                                                *)

(* A process holds only what its setup names; in its setup everything that *)
(* has had its turn; and in its cleanup nothing that has.                  *)
HeldInv ==
    \A p \in Processes :
        /\ \A r \in held[p] : \E i \in DOMAIN main[p].setup : main[p].setup[i] = r
        /\ pc[p] = "setup" =>
              /\ \A i \in 1..step[p] - 1 : main[p].setup[i] \in held[p]
              /\ \A r \in held[p] : \E i \in 1..step[p] - 1 : main[p].setup[i] = r
        /\ pc[p] \in {"check", "wait"} => \A i \in DOMAIN main[p].setup : main[p].setup[i] \in held[p]
        /\ pc[p] = "teardown" =>
              \A j \in 1..step[p] - 1 : held[p] \cap With(main[p], main[p].teardown[j]) = {}

LEMMA HeldStep == TypeOK /\ HeldInv /\ [Next]_vars => HeldInv'
<1> SUFFICES ASSUME TypeOK, HeldInv, [Next]_vars PROVE HeldInv'
  OBVIOUS
<1>wf. \A p \in Processes : WellFormed(main[p])
  BY MainsWellFormed
<1> USE DEF HeldInv, TypeOK
<1>1. ASSUME NEW p \in Processes, Acquire(p) PROVE HeldInv'
  <2>1. /\ pc[p] = "setup" /\ main' = main
        /\ held' = [held EXCEPT ![p] = @ \cup {main[p].setup[step[p]]}]
    BY <1>1 DEF Acquire
  <2>2. step[p] \in DOMAIN main[p].setup /\ DOMAIN main[p].setup = 1..Len(main[p].setup)
    BY <2>1, <1>wf DEF WellFormed
  <2>3. CASE step[p] = Len(main[p].setup)
    <3>1. GoTo(p, "check")
      BY <1>1, <2>3 DEF Acquire
    <3>2. pc' = [pc EXCEPT ![p] = "check"] /\ step' = [step EXCEPT ![p] = 1]
      BY <3>1 DEF GoTo
    <3>3. \A i \in DOMAIN main[p].setup : i \in 1..step[p] - 1 \/ i = step[p]
      BY <2>2, <2>3
    <3>4. pc'[p] = "check" /\ held'[p] = held[p] \cup {main[p].setup[step[p]]}
      BY <2>1, <3>2
    <3>5. \A i \in DOMAIN main[p].setup : main[p].setup[i] \in held'[p]
      BY <2>1, <3>3, <3>4
    <3>6. \A r \in held'[p] : \E i \in DOMAIN main[p].setup : main[p].setup[i] = r
      BY <2>2, <3>4
    <3>7. ASSUME NEW q \in Processes, q # p
          PROVE pc'[q] = pc[q] /\ held'[q] = held[q] /\ step'[q] = step[q]
      BY <2>1, <3>2, <3>7
    <3> QED
      BY <2>1, <3>4, <3>5, <3>6, <3>7
  <2>4. CASE step[p] # Len(main[p].setup)
    <3>1. step' = [step EXCEPT ![p] = @ + 1] /\ pc' = pc
      BY <1>1, <2>4 DEF Acquire
    <3>2. \A i \in 1..step[p] + 1 - 1 : i \in 1..step[p] - 1 \/ i = step[p]
      BY <2>2
    <3> QED
      BY <2>1, <2>2, <3>1, <3>2
  <2> QED
    BY <2>3, <2>4
<1>2. ASSUME NEW p \in Processes, AcquireFails(p) PROVE HeldInv'
  <2>1. pc[p] = "setup" /\ main' = main /\ step[p] \in DOMAIN main[p].setup
    BY <1>2 DEF AcquireFails
  <2>2. CASE step[p] <= main[p].bare
    <3>1. Ends(p, 1) /\ step' = step
      BY <1>2, <2>2 DEF AcquireFails
    <3> QED
      BY <2>1, <3>1, EndsSo
  <2>3. CASE ~(step[p] <= main[p].bare)
    <3>1. PICK some \in {{}, {main[p].setup[step[p]]} \cap {"attach", "link"}} :
              held' = [held EXCEPT ![p] = @ \cup some]
      BY <1>2, <2>3 DEF AcquireFails
    <3>2. GoTo(p, "teardown")
      BY <1>2, <2>3 DEF AcquireFails
    <3> QED
      BY <2>1, <3>1, <3>2 DEF GoTo
  <2> QED
    BY <2>2, <2>3
<1>3. ASSUME NEW p \in Processes,
             Check(p) \/ Wait(p) \/ Poll(p) \/ PollInterrupted(p) \/ PollFails(p)
      PROVE HeldInv'
  <2>1. /\ pc[p] \in {"check", "wait"} /\ UNCHANGED <<main, held>>
        /\ \E label \in {"check", "wait", "teardown"} : GoTo(p, label)
    BY <1>3 DEF Check, Wait, Poll, PollInterrupted, PollFails
  <2> QED
    BY <2>1 DEF GoTo
<1>4. ASSUME NEW p \in Processes, Release(p) PROVE HeldInv'
  <2>1. /\ pc[p] = "teardown" /\ UNCHANGED <<main, pc>>
        /\ held' = [held EXCEPT ![p] = @ \ With(main[p], main[p].teardown[step[p]])]
        /\ step' = [step EXCEPT ![p] = @ + 1]
    BY <1>4 DEF Release
  <2> QED
    BY <2>1
<1>5. ASSUME NEW p \in Processes, Finish(p) \/ Kill(p) PROVE HeldInv'
  <2>1. UNCHANGED <<main, step>> /\ \E c \in {0, 1, 130, 137, 143} : Ends(p, c)
    BY <1>5 DEF Finish, Kill
  <2> QED
    BY <2>1, EndsSo
<1>6. ASSUME NEW p \in Processes, Signal(p) PROVE HeldInv'
  BY <1>6 DEF Signal
<1>7. CASE UNCHANGED vars
  BY <1>7 DEF vars
<1> QED
  BY <1>1, <1>2, <1>3, <1>4, <1>5, <1>6, <1>7 DEF Next, Step

LEMMA HeldInit == Init => HeldInv
BY DEF Init, HeldInv

LEMMA HeldComplete ==
    ASSUME \A m \in Mains : Ordered(m)
    PROVE  TypeOK /\ HeldInv => TeardownComplete
<1> SUFFICES ASSUME TypeOK, HeldInv,
                    NEW p \in Processes, pc[p] = "teardown", step[p] = Len(main[p].teardown),
                    NEW r \in held[p], r \notin {"args", "signal"}
             PROVE  r \in With(main[p], main[p].teardown[step[p]])
  BY DEF TeardownComplete
<1>1. Ordered(main[p]) /\ WellFormed(main[p])
  BY MainsWellFormed
<1>2. PICK i \in DOMAIN main[p].setup : main[p].setup[i] = r
  BY DEF HeldInv
<1>3. PICK j \in DOMAIN main[p].teardown : r \in With(main[p], main[p].teardown[j])
  BY <1>1, <1>2 DEF Ordered
<1>4. j \in 1..Len(main[p].teardown) /\ Len(main[p].teardown) \in Nat
  BY <1>1, <1>3 DEF WellFormed
<1>5. j \notin 1..step[p] - 1
  BY <1>3 DEF HeldInv
<1> QED
  BY <1>3, <1>4, <1>5

(* With the last destructor of an ordered cleanup nothing is left for the  *)
(* kernel to close, from whichever call of the setup it was entered.       *)
THEOREM TeardownCorrect ==
    ASSUME \A m \in Mains : Ordered(m)
    PROVE  Spec => []TeardownComplete
BY HeldComplete, HeldInit, HeldStep, TypeInit, TypeStep, PTL DEF Spec

LEMMA SkeletonStep ==
    ASSUME \A m \in Mains : Ordered(m)
    PROVE  TypeOK /\ HeldInv /\ SkeletonOutlives /\ [Next]_vars => SkeletonOutlives'
<1> SUFFICES ASSUME TypeOK, HeldInv, SkeletonOutlives, [Next]_vars PROVE SkeletonOutlives'
  OBVIOUS
<1>o. \A p \in Processes : Ordered(main[p]) /\ WellFormed(main[p])
  BY MainsWellFormed
<1> USE DEF SkeletonOutlives
<1>1. ASSUME NEW p \in Processes, NEW some \in SUBSET {main[p].setup[step[p]]},
             held' = [held EXCEPT ![p] = @ \cup some], pc[p] = "setup"
      PROVE SkeletonOutlives'
  <2>1. step[p] \in DOMAIN main[p].setup
    BY <1>1 DEF TypeOK
  <2>2. main[p].setup[step[p]] \in OfSkeleton => "skel" \in held[p]
    BY <1>1, <1>o, <2>1 DEF Ordered, HeldInv
  <2> QED
    BY <1>1, <2>2 DEF TypeOK
<1>2. ASSUME NEW p \in Processes, held' = [held EXCEPT ![p] = {}]
      PROVE SkeletonOutlives'
  BY <1>2 DEF TypeOK
<1>3. ASSUME NEW p \in Processes, Release(p) PROVE SkeletonOutlives'
  <2>1. /\ pc[p] = "teardown" /\ step[p] \in 1..Len(main[p].teardown)
        /\ held' = [held EXCEPT ![p] = @ \ With(main[p], main[p].teardown[step[p]])]
    BY <1>3, <1>o DEF Release, TypeOK, WellFormed
  <2>2. ASSUME NEW r \in held'[p], r \in OfSkeleton PROVE "skel" \in held'[p]
    <3>1. r \in held[p] /\ r \notin With(main[p], main[p].teardown[step[p]])
      BY <2>1, <2>2 DEF TypeOK
    <3>2. PICK i \in DOMAIN main[p].setup : main[p].setup[i] = r
      BY <3>1 DEF HeldInv
    <3>3. \A j \in 1..step[p] : r \notin With(main[p], main[p].teardown[j])
      BY <2>1, <3>1 DEF HeldInv
    <3>4. step[p] \in DOMAIN main[p].teardown
      BY <2>1, <1>o DEF WellFormed
    <3>5. "skel" \notin With(main[p], main[p].teardown[step[p]])
      BY <1>o, <2>2, <3>2, <3>3, <3>4 DEF Ordered
    <3>6. "skel" \in held[p]
      BY <2>2, <3>1
    <3> QED
      BY <2>1, <3>5, <3>6 DEF TypeOK
  <2> QED
    BY <2>1, <2>2 DEF TypeOK
<1>4. ASSUME held' = held PROVE SkeletonOutlives'
  BY <1>4
<1>5. ASSUME NEW p \in Processes, Acquire(p) PROVE SkeletonOutlives'
  BY <1>1, <1>5 DEF Acquire
<1>6. ASSUME NEW p \in Processes, AcquireFails(p) PROVE SkeletonOutlives'
  <2>1. pc[p] = "setup"
    BY <1>6 DEF AcquireFails
  <2>2. CASE step[p] <= main[p].bare
    BY <1>2, <1>6, <2>2 DEF AcquireFails, Ends
  <2>3. CASE ~(step[p] <= main[p].bare)
    <3>1. PICK some \in {{}, {main[p].setup[step[p]]} \cap {"attach", "link"}} :
              held' = [held EXCEPT ![p] = @ \cup some]
      BY <1>6, <2>3 DEF AcquireFails
    <3>2. some \in SUBSET {main[p].setup[step[p]]}
      OBVIOUS
    <3> QED
      BY <1>1, <2>1, <3>1, <3>2
  <2> QED
    BY <2>2, <2>3
<1>7. ASSUME NEW p \in Processes, Finish(p) \/ Kill(p) PROVE SkeletonOutlives'
  BY <1>2, <1>7 DEF Finish, Kill, Ends
<1>8. ASSUME NEW p \in Processes,
             \/ Check(p) \/ Wait(p) \/ Poll(p) \/ PollInterrupted(p) \/ PollFails(p)
             \/ Signal(p)
      PROVE SkeletonOutlives'
  <2>1. held' = held
    BY <1>8 DEF Check, Wait, Poll, PollInterrupted, PollFails, Signal
  <2> QED
    BY <1>4, <2>1
<1>9. CASE UNCHANGED vars
  BY <1>4, <1>9 DEF vars
<1> QED
  BY <1>3, <1>5, <1>6, <1>7, <1>8, <1>9 DEF Next, Step

(* In an ordered main() the ring buffer and the links are never held       *)
(* without the skeleton they refer to, on any path, with any signal.       *)
THEOREM SkeletonCorrect ==
    ASSUME \A m \in Mains : Ordered(m)
    PROVE  Spec => []SkeletonOutlives
<1>1. Init => SkeletonOutlives
  BY DEF Init, SkeletonOutlives
<1> QED
  BY <1>1, SkeletonStep, HeldInit, HeldStep, TypeInit, TypeStep, PTL DEF Spec
-----------------------------------------------------------------------------
(* The interface.                                                          *)

LEMMA OthersKeep ==
    ASSUME TypeOK, NEW p \in Processes, Step(p) \/ Signal(p) \/ Kill(p),
           NEW q \in Processes \ {p}
    PROVE  /\ pc'[q] = pc[q] /\ held'[q] = held[q] /\ code'[q] = code[q]
           /\ main' = main /\ \A h \in Hooks : slot'[h] \in {slot[h], NoProcess, p}
<1>1. CASE Acquire(p)
  <2>1. /\ main' = main /\ code' = code
        /\ held' = [held EXCEPT ![p] = @ \cup {main[p].setup[step[p]]}]
        /\ \/ slot' = slot
           \/ slot' = [slot EXCEPT ![HookOf(main[p].setup[step[p]])] = p]
    BY <1>1 DEF Acquire
  <2>2. pc' \in {pc, [pc EXCEPT ![p] = "check"]}
    BY <1>1 DEF Acquire, GoTo
  <2> QED
    BY <2>1, <2>2 DEF TypeOK
<1>2. ASSUME NEW c \in {0, 1, 130, 137, 143}, Ends(p, c), main' = main
      PROVE  /\ pc'[q] = pc[q] /\ held'[q] = held[q] /\ code'[q] = code[q]
             /\ main' = main /\ \A h \in Hooks : slot'[h] \in {slot[h], NoProcess, p}
  <2>1. slot' = slot \/ slot' = [slot EXCEPT !["xdp"] = NoProcess]
    BY <1>2 DEF Ends
  <2>2. /\ pc' = [pc EXCEPT ![p] = "exited"]
        /\ code' = [code EXCEPT ![p] = c]
        /\ held' = [held EXCEPT ![p] = {}]
    BY <1>2, EndsSo
  <2> QED
    BY <1>2, <2>1, <2>2 DEF TypeOK
<1>3. CASE AcquireFails(p)
  <2>1. main' = main
    BY <1>3 DEF AcquireFails
  <2>2. CASE step[p] <= main[p].bare
    BY <1>2, <1>3, <2>1, <2>2 DEF AcquireFails
  <2>3. CASE ~(step[p] <= main[p].bare)
    <3>1. GoTo(p, "teardown") /\ UNCHANGED <<code, slot>>
      BY <1>3, <2>3 DEF AcquireFails
    <3>2. PICK some \in {{}, {main[p].setup[step[p]]} \cap {"attach", "link"}} :
              held' = [held EXCEPT ![p] = @ \cup some]
      BY <1>3, <2>3 DEF AcquireFails
    <3> QED
      BY <2>1, <3>1, <3>2 DEF TypeOK, GoTo
  <2> QED
    BY <2>2, <2>3
<1>4. CASE Check(p) \/ Wait(p) \/ Poll(p) \/ PollInterrupted(p) \/ PollFails(p)
  <2>1. /\ \E label \in {"check", "wait", "teardown"} : GoTo(p, label)
        /\ UNCHANGED <<main, held, code, slot>>
    BY <1>4 DEF Check, Wait, Poll, PollInterrupted, PollFails
  <2> QED
    BY <2>1 DEF TypeOK, GoTo
<1>5. CASE Release(p)
  <2>1. /\ UNCHANGED <<main, pc, code>>
        /\ \/ slot' = slot
           \/ slot' = [slot EXCEPT ![HookOf(main[p].teardown[step[p]])] = NoProcess]
        /\ held' = [held EXCEPT ![p] = @ \ With(main[p], main[p].teardown[step[p]])]
    BY <1>5 DEF Release
  <2> QED
    BY <2>1 DEF TypeOK
<1>6. CASE Finish(p) \/ Kill(p)
  <2>1. main' = main /\ \E c \in {0, 1, 130, 137, 143} : Ends(p, c)
    BY <1>6 DEF Finish, Kill
  <2> QED
    BY <1>2, <2>1
<1>7. CASE Signal(p)
  BY <1>7 DEF Signal
<1> QED
  BY <1>1, <1>3, <1>4, <1>5, <1>6, <1>7 DEF Step

(* Whoever's program is on a hook has still what detaches it, or was       *)
(* killed and had attached without a link.                                 *)
On(h) == {r \in OnInterface : HookOf(r) = h}

SlotOf(p) ==
    \A h \in Hooks : slot[h] = p =>
        IF pc[p] = "exited" THEN code[p] \notin {0, 1} /\ ~ByLink(main[p])
                            ELSE held[p] \cap On(h) # {}

SlotInv == \A p \in Processes : SlotOf(p)

LEMMA SlotEnds ==
    ASSUME TypeOK, HeldInv, NEW p \in Processes, NEW c \in {0, 1, 130, 137, 143}, Ends(p, c),
           SlotOf(p), pc[p] # "exited", main' = main,
           c \in {0, 1} => held[p] \cap {"filter", "xdp"} = {}
    PROVE  SlotOf(p)'
<1> SUFFICES ASSUME NEW h \in Hooks, slot'[h] = p
             PROVE  c \notin {0, 1} /\ ~ByLink(main[p])
  BY EndsSo DEF TypeOK, SlotOf
<1>1. slot' = IF slot["xdp"] = p /\ "xdp_link" \in held[p]
              THEN [slot EXCEPT !["xdp"] = NoProcess] ELSE slot
  BY DEF Ends
<1>2. p # NoProcess
  BY LoaderAssumption
<1>3. slot[h] = p /\ ~(h = "xdp" /\ "xdp_link" \in held[p])
  BY <1>1, <1>2 DEF TypeOK
<1>4. PICK r \in held[p] : r \in On(h)
  BY <1>3 DEF SlotOf
<1>5. r \in {"filter", "xdp"}
  BY <1>3, <1>4 DEF On, OnInterface, HookOf
<1>6. PICK i \in DOMAIN main[p].setup : main[p].setup[i] = r
  BY <1>4 DEF HeldInv
<1> QED
  BY <1>4, <1>5, <1>6 DEF ByLink

LEMMA SlotStep ==
    ASSUME \A m \in Mains : Ordered(m) /\ Detaches(m)
    PROVE  TypeOK /\ HeldInv /\ SlotInv /\ [Next]_vars => SlotInv'
<1> SUFFICES ASSUME TypeOK, HeldInv, SlotInv, [Next]_vars PROVE SlotInv'
  OBVIOUS
<1>o. \A p \in Processes : Ordered(main[p]) /\ Detaches(main[p]) /\ WellFormed(main[p])
  BY MainsWellFormed
<1>1. ASSUME NEW p \in Processes, Step(p) \/ Signal(p) \/ Kill(p), SlotOf(p)' PROVE SlotInv'
  <2> SUFFICES ASSUME NEW q \in Processes \ {p} PROVE SlotOf(q)'
    BY <1>1 DEF SlotInv
  <2>1. /\ pc'[q] = pc[q] /\ held'[q] = held[q] /\ code'[q] = code[q]
        /\ main' = main /\ \A h \in Hooks : slot'[h] \in {slot[h], NoProcess, p}
    BY <1>1, OthersKeep
  <2>2. \A h \in Hooks : slot'[h] = q => slot[h] = q
    BY <2>1, LoaderAssumption
  <2>3. SlotOf(q)
    BY DEF SlotInv
  <2> QED
    BY <2>1, <2>2, <2>3 DEF SlotOf
<1>2. ASSUME NEW p \in Processes, Acquire(p) PROVE SlotInv'
  <2> DEFINE r == main[p].setup[step[p]]
  <2>1. /\ pc[p] = "setup" /\ held' = [held EXCEPT ![p] = @ \cup {r}]
        /\ slot' = IF r \in OnInterface THEN [slot EXCEPT ![HookOf(r)] = p] ELSE slot
    BY <1>2 DEF Acquire
  <2>2. pc'[p] # "exited"
    <3>1. pc' \in {pc, [pc EXCEPT ![p] = "check"]}
      BY <1>2 DEF Acquire, GoTo
    <3> QED
      BY <2>1, <3>1 DEF TypeOK
  <2>3. held'[p] = held[p] \cup {r}
    BY <2>1 DEF TypeOK
  <2>4. ASSUME NEW h \in Hooks, slot'[h] = p PROVE held'[p] \cap On(h) # {}
    <3>1. CASE slot[h] = p
      BY <2>1, <2>3, <3>1 DEF SlotInv, SlotOf
    <3>2. CASE slot[h] # p
      <4>1. r \in OnInterface /\ HookOf(r) = h
        BY <2>1, <2>4, <3>2 DEF TypeOK
      <4> QED
        BY <2>3, <4>1 DEF On
    <3> QED
      BY <3>1, <3>2
  <2>5. SlotOf(p)'
    BY <2>2, <2>4 DEF SlotOf
  <2> QED
    BY <1>1, <1>2, <2>5 DEF Step
<1>3. ASSUME NEW p \in Processes, AcquireFails(p) PROVE SlotInv'
  <2>1. pc[p] = "setup" /\ main' = main /\ step[p] \in DOMAIN main[p].setup
    BY <1>3 DEF AcquireFails, TypeOK
  <2>2. CASE step[p] <= main[p].bare
    <3>1. Ends(p, 1)
      BY <1>3, <2>2 DEF AcquireFails
    <3>2. held[p] \cap {"filter", "xdp"} = {}
      <4> SUFFICES ASSUME NEW r \in held[p] PROVE r \notin {"filter", "xdp"}
        OBVIOUS
      <4>1. PICK i \in 1..step[p] - 1 : main[p].setup[i] = r
        BY <2>1 DEF HeldInv
      <4>2. step[p] \in 1..main[p].bare
        BY <2>2, <1>o DEF TypeOK, WellFormed
      <4> QED
        BY <1>o, <4>1, <4>2 DEF Detaches
    <3>3. SlotOf(p)
      BY DEF SlotInv
    <3> QED
      BY <1>1, <1>3, <2>1, <3>1, <3>2, <3>3, SlotEnds DEF Step
  <2>3. CASE ~(step[p] <= main[p].bare)
    <3>1. GoTo(p, "teardown") /\ slot' = slot
      BY <1>3, <2>3 DEF AcquireFails
    <3>2. PICK some \in {{}, {main[p].setup[step[p]]} \cap {"attach", "link"}} :
              held' = [held EXCEPT ![p] = @ \cup some]
      BY <1>3, <2>3 DEF AcquireFails
    <3>3. held[p] \subseteq held'[p] /\ pc'[p] = "teardown"
      BY <3>1, <3>2 DEF TypeOK, GoTo
    <3>4. SlotOf(p)'
      BY <2>1, <3>1, <3>3 DEF SlotInv, SlotOf
    <3> QED
      BY <1>1, <1>3, <3>4 DEF Step
  <2> QED
    BY <2>2, <2>3
<1>4. ASSUME NEW p \in Processes,
             \/ Check(p) \/ Wait(p) \/ Poll(p) \/ PollInterrupted(p) \/ PollFails(p)
             \/ Signal(p)
      PROVE SlotInv'
  <2>1. /\ pc[p] # "exited" /\ UNCHANGED <<held, slot>>
        /\ pc' = pc \/ \E label \in {"check", "wait", "teardown"} : GoTo(p, label)
    BY <1>4 DEF Check, Wait, Poll, PollInterrupted, PollFails, Signal
  <2>2. pc'[p] # "exited"
    BY <2>1 DEF TypeOK, GoTo
  <2>3. SlotOf(p)'
    BY <2>1, <2>2 DEF SlotInv, SlotOf
  <2> QED
    BY <1>1, <1>4, <2>3 DEF Step
<1>5. ASSUME NEW p \in Processes, Release(p) PROVE SlotInv'
  <2> DEFINE r == main[p].teardown[step[p]]
  <2>1. /\ pc[p] = "teardown" /\ UNCHANGED <<main, pc>>
        /\ held'[p] = held[p] \ With(main[p], r)
        /\ slot' = IF Cleared(p, r) THEN [slot EXCEPT ![HookOf(r)] = NoProcess] ELSE slot
    BY <1>5 DEF Release, TypeOK
  <2>2. ASSUME NEW h \in Hooks, slot'[h] = p PROVE held'[p] \cap On(h) # {}
    <3>1. slot[h] = p /\ ~(Cleared(p, r) /\ HookOf(r) = h)
      BY <2>1, <2>2, LoaderAssumption DEF TypeOK
    <3>2. PICK x \in held[p] : x \in On(h)
      BY <2>1, <3>1 DEF SlotInv, SlotOf
    <3>3. CASE x \notin With(main[p], r)
      BY <2>1, <3>2, <3>3
    <3>4. CASE x \in With(main[p], r)
      <4>1. x = r /\ HookOf(r) = h
        BY <3>2, <3>4 DEF On, With, OnInterface
      <4>2. r = "xdp" /\ Linked
        BY <3>1, <3>2, <4>1 DEF Cleared, On, OnInterface, HookOf
      <4>3. "xdp_link" \in held[p]
        BY <3>1, <4>1, <4>2 DEF Linked, HookOf
      <4> QED
        BY <2>1, <4>1, <4>2, <4>3 DEF With, On, OnInterface, HookOf
    <3> QED
      BY <3>3, <3>4
  <2>3. SlotOf(p)'
    BY <2>1, <2>2 DEF SlotOf
  <2> QED
    BY <1>1, <1>5, <2>3 DEF Step
<1>6. ASSUME NEW p \in Processes, Finish(p) PROVE SlotInv'
  <2>1. pc[p] = "teardown" /\ step[p] = Len(main[p].teardown) /\ main' = main
    BY <1>6 DEF Finish
  <2>2. PICK c \in {0, 1} : Ends(p, c)
    BY <1>6 DEF Finish
  <2>3. held[p] \subseteq {"args", "signal"} \cup With(main[p], main[p].teardown[Len(main[p].teardown)])
    BY <2>1, HeldComplete DEF TeardownComplete
  <2>4. held[p] \cap {"filter", "xdp"} = {}
    BY <2>3, <1>o DEF Detaches, With, OnInterface
  <2>5. SlotOf(p)
    BY DEF SlotInv
  <2>6. SlotOf(p)'
    BY <2>1, <2>2, <2>4, <2>5, SlotEnds
  <2> QED
    BY <1>1, <1>6, <2>6 DEF Step
<1>7. ASSUME NEW p \in Processes, Kill(p) PROVE SlotInv'
  <2>1. pc[p] # "exited" /\ main' = main
    BY <1>7 DEF Kill
  <2>2. PICK c \in {130, 137, 143} : Ends(p, c)
    BY <1>7 DEF Kill
  <2>3. SlotOf(p)
    BY DEF SlotInv
  <2>4. SlotOf(p)'
    BY <2>1, <2>2, <2>3, SlotEnds
  <2> QED
    BY <1>1, <1>7, <2>4
<1>8. CASE UNCHANGED vars
  BY <1>8 DEF vars, SlotInv, SlotOf
<1> QED
  BY <1>2, <1>3, <1>4, <1>5, <1>6, <1>7, <1>8 DEF Next, Step

LEMMA SlotInit == Init => SlotInv
BY LoaderAssumption DEF Init, SlotInv, SlotOf

(* However a loader ends, with others on its interface doing the same at   *)
(* any time, its program does not stay there, unless it is attached        *)
(* without a link and the loader is killed.                                *)
THEOREM NothingLeftCorrect ==
    ASSUME \A m \in Mains : Ordered(m) /\ Detaches(m)
    PROVE  Spec => []NothingLeft
<1>1. SlotInv => NothingLeft
  BY DEF SlotInv, SlotOf, NothingLeft
<1> QED
  BY <1>1, SlotInit, SlotStep, HeldInit, HeldStep, TypeInit, TypeStep, PTL DEF Spec
-----------------------------------------------------------------------------
(* Running and attached.                                                   *)

LEMMA StartedStays ==
    ASSUME TypeOK, NEW p \in Processes, Step(p) \/ Signal(p) \/ Kill(p),
           NEW q \in Processes, Started(q)
    PROVE  Started(q)'
<1>1. CASE q # p
  <2>1. pc'[q] = pc[q] /\ held'[q] = held[q]
    BY <1>1, OthersKeep
  <2> QED
    BY <2>1 DEF Started
<1>2. CASE q = p /\ pc[p] # "setup"
  <2>1. CASE Check(p) \/ Wait(p) \/ Poll(p) \/ PollInterrupted(p) \/ PollFails(p)
    <3>1. PICK label \in {"check", "wait", "teardown"} : GoTo(p, label)
      BY <2>1 DEF Check, Wait, Poll, PollInterrupted, PollFails
    <3>2. pc'[p] = label
      BY <3>1 DEF GoTo, TypeOK
    <3> QED
      BY <1>2, <3>2 DEF Started
  <2>2. CASE Release(p) \/ Signal(p)
    <3>1. pc' = pc
      BY <2>2 DEF Release, Signal
    <3> QED
      BY <1>2, <3>1 DEF Started
  <2>3. CASE Finish(p) \/ Kill(p)
    <3>1. PICK c \in {0, 1, 130, 137, 143} : Ends(p, c)
      BY <2>3 DEF Finish, Kill
    <3>2. pc'[p] = "exited"
      BY <3>1, EndsSo DEF TypeOK
    <3> QED
      BY <1>2, <3>2 DEF Started
  <2>4. ~Acquire(p) /\ ~AcquireFails(p)
    BY <1>2 DEF Acquire, AcquireFails
  <2> QED
    BY <2>1, <2>2, <2>3, <2>4 DEF Step
<1>3. CASE q = p /\ pc[p] = "setup" /\ held[p] \cap OnInterface # {}
  <2>1. CASE held[p] \subseteq held'[p]
    BY <1>3, <2>1 DEF Started
  <2>2. CASE \E c \in {0, 1, 130, 137, 143} : Ends(p, c)
    <3>1. pc'[p] = "exited"
      BY <2>2, EndsSo DEF TypeOK
    <3> QED
      BY <1>3, <3>1 DEF Started
  <2>3. CASE Acquire(p)
    BY <2>1, <2>3 DEF Acquire, TypeOK
  <2>4. CASE AcquireFails(p)
    <3>1. CASE step[p] <= main[p].bare
      BY <2>2, <2>4, <3>1 DEF AcquireFails
    <3>2. CASE ~(step[p] <= main[p].bare)
      <4>1. PICK some \in {{}, {main[p].setup[step[p]]} \cap {"attach", "link"}} :
                held' = [held EXCEPT ![p] = @ \cup some]
        BY <2>4, <3>2 DEF AcquireFails
      <4> QED
        BY <2>1, <4>1 DEF TypeOK
    <3> QED
      BY <3>1, <3>2
  <2>5. CASE Signal(p)
    BY <2>1, <2>5 DEF Signal
  <2>6. CASE Kill(p)
    BY <2>2, <2>6 DEF Kill
  <2>7. /\ ~Check(p) /\ ~Wait(p) /\ ~Poll(p) /\ ~PollInterrupted(p) /\ ~PollFails(p)
        /\ ~Release(p) /\ ~Finish(p)
    BY <1>3 DEF Check, Wait, Poll, PollInterrupted, PollFails, Release, Finish
  <2> QED
    BY <2>3, <2>4, <2>5, <2>6, <2>7 DEF Step
<1> QED
  BY <1>1, <1>2, <1>3 DEF Started

(* From the moment it attaches to the end of its loop, a loader has its    *)
(* hooks, or another one may have taken them.                              *)
Busy(p, h) == \/ pc[p] \in {"check", "wait"} /\ h \in Uses(main[p])
              \/ pc[p] = "setup" /\ held[p] \cap On(h) # {}

RunsOn(p) == \A h \in Hooks : Busy(p, h) => slot[h] = p \/ (~ByLink(main[p]) /\ Rivalled(p))

RunInv == \A p \in Processes : RunsOn(p)

LEMMA UsesIt ==
    ASSUME NEW m, NEW i \in DOMAIN m.setup, m.setup[i] \in OnInterface
    PROVE  HookOf(m.setup[i]) \in Uses(m)
BY DEF Uses

(* What it holds for a hook shows that it uses the hook.                   *)
LEMMA HeldUses ==
    ASSUME HeldInv, NEW p \in Processes, NEW h \in Hooks, held[p] \cap On(h) # {}
    PROVE  h \in Uses(main[p])
<1>1. PICK r \in held[p] : r \in OnInterface /\ HookOf(r) = h
  BY DEF On
<1>2. PICK i \in DOMAIN main[p].setup : main[p].setup[i] = r
  BY <1>1 DEF HeldInv
<1> QED
  BY <1>1, <1>2, UsesIt

(* A hook passes from one loader to another by a step of the other, and    *)
(* only if the one did not attach by a link.                               *)
LEMMA TakenBy ==
    ASSUME TypeOK, HeldInv, SlotInv, \A m \in Mains : Detaches(m),
           NEW p \in Processes, Step(p) \/ Signal(p) \/ Kill(p),
           NEW q \in Processes \ {p}, NEW h \in Hooks, Busy(q, h), slot[h] = q, slot'[h] # q
    PROVE  ~ByLink(main[q]) /\ h \in Uses(main[p]) /\ Started(p)'
<1>o. Detaches(main[p]) /\ WellFormed(main[p])
  BY MainsWellFormed
<1>n. q # NoProcess
  BY LoaderAssumption
<1>q. PICK x \in held[q] : x \in On(h)
  BY DEF SlotInv, SlotOf, Busy
<1>l. "xdp_link" \in held[q] /\ h = "xdp" => Linked
  BY DEF Linked
<1>b. ASSUME h = "xdp" => ~Linked PROVE ~ByLink(main[q])
  <2>1. x \in {"filter", "xdp"}
    BY <1>l, <1>q, <1>b DEF On, OnInterface, HookOf
  <2>2. PICK i \in DOMAIN main[q].setup : main[q].setup[i] = x
    BY <1>q DEF HeldInv
  <2> QED
    BY <2>1, <2>2 DEF ByLink
<1>1. CASE Acquire(p)
  <2> DEFINE r == main[p].setup[step[p]]
  <2>1. /\ pc[p] = "setup" /\ held'[p] = held[p] \cup {r}
        /\ r = "xdp_link" => slot["xdp"] = NoProcess
        /\ r = "xdp" => ~Linked
        /\ slot' = IF r \in OnInterface THEN [slot EXCEPT ![HookOf(r)] = p] ELSE slot
    BY <1>1 DEF Acquire, TypeOK
  <2>2. r \in OnInterface /\ h = HookOf(r)
    BY <2>1 DEF TypeOK
  <2>3. step[p] \in DOMAIN main[p].setup
    BY <2>1 DEF TypeOK
  <2>4. h \in Uses(main[p])
    BY <2>2, <2>3, UsesIt
  <2>5. held'[p] \cap OnInterface # {}
    BY <2>1, <2>2
  <2>6. ~ByLink(main[q])
    BY <1>b, <1>n, <2>1, <2>2 DEF OnInterface, HookOf
  <2> QED
    BY <2>4, <2>5, <2>6 DEF Started
<1>2. CASE Release(p)
  <2> DEFINE r == main[p].teardown[step[p]]
  <2>1. /\ pc[p] = "teardown" /\ pc' = pc
        /\ slot' = IF Cleared(p, r) THEN [slot EXCEPT ![HookOf(r)] = NoProcess] ELSE slot
    BY <1>2 DEF Release
  <2>2. h = HookOf(r) /\ (r = "filter" \/ (r = "xdp" /\ "xdp" \in held[p] /\ ~Linked))
    BY <2>1 DEF Cleared, TypeOK, HookOf
  <2>3. step[p] \in DOMAIN main[p].teardown
    BY <2>1 DEF TypeOK
  <2>4. PICK i \in DOMAIN main[p].setup : main[p].setup[i] = r
    BY <1>o, <2>2, <2>3 DEF HeldInv, Detaches
  <2>5. r \in OnInterface
    BY <2>2 DEF OnInterface
  <2>6. h \in Uses(main[p])
    BY <2>2, <2>4, <2>5, UsesIt
  <2>7. ~ByLink(main[q])
    BY <1>b, <2>2 DEF HookOf
  <2>8. Started(p)'
    BY <2>1 DEF Started
  <2> QED
    BY <2>6, <2>7, <2>8
<1>3. ASSUME \E c \in {0, 1, 130, 137, 143} : Ends(p, c) PROVE FALSE
  <2>1. slot' = IF slot["xdp"] = p /\ "xdp_link" \in held[p]
                THEN [slot EXCEPT !["xdp"] = NoProcess] ELSE slot
    BY <1>3 DEF Ends
  <2> QED
    BY <2>1 DEF TypeOK
<1>4. CASE AcquireFails(p)
  <2>1. slot' = slot \/ Ends(p, 1)
    BY <1>4 DEF AcquireFails
  <2> QED
    BY <1>3, <2>1
<1>5. CASE Finish(p) \/ Kill(p)
  BY <1>3, <1>5 DEF Finish, Kill
<1>6. CASE Check(p) \/ Wait(p) \/ Poll(p) \/ PollInterrupted(p) \/ PollFails(p) \/ Signal(p)
  BY <1>6 DEF Check, Wait, Poll, PollInterrupted, PollFails, Signal
<1> QED
  BY <1>1, <1>2, <1>4, <1>5, <1>6 DEF Step

LEMMA RivalledStays ==
    ASSUME TypeOK, NEW p \in Processes, Step(p) \/ Signal(p) \/ Kill(p),
           NEW q \in Processes, Rivalled(q), main' = main
    PROVE  Rivalled(q)'
<1>1. PICK x \in Processes \ {q} : Uses(main[q]) \cap Uses(main[x]) # {} /\ Started(x)
  BY DEF Rivalled
<1>2. Started(x)'
  BY <1>1, StartedStays
<1> QED
  BY <1>1, <1>2 DEF Rivalled

LEMMA RunsOnOther ==
    ASSUME TypeOK, HeldInv, SlotInv, RunInv, \A m \in Mains : Detaches(m),
           NEW p \in Processes, Step(p) \/ Signal(p) \/ Kill(p),
           NEW q \in Processes \ {p}
    PROVE  RunsOn(q)'
<1>1. pc'[q] = pc[q] /\ held'[q] = held[q] /\ main' = main
  BY OthersKeep
<1> SUFFICES ASSUME NEW h \in Hooks, Busy(q, h), slot'[h] # q
             PROVE  ~ByLink(main[q]) /\ Rivalled(q)'
  BY <1>1 DEF RunsOn, Busy
<1>2. CASE slot[h] = q
  <2>1. ~ByLink(main[q]) /\ h \in Uses(main[p]) /\ Started(p)'
    BY <1>2, TakenBy
  <2>2. h \in Uses(main[q])
    BY HeldUses DEF Busy
  <2> QED
    BY <1>1, <2>1, <2>2 DEF Rivalled
<1>3. CASE slot[h] # q
  <2>1. ~ByLink(main[q]) /\ Rivalled(q)
    BY <1>3 DEF RunInv, RunsOn
  <2> QED
    BY <1>1, <2>1, RivalledStays
<1> QED
  BY <1>2, <1>3

LEMMA RunsOnSelf ==
    ASSUME TypeOK, HeldInv, RunInv, HeldInv', TypeOK',
           NEW p \in Processes, Step(p) \/ Signal(p) \/ Kill(p)
    PROVE  RunsOn(p)'
<1>1. ASSUME main' = main, NEW h \in Hooks, slot'[h] = slot[h], Busy(p, h)
      PROVE slot'[h] = p \/ (~ByLink(main[p]) /\ Rivalled(p)')
  <2>1. slot[h] = p \/ (~ByLink(main[p]) /\ Rivalled(p))
    BY <1>1 DEF RunInv, RunsOn
  <2>2. Rivalled(p) => Rivalled(p)'
    BY <1>1, RivalledStays
  <2> QED
    BY <1>1, <2>1, <2>2
<1>2. ASSUME pc'[p] \in {"teardown", "exited"} PROVE RunsOn(p)'
  BY <1>2 DEF RunsOn, Busy
<1>3. CASE Acquire(p)
  <2> DEFINE r == main[p].setup[step[p]]
  <2>1. /\ pc[p] = "setup" /\ main' = main /\ held'[p] = held[p] \cup {r}
        /\ slot' = IF r \in OnInterface THEN [slot EXCEPT ![HookOf(r)] = p] ELSE slot
    BY <1>3 DEF Acquire, TypeOK
  <2>2. pc'[p] \in {"setup", "check"}
    <3>1. pc' \in {pc, [pc EXCEPT ![p] = "check"]}
      BY <1>3 DEF Acquire, GoTo
    <3> QED
      BY <2>1, <3>1 DEF TypeOK
  <2> SUFFICES ASSUME NEW h \in Hooks, Busy(p, h)'
               PROVE  slot'[h] = p \/ (~ByLink(main[p]) /\ Rivalled(p)')
    BY <2>1 DEF RunsOn
  <2>3. CASE r \in OnInterface /\ HookOf(r) = h
    BY <2>1, <2>3 DEF TypeOK
  <2>4. CASE ~(r \in OnInterface /\ HookOf(r) = h)
    <3>1. held'[p] \cap On(h) # {}
      <4>1. CASE pc'[p] = "setup"
        BY <4>1 DEF Busy
      <4>2. CASE pc'[p] = "check"
        <5>1. h \in Uses(main'[p])
          BY <4>2 DEF Busy
        <5>2. PICK i \in DOMAIN main'[p].setup :
                  main'[p].setup[i] \in OnInterface /\ HookOf(main'[p].setup[i]) = h
          BY <5>1 DEF Uses
        <5>3. main'[p].setup[i] \in held'[p]
          BY <4>2, <5>2 DEF HeldInv
        <5> QED
          BY <5>2, <5>3 DEF On
      <4> QED
        BY <2>2, <4>1, <4>2
    <3>2. Busy(p, h)
      BY <2>1, <2>4, <3>1 DEF Busy, On
    <3>3. slot'[h] = slot[h]
      BY <2>1, <2>4 DEF TypeOK
    <3> QED
      BY <1>1, <2>1, <3>2, <3>3
  <2> QED
    BY <2>3, <2>4
<1>4. ASSUME NEW c \in {0, 1, 130, 137, 143}, Ends(p, c) PROVE RunsOn(p)'
  BY <1>2, <1>4, EndsSo DEF TypeOK
<1>5. CASE AcquireFails(p)
  <2>1. Ends(p, 1) \/ GoTo(p, "teardown")
    BY <1>5 DEF AcquireFails
  <2>2. GoTo(p, "teardown") => pc'[p] = "teardown"
    BY DEF GoTo, TypeOK
  <2> QED
    BY <1>2, <1>4, <2>1, <2>2
<1>6. CASE Check(p) \/ Wait(p) \/ Poll(p)
  <2>1. /\ pc[p] \in {"check", "wait"} /\ UNCHANGED <<main, slot, held>>
        /\ \E label \in {"check", "wait", "teardown"} : GoTo(p, label)
    BY <1>6 DEF Check, Wait, Poll
  <2>2. pc'[p] # "setup"
    BY <2>1 DEF GoTo, TypeOK
  <2>3. ASSUME NEW h \in Hooks, Busy(p, h)' PROVE Busy(p, h)
    BY <2>1, <2>2, <2>3 DEF Busy
  <2> QED
    BY <1>1, <2>1, <2>3 DEF RunsOn
<1>7. CASE PollInterrupted(p) \/ PollFails(p)
  <2>1. GoTo(p, "teardown")
    BY <1>7 DEF PollInterrupted, PollFails
  <2>2. pc'[p] = "teardown"
    BY <2>1 DEF GoTo, TypeOK
  <2> QED
    BY <1>2, <2>2
<1>8. CASE Release(p)
  <2>1. pc'[p] = "teardown"
    BY <1>8 DEF Release
  <2> QED
    BY <1>2, <2>1
<1>9. CASE Finish(p) \/ Kill(p)
  <2>1. \E c \in {0, 1, 130, 137, 143} : Ends(p, c)
    BY <1>9 DEF Finish, Kill
  <2> QED
    BY <1>4, <2>1
<1>10. CASE Signal(p)
  <2>1. UNCHANGED <<main, pc, held, slot>>
    BY <1>10 DEF Signal
  <2>2. ASSUME NEW h \in Hooks, Busy(p, h)' PROVE Busy(p, h)
    BY <2>1, <2>2 DEF Busy
  <2> QED
    BY <1>1, <2>1, <2>2 DEF RunsOn
<1> QED
  BY <1>3, <1>5, <1>6, <1>7, <1>8, <1>9, <1>10 DEF Step

LEMMA RunStep ==
    ASSUME \A m \in Mains : Detaches(m)
    PROVE  TypeOK /\ HeldInv /\ SlotInv /\ RunInv /\ [Next]_vars => RunInv'
<1> SUFFICES ASSUME TypeOK, HeldInv, SlotInv, RunInv, [Next]_vars PROVE RunInv'
  OBVIOUS
<1>1. TypeOK' /\ HeldInv'
  BY TypeStep, HeldStep
<1>2. ASSUME NEW p \in Processes, Step(p) \/ Signal(p) \/ Kill(p) PROVE RunInv'
  BY <1>1, <1>2, RunsOnSelf, RunsOnOther DEF RunInv
<1>3. CASE UNCHANGED vars
  BY <1>3 DEF vars, RunInv, RunsOn, Busy, Rivalled, Started
<1> QED
  BY <1>2, <1>3 DEF Next

LEMMA RunInit == Init => RunInv
BY DEF Init, RunInv, RunsOn, Busy

(* A loader in its loop has its program attached, though others, of the    *)
(* same or of other programs, attach to and detach from its interface at   *)
(* any time; without a link only until another one gets as far as its hook.*)
THEOREM RunningCorrect ==
    ASSUME \A m \in Mains : Attaches(m) /\ Ordered(m) /\ Detaches(m)
    PROVE  Spec => []RunningIsAttached
<1>1. TypeOK /\ HeldInv /\ RunInv => RunningIsAttached
  <2> SUFFICES ASSUME TypeOK, HeldInv, RunInv,
                      NEW p \in Processes, pc[p] \in {"check", "wait"}
               PROVE  /\ held[p] \cap Attachments # {}
                      /\ \A h \in Uses(main[p]) :
                            slot[h] = p \/ (~ByLink(main[p]) /\ Rivalled(p))
    BY DEF RunningIsAttached
  <2>1. held[p] \cap Attachments # {}
    <3>1. PICK i \in DOMAIN main[p].setup : main[p].setup[i] \in Attachments
      BY MainsWellFormed DEF Attaches
    <3> QED
      BY <3>1 DEF HeldInv
  <2>2. Uses(main[p]) \subseteq Hooks
    BY DEF Uses, HookOf, Hooks
  <2> QED
    BY <2>1, <2>2 DEF RunInv, RunsOn, Busy
<1>2. TypeOK /\ HeldInv /\ SlotInv /\ RunInv /\ [Next]_vars => SlotInv' /\ RunInv'
  BY RunStep, SlotStep
<1> QED
  BY <1>1, <1>2, RunInit, SlotInit, HeldInit, HeldStep, TypeInit, TypeStep, PTL DEF Spec
=============================================================================
