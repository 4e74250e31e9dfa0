---------------------------- MODULE LatencyPair -----------------------------
(***************************************************************************)
(* The entry/return pairs: a program on entry to a function stores the     *)
(* time in a hash map, a program on its return looks the time up, deletes  *)
(* it and reports the difference.  S1 keys the map by process              *)
(* (pid_tgid >> 32), S2 by thread (pid_tgid).                              *)
(*                                                                         *)
(* The process of this model is a thread calling the traced function, in a *)
(* nested way when the function is recursive.  Every thread has a CPU of   *)
(* its own, the case with the most interleavings; CPUs is therefore the    *)
(* set of threads.  What the return program does with the latency, a local *)
(* variable by then, is in StatsMap: the two parts share no state.         *)
(***************************************************************************)
EXTENDS BpfHash, Integers, Sequences

CONSTANTS ProcOf,   \* the process of a thread
          Handlers, \* the pairs of programs under check (see below)
          MaxTime,  \* bound: the last tick of the clock
          MaxDepth, \* bound: nested calls of one thread
          MaxCalls  \* bound: calls of one thread

Threads == CPUs

ASSUME PairAssumption ==
    /\ Threads \subseteq Keys
    /\ ProcOf \in [Threads -> Keys]
    /\ MaxTime \in Nat /\ MaxDepth \in Nat /\ MaxCalls \in Nat
    /\ \A h \in Handlers : /\ h.byThread \in BOOLEAN /\ h.zeroIfMissing \in BOOLEAN
                           /\ h.deleteFirst \in BOOLEAN /\ h.mayVanish \in BOOLEAN
-----------------------------------------------------------------------------
(* A profile of each pair.                                                 *)
(*   byThread      : the key is pid_tgid, not its upper half               *)
(*   zeroIfMissing : a return that finds no entry reports latency 0        *)
(*   deleteFirst   : the entry is deleted before the report, not after     *)
(*   mayVanish     : a thread may be killed inside the traced user-space   *)
(*                   function, whose return probe then never fires         *)
S1Fentry    == [byThread |-> FALSE, zeroIfMissing |-> FALSE, deleteFirst |-> FALSE, mayVanish |-> FALSE]
S1Uretprobe == [byThread |-> FALSE, zeroIfMissing |-> FALSE, deleteFirst |-> TRUE,  mayVanish |-> TRUE]
S2Kretprobe == [byThread |-> TRUE,  zeroIfMissing |-> TRUE,  deleteFirst |-> TRUE,  mayVanish |-> FALSE]
S2Fentry    == [byThread |-> TRUE,  zeroIfMissing |-> FALSE, deleteFirst |-> FALSE, mayVanish |-> FALSE]
S2Uretprobe == [byThread |-> TRUE,  zeroIfMissing |-> FALSE, deleteFirst |-> FALSE, mayVanish |-> TRUE]
-----------------------------------------------------------------------------

VARIABLES handler, \* the pair that is attached
          now,     \* bpf_ktime_get_ns()
          run,     \* the return program of each thread: its next step and its locals
          \* history:
          stack,   \* the calls each thread is in, innermost last: when each began, and
                   \* whether its time is in the map
          reports, \* what the return programs measured
          calls,   \* calls each thread has made
          gone     \* threads killed inside the function

hist == <<stack, reports, calls, gone>>
vars == <<handler, now, hashVars, run, hist>>

\* The next step of a return program, entry_ts and exit_ts.
Run == [next : {"idle", "clock", "read", "delete", "report"},
        ptr  : Elems \cup {NoElem},
        exit : Nat]
Idle == [next |-> "idle", ptr |-> NoElem, exit |-> 0]

Frame == [start : Nat, tracked : BOOLEAN]

\* A negative latency stands for an unsigned subtraction that wrapped.
Report == [thread : Threads, tracked : BOOLEAN, found : BOOLEAN, latency : Int, own : Int]

TypeOK == /\ HashTypeOK(Nat)
          /\ handler \in Handlers
          /\ now \in Nat
          /\ run \in [Threads -> Run]
          /\ stack \in [Threads -> Seq(Frame)]
          /\ \A t \in Threads : run[t].next # "idle" => stack[t] # <<>>
          /\ \A t \in Threads : run[t].next \in {"clock", "read"} => run[t].ptr \in Elems
          /\ reports \in SUBSET Report
          /\ calls \in [Threads -> Nat]
          /\ gone \in SUBSET Threads

Init == /\ HashInit(0)
        /\ handler \in Handlers
        /\ now = 1
        /\ run = [t \in Threads |-> Idle]
        /\ stack = [t \in Threads |-> <<>>]
        /\ reports = {}
        /\ calls = [t \in Threads |-> 0]
        /\ gone = {}
-----------------------------------------------------------------------------
(* Each operator named Bad... is a wrong form of the definition that       *)
(* follows it; no specification uses it.                                   *)

\* Every pair keys its map by the upper half of pid_tgid.
BadKeyOf(t) == ProcOf[t]

KeyOf(t) == IF handler.byThread THEN t ELSE ProcOf[t]

Innermost(t) == stack[t][Len(stack[t])]
Outer(t)     == SubSeq(stack[t], 1, Len(stack[t]) - 1)

\* Time passes, in the function and between the steps of the programs.
Tick == /\ now < MaxTime
        /\ now' = now + 1
        /\ UNCHANGED <<handler, hashVars, run, hist>>

\* The enclosing calls, whose times a nested call overwrites.
Untracked(s) == [i \in 1..Len(s) |-> [start |-> s[i].start, tracked |-> FALSE]]

(* The entry program: update_elem(key, now), its result unchecked.  A      *)
(* nested call overwrites the time of the call it is nested in.            *)
Entry(t) ==
    /\ run[t].next = "idle" /\ t \notin gone
    /\ Len(stack[t]) < MaxDepth /\ calls[t] < MaxCalls
    /\ Update(t, KeyOf(t), now)
    /\ stack' = [stack EXCEPT ![t] =
                   Append(Untracked(@), [start   |-> now,
                                         tracked |-> entry[KeyOf(t)] # NoElem \/ free # {}])]
    /\ calls' = [calls EXCEPT ![t] = @ + 1]
    /\ UNCHANGED <<handler, now, run, reports, gone>>

\* The latency of t's innermost call, which returned at time exit, is lat.
Measured(t, found, lat, exit) ==
    reports' = reports \cup {[thread |-> t, tracked |-> Innermost(t).tracked,
                              found |-> found, latency |-> lat,
                              own |-> exit - Innermost(t).start]}

\* The looked-up pointer is not compared with NULL.
BadLookup(t) ==
    /\ run[t].next = "idle" /\ stack[t] # <<>>
    /\ run' = [run EXCEPT ![t] = [next |-> "clock", ptr |-> entry[KeyOf(t)], exit |-> 0]]
    /\ UNCHANGED <<handler, now, hashVars, hist>>

\* The return program's lookup finds the time ...
Lookup(t) ==
    /\ run[t].next = "idle" /\ stack[t] # <<>>
    /\ entry[KeyOf(t)] # NoElem
    /\ run' = [run EXCEPT ![t] = [next |-> "clock", ptr |-> entry[KeyOf(t)], exit |-> 0]]
    /\ UNCHANGED <<handler, now, hashVars, hist>>

\* ... or nothing: it returns, or (S2 kretprobe) goes on with latency 0.
Missing(t) ==
    /\ run[t].next = "idle" /\ stack[t] # <<>>
    /\ entry[KeyOf(t)] = NoElem
    /\ Measured(t, FALSE, 0, now)
    /\ IF handler.zeroIfMissing
       THEN /\ run' = [run EXCEPT ![t] = [Idle EXCEPT !.next = "report"]]
            /\ UNCHANGED stack
       ELSE /\ stack' = [stack EXCEPT ![t] = Outer(t)]
            /\ UNCHANGED run
    /\ UNCHANGED <<handler, now, hashVars, calls, gone>>

\* exit_ts = bpf_ktime_get_ns(), ...
Clock(t) ==
    /\ run[t].next = "clock"
    /\ run' = [run EXCEPT ![t] = [@ EXCEPT !.next = "read", !.exit = now]]
    /\ UNCHANGED <<handler, now, hashVars, hist>>

\* ... and minus *entry_ts, which is loaded through the pointer.
Read(t) ==
    /\ run[t].next = "read"
    /\ run' = [run EXCEPT ![t] = [Idle EXCEPT !.next = IF handler.deleteFirst
                                                      THEN "delete" ELSE "report"]]
    /\ Measured(t, TRUE, run[t].exit - value[run[t].ptr], run[t].exit)
    /\ UNCHANGED <<handler, now, hashVars, stack, calls, gone>>

Return(t) == /\ run' = [run EXCEPT ![t] = Idle]
             /\ stack' = [stack EXCEPT ![t] = Outer(t)]

\* When the ring is full the program returns, and leaves the entry there.
BadEmit(t) ==
    /\ run[t].next = "report"
    /\ Return(t)
    /\ UNCHANGED <<handler, now, hashVars, reports, calls, gone>>

\* The event and the statistics (see StatsMap); when the ring is full nothing
\* is sent, and the program goes on to delete the entry all the same.
Emit(t) ==
    /\ run[t].next = "report"
    /\ IF handler.deleteFirst
       THEN Return(t)
       ELSE run' = [run EXCEPT ![t].next = "delete"] /\ UNCHANGED stack
    /\ UNCHANGED <<handler, now, hashVars, reports, calls, gone>>

\* The entry is not deleted.
BadDeleteEntry(t) ==
    /\ run[t].next = "delete"
    /\ UNCHANGED hashVars
    /\ IF handler.deleteFirst
       THEN run' = [run EXCEPT ![t].next = "report"] /\ UNCHANGED stack
       ELSE Return(t)
    /\ UNCHANGED <<handler, now, reports, calls, gone>>

DeleteEntry(t) ==
    /\ run[t].next = "delete"
    /\ Delete(KeyOf(t))
    /\ IF handler.deleteFirst
       THEN run' = [run EXCEPT ![t].next = "report"] /\ UNCHANGED stack
       ELSE Return(t)
    /\ UNCHANGED <<handler, now, reports, calls, gone>>

\* A signal kills t inside a traced user-space function.
Vanish(t) ==
    /\ handler.mayVanish
    /\ run[t].next = "idle" /\ stack[t] # <<>>
    /\ stack' = [stack EXCEPT ![t] = <<>>]
    /\ gone' = gone \cup {t}
    /\ UNCHANGED <<handler, now, hashVars, run, reports, calls>>

Exit(t) == Lookup(t) \/ Missing(t) \/ Clock(t) \/ Read(t) \/ Emit(t) \/ DeleteEntry(t)

Next == Tick \/ \E t \in Threads : Entry(t) \/ Exit(t) \/ Vanish(t)

Spec == Init /\ [][Next]_vars
-----------------------------------------------------------------------------
(* Properties                                                              *)

(* A return program measures the call that returns and no other: when that *)
(* call's time was stored and not overwritten by a nested call, the lookup *)
(* finds it and the latency is the time since that very call began; when   *)
(* it was not, no other call's time is taken for it.                       *)
MeasuresOwnCall ==
    \A r \in reports : /\ r.found <=> r.tracked
                       /\ r.found => r.latency = r.own

(* So it is for the pairs that key the map by thread.                      *)
ThreadPairsExact == handler.byThread => MeasuresOwnCall

(* Why it holds for them: the entry under a thread is the thread's own.    *)
(* It is there exactly when the innermost call is tracked, no other thread *)
(* touches it, and no pointer to it outlives it.                           *)
OwnEntryOf(t) ==
    /\ run[t].next \in {"idle", "clock", "read"} /\ stack[t] # <<>> =>
          /\ entry[t] # NoElem <=> Innermost(t).tracked
          /\ entry[t] # NoElem => value[entry[t]] = Innermost(t).start
    /\ run[t].next \in {"clock", "read"} => run[t].ptr = entry[t]
    /\ run[t].next = "report" /\ handler.deleteFirst => entry[t] = NoElem
    /\ \A i \in 1..Len(stack[t]) - 1 : ~stack[t][i].tracked

OwnEntry == \A t \in Threads : OwnEntryOf(t)

PairInv == OneOwner /\ (handler.byThread => OwnEntry /\ MeasuresOwnCall)

(* No time is left behind: the map holds one for a thread only while the   *)
(* thread is in the function, or if it was killed there.  Else entries     *)
(* pile up until the map is full and calls go unmeasured.                  *)
NoOrphan ==
    \A k \in Keys : entry[k] # NoElem =>
        \E t \in Threads : KeyOf(t) = k /\ (stack[t] # <<>> \/ t \in gone)
=============================================================================
