---------------------------- MODULE ParallelRun ----------------------------
(***************************************************************************)
(* What one caller is promised by a JxlParallelRunner                      *)
(* (lib/include/jxl/parallel_runner.h): after init() succeeded with a      *)
(* number of threads, func() is called once for every task of the range,   *)
(* on a thread id below that number, and the runner returns only when all  *)
(* of those calls have returned.  A call that is refused runs nothing.     *)
(***************************************************************************)
EXTENDS Integers

CONSTANTS Tasks,      \* the numbers that a task can have
          Threads,    \* the thread ids a runner may ever use
          NoTask      \* "this thread runs no task of the caller"

VARIABLES phase,      \* "idle" outside of the runner, "running" inside
          limit,      \* the num_threads that init() was told
          pending,    \* tasks of the range that were not started
          executing,  \* for each thread id the task it runs for this caller
          ret         \* the code that the last call returned

vars == <<phase, limit, pending, executing, ret>>

Init == /\ phase = "idle"
        /\ limit = 0
        /\ pending = {}
        /\ executing = [th \in Threads |-> NoTask]
        /\ ret = 0

\* A call over a non-empty range was accepted.
Call == /\ phase = "idle"
        /\ phase' = "running"
        /\ pending' \in (SUBSET Tasks) \ {{}}
        /\ limit' \in Nat \ {0}
        /\ UNCHANGED <<executing, ret>>

\* init() failed, the range is reversed or the runner was re-entered.
Refuse == /\ phase = "idle"
          /\ ret' # 0
          /\ UNCHANGED <<phase, limit, pending, executing>>

\* The range is empty.
CallEmpty == /\ phase = "idle"
             /\ ret' = 0
             /\ UNCHANGED <<phase, limit, pending, executing>>

\* Thread th calls func() for a task that no thread took before.
Start(th) == /\ phase = "running"
             /\ th < limit
             /\ executing[th] = NoTask
             /\ \E t \in pending :
                  /\ executing' = [executing EXCEPT ![th] = t]
                  /\ pending' = pending \ {t}
             /\ UNCHANGED <<phase, limit, ret>>

\* func() returns; the thread may take up its next task in the same step.
Finish(th) == /\ executing[th] # NoTask
              /\ \/ /\ executing' = [executing EXCEPT ![th] = NoTask]
                    /\ UNCHANGED pending
                 \/ \E t \in pending :
                      /\ executing' = [executing EXCEPT ![th] = t]
                      /\ pending' = pending \ {t}
              /\ UNCHANGED <<phase, limit, ret>>

\* Everything ran; the code is non-zero when the call was overlapped.
Return == /\ phase = "running"
          /\ pending = {}
          /\ \A th \in Threads : executing[th] = NoTask
          /\ phase' = "idle"
          /\ limit' = 0
          /\ ret' \in Int
          /\ UNCHANGED <<pending, executing>>

Next == \/ Call \/ Refuse \/ CallEmpty \/ Return
        \/ \E th \in Threads : Start(th) \/ Finish(th)

Spec == Init /\ [][Next]_vars
=============================================================================
