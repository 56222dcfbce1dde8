----------------------- MODULE ResizableParallelRunner -----------------------
(***************************************************************************)
(* The pool of lib/threads/resizable_parallel_runner.cc.  The thread that  *)
(* owns the runner calls Run() and SetNumThreads(), one after the other,   *)
(* and takes part in the work as thread id 0; the worker with index i is   *)
(* thread id i + 1.  What runs under state_mutex_ is one action, and so is *)
(* next_task_++.  Threads at "waiting" are the waiters of                  *)
(* workers_can_proceed_, thread 0 at "asleep" that of work_done_.          *)
(***************************************************************************)
EXTENDS Integers, FiniteSets

CONSTANTS MaxWorkers,   \* bound on the size of the pool
          Modulus,      \* 2^32 for uint32_t
          Ranges        \* pairs <<start, end>> to call Run with

ASSUME MaxWorkersAssumption == MaxWorkers \in Nat
ASSUME ModulusAssumption == Modulus \in Nat /\ Modulus > MaxWorkers + 1
ASSUME RangesAssumption == Ranges \subseteq (0..Modulus-1) \X (0..Modulus-1)

UInt == 0..Modulus-1
Threads == 0..MaxWorkers
Workers == 1..MaxWorkers      \* as thread ids
NoTask == -1

VARIABLES
  workers_,               \* the size of the vector of threads
  num_desired_workers_, max_running_workers_, num_running_workers_,
  work_available_, next_task_, end_task_,
  pc,                     \* where each thread is
  task,                   \* the task each thread took last
  num,                    \* argument of SetNumThreads(), minus thread 0
  start, limit, ret       \* range start, init()'s argument, last return code

control == <<num_desired_workers_, max_running_workers_, num_running_workers_,
             work_available_>>
vars == <<workers_, control, next_task_, end_task_, pc, task, num, start, limit,
          ret>>

OwnerPC == {"idle", "single", "singleTask", "singleDone", "next", "task",
            "last", "check", "asleep", "resize"}
WorkerPC == {"none", "loop", "waiting", "next", "task", "last", "exited"}
Dequeuing == {"next", "task", "last"}

TypeOK ==
  /\ workers_ \in 0..MaxWorkers
  /\ num_desired_workers_ \in 0..MaxWorkers
  /\ max_running_workers_ \in UInt
  /\ num_running_workers_ \in 0..MaxWorkers+1
  /\ work_available_ \in BOOLEAN
  /\ next_task_ \in UInt /\ end_task_ \in UInt
  /\ pc \in [Threads -> OwnerPC \cup WorkerPC]
  /\ pc[0] \in OwnerPC /\ \A w \in Workers : pc[w] \in WorkerPC
  /\ task \in [Threads -> UInt]
  /\ num \in 0..MaxWorkers
  /\ start \in UInt /\ limit \in UInt
  /\ ret \in {0, -1}

-----------------------------------------------------------------------------
Inc32(a) == IF a + 1 = Modulus THEN 0 ELSE a + 1
Sub32(a, b) == IF a >= b THEN a - b ELSE a - b + Modulus
MinOf(a, b) == IF a < b THEN a ELSE b

Init ==
  /\ workers_ = 0
  /\ num_desired_workers_ = 0
  /\ max_running_workers_ = 0
  /\ num_running_workers_ = 0
  /\ work_available_ = FALSE
  /\ next_task_ = 0 /\ end_task_ = 0
  /\ pc = [th \in Threads |-> IF th = 0 THEN "idle" ELSE "none"]
  /\ task = [th \in Threads |-> 0]
  /\ num = 0
  /\ start = 0 /\ limit = 0
  /\ ret = 0

\* workers_can_proceed_.notify_all() or work_done_.notify_all().
Notify(f, from, to) == [th \in DOMAIN f |-> IF f[th] = from THEN to ELSE f[th]]

\* Run(), for a single task: init(), then func() on the calling thread.
RunSingle ==
  /\ pc[0] = "idle"
  /\ \E r \in Ranges :
       /\ Inc32(r[1]) = r[2]
       /\ \/ ret' = -1 /\ UNCHANGED <<pc, start, limit>>      \* init() fails
          \/ /\ pc' = [pc EXCEPT ![0] = "single"]
             /\ start' = r[1]
             /\ limit' = 1
             /\ UNCHANGED ret
  /\ UNCHANGED <<workers_, control, next_task_, end_task_, task, num>>

SingleBegin ==
  /\ pc[0] = "single"
  /\ pc' = [pc EXCEPT ![0] = "singleTask"]
  /\ task' = [task EXCEPT ![0] = start]
  /\ UNCHANGED <<workers_, control, next_task_, end_task_, num, start, limit,
                 ret>>

SingleEnd ==
  /\ pc[0] = "singleTask"
  /\ pc' = [pc EXCEPT ![0] = "singleDone"]
  /\ task' = [task EXCEPT ![0] = 0]
  /\ UNCHANGED <<workers_, control, next_task_, end_task_, num, start, limit,
                 ret>>

\* Run() returns.
Return ==
  /\ pc' = [pc EXCEPT ![0] = "idle"]
  /\ start' = 0 /\ limit' = 0
  /\ ret' = 0

SingleReturn ==
  /\ pc[0] = "singleDone"
  /\ Return
  /\ UNCHANGED <<workers_, control, next_task_, end_task_, task, num>>

HelpersWanted_OneMore(r) == Sub32(r[2], r[1])    \* faulty: thread 0 forgotten
HelpersWanted(r) == Sub32(Sub32(r[2], r[1]), 1)

CountOwner_Forgotten == num_running_workers_     \* faulty
CountOwner == num_running_workers_ + 1

\* Run(), otherwise: init() and the block that publishes the range.
RunMany ==
  /\ pc[0] = "idle"
  /\ \E r \in Ranges :
       /\ Inc32(r[1]) # r[2]
       /\ \/ ret' = -1       \* init() fails
             /\ UNCHANGED <<control, next_task_, end_task_, pc, start, limit>>
          \/ /\ limit' = MinOf(workers_ + 1, Sub32(r[2], r[1]))
             /\ max_running_workers_' = HelpersWanted(r)
             /\ start' = r[1]
             /\ next_task_' = r[1]
             /\ end_task_' = r[2]
             /\ work_available_' = TRUE
             /\ num_running_workers_' = CountOwner
             /\ pc' = [Notify(pc, "waiting", "loop") EXCEPT ![0] = "next"]
             /\ UNCHANGED <<num_desired_workers_, ret>>
  /\ UNCHANGED <<workers_, task, num>>

\* DequeueTasks(): task = next_task_++.
TakeTask(th) ==
  /\ pc[th] = "next"
  /\ task' = [task EXCEPT ![th] = next_task_]
  /\ next_task_' = Inc32(next_task_)
  /\ pc' = [pc EXCEPT ![th] = IF next_task_ >= end_task_ THEN "last" ELSE "task"]
  /\ UNCHANGED <<workers_, control, end_task_, num, start, limit, ret>>

\* DequeueTasks(): func() returns.
FinishTask(th) ==
  /\ pc[th] = "task"
  /\ task' = [task EXCEPT ![th] = 0]
  /\ pc' = [pc EXCEPT ![th] = "next"]
  /\ UNCHANGED <<workers_, control, next_task_, end_task_, num, start, limit,
                 ret>>

\* work_done_.notify_all() by the last thread to leave.
NotifyDone_Never(running) == pc                  \* faulty
NotifyDone(running) == IF running = 0 THEN Notify(pc, "asleep", "check") ELSE pc

\* DequeueTasks(): the thread found no task left.
LeaveDequeue(th) ==
  /\ pc[th] = "last"
  /\ num_running_workers_' = num_running_workers_ - 1
  /\ work_available_' = FALSE
  /\ pc' = [NotifyDone(num_running_workers_ - 1)
              EXCEPT ![th] = IF th = 0 THEN "check" ELSE "loop"]
  /\ task' = [task EXCEPT ![th] = 0]
  /\ UNCHANGED <<workers_, num_desired_workers_, max_running_workers_,
                 next_task_, end_task_, num, start, limit, ret>>

\* One iteration of the loop at the end of Run().
CheckDone ==
  /\ pc[0] = "check"
  /\ \/ /\ num_running_workers_ # 0
        /\ pc' = [pc EXCEPT ![0] = "asleep"]
        /\ UNCHANGED <<start, limit, ret>>
     \/ /\ num_running_workers_ = 0
        /\ Return
  /\ UNCHANGED <<workers_, control, next_task_, end_task_, task, num>>

\* One iteration of WorkerBody(), up to the wait or to DequeueTasks().
WorkerBody(w) ==
  /\ pc[w] = "loop"
  /\ \/ /\ w - 1 >= num_desired_workers_
        /\ pc' = [pc EXCEPT ![w] = "exited"]
        /\ UNCHANGED num_running_workers_
     \/ /\ w - 1 < num_desired_workers_
        /\ ~work_available_ \/ w - 1 >= max_running_workers_
        /\ pc' = [pc EXCEPT ![w] = "waiting"]
        /\ UNCHANGED num_running_workers_
     \/ /\ w - 1 < num_desired_workers_
        /\ work_available_ /\ w - 1 < max_running_workers_
        /\ pc' = [pc EXCEPT ![w] = "next"]
        /\ num_running_workers_' = num_running_workers_ + 1
  /\ UNCHANGED <<workers_, num_desired_workers_, max_running_workers_,
                 work_available_, next_task_, end_task_, task, num, start, limit,
                 ret>>

\* SetNumThreads(n), up to the end of its block under the mutex.  The
\* destructor is SetNumThreads(0).
SetNumThreads(n) ==
  /\ pc[0] = "idle"
  /\ num' = IF n > 0 THEN n - 1 ELSE 0
  /\ num_desired_workers_' = num'
  /\ pc' = [Notify(pc, "waiting", "loop") EXCEPT ![0] = "resize"]
  /\ UNCHANGED <<workers_, max_running_workers_, num_running_workers_,
                 work_available_, next_task_, end_task_, task, start, limit, ret>>

Joined_Detached == TRUE        \* faulty: threads are dropped without join()
Joined == \A w \in Workers : num < w /\ w <= workers_ => pc[w] = "exited"

\* SetNumThreads(), the rest: spawn the missing workers, or join the
\* superfluous ones when they have exited.
Resize ==
  /\ pc[0] = "resize"
  /\ Joined
  /\ workers_' = num
  /\ pc' = [th \in Threads |->
              CASE th = 0 -> "idle"
                [] th > workers_ /\ th <= num -> "loop"
                [] th > num /\ pc[th] = "exited" -> "none"
                [] OTHER -> pc[th]]
  /\ UNCHANGED <<control, next_task_, end_task_, task, num, start, limit, ret>>

\* The waits are inside loops that look at the state again.
SpuriousWakeup(th) ==
  /\ pc' = [pc EXCEPT ![th] = IF th = 0 THEN "check" ELSE "loop"]
  /\ pc[th] = IF th = 0 THEN "asleep" ELSE "waiting"
  /\ UNCHANGED <<workers_, control, next_task_, end_task_, task, num, start,
                 limit, ret>>

-----------------------------------------------------------------------------
OwnerCall == \/ RunSingle \/ RunMany
             \/ \E n \in 0..MaxWorkers+1 : SetNumThreads(n)

OwnerStep == \/ SingleBegin \/ SingleEnd \/ SingleReturn \/ TakeTask(0)
             \/ FinishTask(0) \/ LeaveDequeue(0) \/ CheckDone \/ Resize

WorkerStep(w) == \/ WorkerBody(w) \/ TakeTask(w) \/ FinishTask(w)
                 \/ LeaveDequeue(w)

Next == \/ OwnerCall \/ OwnerStep
        \/ \E w \in Workers : WorkerStep(w)
        \/ \E th \in Threads : SpuriousWakeup(th)

Spec == Init /\ [][Next]_vars

\* Every thread that can take a step is scheduled eventually and func()
\* returns; the owner need not call anything.
Fairness == /\ WF_vars(OwnerStep)
            /\ \A w \in Workers : WF_vars(WorkerStep(w))

FairSpec == Spec /\ Fairness

-----------------------------------------------------------------------------
(* What the runner promises to its owner. *)

\* A call of Run() over a non-empty range is under way.
Single == {"single", "singleTask", "singleDone"}
Running == \/ pc[0] \in Single
           \/ /\ pc[0] \in {"next", "task", "last", "check", "asleep"}
              /\ start < end_task_

Promise == INSTANCE ParallelRun WITH
  Tasks <- UInt,
  Threads <- Threads,
  NoTask <- NoTask,
  phase <- IF Running THEN "running" ELSE "idle",
  limit <- IF Running THEN limit ELSE 0,
  pending <- CASE pc[0] = "single" -> {start}
               [] Running /\ pc[0] \notin Single
                    -> {t \in start..end_task_-1 : t >= next_task_}
               [] OTHER -> {},
  executing <- [th \in Threads |->
                  IF pc[th] \in {"task", "singleTask"} THEN task[th] ELSE NoTask],
  ret <- ret

\* The contract of parallel_runner.h: every task of the range is started once,
\* on a thread id below the number told to init(), and Run() returns after the
\* last one has returned, for any resizing of the pool between the calls.
RefinesParallelRun == Promise!Spec

\* The comment on num_running_workers_: it is the number of threads that are
\* executing tasks, counted from before their first access to next_task_ until
\* after their last one.
RunningCount ==
  num_running_workers_ = Cardinality({th \in Threads : pc[th] \in Dequeuing})

\* Between calls the vector workers_ holds exactly the threads that were asked
\* for: none is missing, and none that was told to quit is still alive.
PoolHasDesiredSize ==
  pc[0] = "idle" =>
    /\ workers_ = num_desired_workers_
    /\ \A w \in Workers : (pc[w] \in {"none", "exited"}) <=> (w > workers_)

\* No wake-up is lost: Run(), SetNumThreads() and the destructor return.
EveryCallReturns == (pc[0] # "idle") ~> (pc[0] = "idle")
=============================================================================
