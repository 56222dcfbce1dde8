-------------------- MODULE ResizableParallelRunner_proof --------------------
(***************************************************************************)
(* Proofs about ResizableParallelRunner, for any bound on the size of the  *)
(* pool, any ranges and any width of the task numbers.                     *)
(***************************************************************************)
EXTENDS ResizableParallelRunner, FiniteSetTheorems, TLAPS

\* Where thread 0 is between the start of a parallel Run() and its return.
InRun == {"next", "task", "last", "check", "asleep"}

Count(f, P) == Cardinality({th \in Threads : f[th] \in P})
MaxOf(a, b) == IF a < b THEN b ELSE a

\* Threads that will look at next_task_ again, and those that will not.
Able == {"next", "task"}
Late == {"last"}

\* Outside of Run() nobody dequeues and no worker can begin to; a worker that
\* dequeues was let in by both limits of WorkerBody().
DequeueInv ==
  /\ pc[0] \notin InRun => ~work_available_
  /\ pc[0] \in {"check", "asleep"} => ~work_available_
  /\ \A w \in Workers : pc[w] \in Dequeuing =>
       pc[0] \in InRun /\ w <= num_desired_workers_ /\ w <= max_running_workers_

\* Which threads exist, and which of them were told to quit.
PoolInv ==
  /\ num = num_desired_workers_
  /\ pc[0] # "resize" => workers_ = num
  /\ \A w \in Workers : /\ pc[w] = "none" <=> w > workers_
                        /\ pc[w] = "exited" => w > num

IInv == TypeOK /\ RunningCount /\ DequeueInv /\ PoolInv

\* The range, init()'s argument and the number of helpers belong together.
RangeInv ==
  /\ pc[0] = "single" => limit = 1
  /\ pc[0] \in InRun =>
       /\ <<start, end_task_>> \in Ranges
       /\ limit = MinOf(workers_ + 1, Sub32(end_task_, start))
       /\ max_running_workers_ = HelpersWanted(<<start, end_task_>>)
       /\ start <= next_task_
       /\ pc[0] \in {"last", "check", "asleep"} => end_task_ <= next_task_

\* Every thread moves next_task_ past the end once at most: the first one to
\* leave DequeueTasks() closes the door for the others.
OvershootInv ==
  pc[0] \in InRun =>
    IF work_available_
    THEN next_task_ <= MaxOf(start, end_task_) + Count(pc, Late)
    ELSE next_task_ + Count(pc, Able)
           <= MaxOf(start, end_task_) + MaxWorkers + 1

\* The task numbers above the range are enough for one per thread.
RangesLeaveRoom ==
  \A r \in Ranges : /\ r[1] + MaxWorkers + 1 < Modulus
                    /\ r[2] + MaxWorkers + 1 < Modulus

RInv == IInv /\ RangeInv /\ OvershootInv
-----------------------------------------------------------------------------
USE DEF UInt, Threads, Workers, OwnerPC, WorkerPC, Dequeuing
USE MaxWorkersAssumption, ModulusAssumption

\* How a count of threads changes when at most one of them moves.
LEMMA CountMove ==
  ASSUME NEW f, NEW g, NEW P, NEW th \in Threads,
         \A o \in Threads : o # th => (g[o] \in P <=> f[o] \in P)
  PROVE  /\ Count(f, P) \in 0..MaxWorkers+1
         /\ (f[th] \in P <=> g[th] \in P) => Count(g, P) = Count(f, P)
         /\ f[th] \notin P /\ g[th] \in P => Count(g, P) = Count(f, P) + 1
         /\ f[th] \in P /\ g[th] \notin P => Count(g, P) = Count(f, P) - 1
<1> DEFINE S(h) == {o \in Threads : h[o] \in P}
<1>1. IsFiniteSet(Threads) /\ Cardinality(Threads) = MaxWorkers + 1
  BY FS_Interval
<1>2. IsFiniteSet(S(f)) /\ IsFiniteSet(S(g))
  BY <1>1, FS_Subset
<1>3. Cardinality(S(f)) <= MaxWorkers + 1 /\ Cardinality(S(f)) \in Nat
  BY <1>1, FS_Subset, FS_CardinalityType
<1>4. (f[th] \in P <=> g[th] \in P) => S(g) = S(f)
  OBVIOUS
<1>5. f[th] \notin P /\ g[th] \in P => S(g) = S(f) \cup {th} /\ th \notin S(f)
  OBVIOUS
<1>6. f[th] \in P /\ g[th] \notin P => S(g) = S(f) \ {th} /\ th \in S(f)
  OBVIOUS
<1> HIDE DEF S
<1>7. f[th] \notin P /\ g[th] \in P => Cardinality(S(g)) = Cardinality(S(f)) + 1
  BY <1>2, <1>5, FS_AddElement
<1>8. f[th] \in P /\ g[th] \notin P => Cardinality(S(g)) = Cardinality(S(f)) - 1
  BY <1>2, <1>6, FS_RemoveElement
<1> QED BY <1>3, <1>4, <1>7, <1>8 DEF S, Count

\* When none is counted, none is there.
LEMMA CountZero ==
  ASSUME NEW f, NEW P, Count(f, P) = 0
  PROVE  \A th \in Threads : f[th] \notin P
<1> DEFINE S == {th \in Threads : f[th] \in P}
<1>1. IsFiniteSet(Threads) /\ S \subseteq Threads
  BY FS_Interval
<1>2. IsFiniteSet(S)
  BY <1>1, FS_Subset
<1>3. S = {}
  BY <1>2, FS_EmptySet DEF Count
<1> QED BY <1>3

\* uint32_t arithmetic stays in the type.
LEMMA ArithmeticType ==
  ASSUME NEW a \in UInt, NEW b \in UInt
  PROVE  Inc32(a) \in UInt /\ Sub32(a, b) \in UInt
BY DEF Inc32, Sub32
-----------------------------------------------------------------------------
(* The pool: one lemma per group of actions. *)

\* RunningCount in terms of Count.
LEMMA RunningIsCount == RunningCount <=> num_running_workers_ = Count(pc, Dequeuing)
BY DEF RunningCount, Count

LEMMA InitOK == Init => IInv
<1> SUFFICES ASSUME Init PROVE IInv
  OBVIOUS
<1>1. /\ pc \in [Threads -> OwnerPC \cup WorkerPC] /\ pc[0] = "idle"
      /\ \A w \in Workers : pc[w] = "none"
  BY DEF Init
<1>a. task \in [Threads -> UInt]
  BY DEF Init
<1>b. TypeOK
  <2>1. /\ workers_ = 0 /\ num_desired_workers_ = 0 /\ max_running_workers_ = 0
        /\ num_running_workers_ = 0 /\ work_available_ = FALSE
        /\ next_task_ = 0 /\ end_task_ = 0 /\ num = 0 /\ start = 0 /\ limit = 0
        /\ ret = 0
    BY DEF Init
  <2>2. work_available_ \in BOOLEAN
    BY <2>1
  <2>3. 0 \in UInt /\ 0 \in 0..MaxWorkers /\ 0 \in 0..MaxWorkers+1
    OBVIOUS
  <2> HIDE DEF UInt
  <2> QED BY <1>1, <1>a, <2>1, <2>2, <2>3 DEF TypeOK
<1>c. DequeueInv /\ PoolInv
  BY <1>1 DEF Init, DequeueInv, PoolInv, InRun
<1>2. {th \in Threads : pc[th] \in Dequeuing} = {}
  BY DEF Init
<1>3. RunningCount
  BY <1>2, FS_EmptySet DEF Init, RunningCount
<1> QED BY <1>b, <1>c, <1>3 DEF IInv

\* A step of thread 0 outside of the parallel part of Run().
LEMMA SingleSteps ==
  ASSUME IInv, RunSingle \/ SingleBegin \/ SingleEnd \/ SingleReturn
  PROVE  IInv'
<1>1. /\ UNCHANGED <<workers_, control, next_task_, end_task_, num>>
      /\ \/ UNCHANGED pc
         \/ \E l \in {"idle"} \cup Single : pc' = [pc EXCEPT ![0] = l]
      /\ pc[0] \in {"idle"} \cup Single
  BY DEF RunSingle, SingleBegin, SingleEnd, SingleReturn, Return, Single
<1>a. /\ pc' \in [Threads -> OwnerPC \cup WorkerPC]
      /\ pc'[0] \in {"idle"} \cup Single
      /\ \A w \in Workers : pc'[w] = pc[w]
  BY <1>1 DEF Single, IInv, TypeOK
<1>2. start' \in UInt /\ limit' \in UInt /\ ret' \in {0, -1}
  <2>1. CASE RunSingle
    <3>1. \A r \in Ranges : r[1] \in UInt
      BY RangesAssumption
    <3> QED BY <2>1, <3>1 DEF RunSingle, IInv, TypeOK
  <2>2. CASE SingleBegin \/ SingleEnd \/ SingleReturn
    BY <2>2 DEF SingleBegin, SingleEnd, SingleReturn, Return, IInv, TypeOK
  <2> QED BY <2>1, <2>2
<1>3. task' \in [Threads -> UInt]
  <2>1. /\ task \in [Threads -> UInt] /\ start \in UInt /\ 0 \in UInt
    BY DEF IInv, TypeOK
  <2>2. \/ UNCHANGED task
        \/ \E t \in UInt : task' = [task EXCEPT ![0] = t]
    BY <2>1 DEF RunSingle, SingleBegin, SingleEnd, SingleReturn
  <2> HIDE DEF UInt
  <2> QED BY <2>1, <2>2
<1>4. TypeOK'
  BY <1>1, <1>a, <1>2, <1>3 DEF IInv, TypeOK, control, Single
<1>5. RunningCount'
  <2>1. Count(pc', Dequeuing) = Count(pc, Dequeuing)
    <3>1. \A o \in Threads : o # 0 => (pc'[o] \in Dequeuing <=> pc[o] \in Dequeuing)
      BY <1>a
    <3>2. pc[0] \notin Dequeuing /\ pc'[0] \notin Dequeuing /\ 0 \in Threads
      BY <1>1, <1>a DEF Single
    <3> QED BY <3>1, <3>2, CountMove
  <2> QED BY <1>1, <2>1 DEF IInv, control, RunningCount, Count
<1>6. DequeueInv' /\ PoolInv'
  BY <1>1, <1>a DEF IInv, TypeOK, DequeueInv, PoolInv, control, Single, InRun
<1> QED BY <1>4, <1>5, <1>6 DEF IInv

\* Run() publishes a range.  Thread 0 is the first to be counted.
LEMMA RunManyStep ==
  ASSUME IInv, RunMany
  PROVE  IInv'
<1>1. CASE UNCHANGED <<control, next_task_, end_task_, pc, start, limit>> /\ ret' = -1
  BY <1>1 DEF RunMany, IInv, TypeOK, control, RunningCount, DequeueInv, PoolInv
<1>2. ASSUME NEW r \in Ranges,
             /\ limit' = MinOf(workers_ + 1, Sub32(r[2], r[1]))
             /\ max_running_workers_' = HelpersWanted(r)
             /\ start' = r[1]
             /\ next_task_' = r[1]
             /\ end_task_' = r[2]
             /\ work_available_' = TRUE
             /\ num_running_workers_' = CountOwner
             /\ pc' = [Notify(pc, "waiting", "loop") EXCEPT ![0] = "next"]
             /\ UNCHANGED <<num_desired_workers_, ret>>
      PROVE  IInv'
  <2>1. r[1] \in UInt /\ r[2] \in UInt
    BY RangesAssumption
  <2>2. /\ Sub32(r[2], r[1]) \in UInt /\ HelpersWanted(r) \in UInt
        /\ MinOf(workers_ + 1, Sub32(r[2], r[1])) \in UInt
    <3>b. 1 \in UInt
      OBVIOUS
    <3>c. Sub32(r[2], r[1]) \in UInt
      BY <2>1, ArithmeticType
    <3>1. Sub32(r[2], r[1]) \in UInt /\ 1 \in UInt
      BY <3>b, <3>c
    <3>a. workers_ + 1 \in UInt
      BY DEF IInv, TypeOK
    <3>2. HelpersWanted(r) \in UInt
      BY <3>1, ArithmeticType DEF HelpersWanted
    <3> QED BY <3>1, <3>2, <3>a DEF MinOf
  <2>3. /\ pc' \in [Threads -> OwnerPC \cup WorkerPC]
        /\ pc'[0] = "next" /\ pc[0] = "idle"
        /\ \A w \in Workers : pc'[w] = IF pc[w] = "waiting" THEN "loop" ELSE pc[w]
    BY <1>2 DEF RunMany, Notify, IInv, TypeOK
  <2>4. UNCHANGED <<workers_, task, num>>
    BY DEF RunMany
  <2>5. /\ \A w \in Workers : pc[w] \notin Dequeuing
        /\ \A w \in Workers : pc'[w] \notin Dequeuing
    BY <2>3 DEF IInv, DequeueInv, InRun
  <2>6. RunningCount'
    <3>1. \A o \in Threads : o # 0 => (pc'[o] \in Dequeuing <=> pc[o] \in Dequeuing)
      BY <2>5
    <3>2. pc[0] \notin Dequeuing /\ pc'[0] \in Dequeuing /\ 0 \in Threads
      BY <2>3
    <3>3. Count(pc', Dequeuing) = Count(pc, Dequeuing) + 1
      BY <3>1, <3>2, CountMove
    <3> QED BY <1>2, <3>3 DEF IInv, RunningCount, Count, CountOwner
  <2>7. num_running_workers_' = 1
    <3>1. {th \in Threads : pc[th] \in Dequeuing} = {}
      BY <2>3, <2>5
    <3>2. num_running_workers_ = 0
      BY <3>1, FS_EmptySet DEF IInv, RunningCount
    <3> QED BY <1>2, <3>2 DEF CountOwner
  <2>8. TypeOK'
    BY <1>2, <2>1, <2>2, <2>3, <2>4, <2>7 DEF IInv, TypeOK
  <2>9. DequeueInv' /\ PoolInv'
    BY <1>2, <2>3, <2>4, <2>5 DEF IInv, DequeueInv, PoolInv, InRun
  <2> QED BY <2>6, <2>8, <2>9 DEF IInv
<1> QED BY <1>1, <1>2 DEF RunMany
\* A thread takes a task or finishes one; its place in the count stays.
LEMMA TaskSteps ==
  ASSUME IInv, NEW th \in Threads, TakeTask(th) \/ FinishTask(th)
  PROVE  IInv'
<1>1. /\ UNCHANGED <<workers_, control, end_task_, num, start, limit, ret>>
      /\ pc[th] \in Dequeuing
      /\ \E l \in Dequeuing : pc' = [pc EXCEPT ![th] = l]
      /\ next_task_' = next_task_ \/ next_task_' = Inc32(next_task_)
      /\ \E t \in {0, next_task_} : task' = [task EXCEPT ![th] = t]
  BY DEF TakeTask, FinishTask
<1>2. /\ pc' \in [Threads -> OwnerPC \cup WorkerPC]
      /\ pc'[th] \in Dequeuing
      /\ \A o \in Threads : o # th => pc'[o] = pc[o]
  BY <1>1 DEF IInv, TypeOK
<1>3. next_task_' \in UInt /\ task' \in [Threads -> UInt]
  <2>1. next_task_ \in UInt /\ 0 \in UInt /\ task \in [Threads -> UInt]
    BY DEF IInv, TypeOK
  <2>2. next_task_' \in UInt
    BY <1>1, <2>1, ArithmeticType
  <2> HIDE DEF UInt
  <2>3. task' \in [Threads -> UInt]
    BY <1>1, <2>1
  <2> QED BY <2>2, <2>3
<1>4. TypeOK'
  <2>1. pc'[0] \in OwnerPC /\ \A w \in Workers : pc'[w] \in WorkerPC
    BY <1>2 DEF IInv, TypeOK
  <2> QED BY <1>1, <1>2, <1>3, <2>1 DEF IInv, TypeOK, control
<1>5. RunningCount'
  <2>1. \A o \in Threads : o # th => (pc'[o] \in Dequeuing <=> pc[o] \in Dequeuing)
    BY <1>2
  <2>2. Count(pc', Dequeuing) = Count(pc, Dequeuing)
    <3>1. pc[th] \in Dequeuing /\ pc'[th] \in Dequeuing
      BY <1>1, <1>2
    <3> QED BY <2>1, <3>1, CountMove
  <2> QED BY <1>1, <2>2 DEF IInv, control, RunningCount, Count
<1>6. DequeueInv' /\ PoolInv'
  BY <1>1, <1>2 DEF IInv, TypeOK, DequeueInv, PoolInv, control, InRun
<1> QED BY <1>4, <1>5, <1>6 DEF IInv

\* A thread leaves DequeueTasks() and is not counted any more.
LEMMA LeaveStep ==
  ASSUME IInv, NEW th \in Threads, LeaveDequeue(th)
  PROVE  IInv'
<1>1. /\ UNCHANGED <<workers_, num_desired_workers_, max_running_workers_,
                     next_task_, end_task_, num, start, limit, ret>>
      /\ pc[th] = "last" /\ work_available_' = FALSE
      /\ num_running_workers_' = num_running_workers_ - 1
      /\ task' = [task EXCEPT ![th] = 0]
  BY DEF LeaveDequeue
<1>2. /\ pc' \in [Threads -> OwnerPC \cup WorkerPC]
      /\ pc'[th] = IF th = 0 THEN "check" ELSE "loop"
      /\ \A o \in Threads : o # th =>
           pc'[o] = pc[o] \/ (pc[o] = "asleep" /\ pc'[o] = "check")
  BY <1>1 DEF LeaveDequeue, NotifyDone, Notify, IInv, TypeOK
<1>3. pc'[0] \in OwnerPC /\ \A w \in Workers : pc'[w] \in WorkerPC
  BY <1>2 DEF IInv, TypeOK
<1>4. \A w \in Workers : w # th => pc'[w] = pc[w]
  BY <1>2, <1>3
<1>5. RunningCount' /\ num_running_workers_' \in 0..MaxWorkers+1
  <2>a. \A o \in Threads : o # th => (pc'[o] \in Dequeuing <=> pc[o] \in Dequeuing)
    BY <1>2
  <2>b. pc[th] \in Dequeuing /\ pc'[th] \notin Dequeuing
    BY <1>1, <1>2
  <2>1. Count(pc', Dequeuing) = Count(pc, Dequeuing) - 1
    BY <2>a, <2>b, CountMove
  <2>2. Count(pc', Dequeuing) \in 0..MaxWorkers+1
    BY CountMove
  <2> QED BY <1>1, <2>1, <2>2 DEF IInv, RunningCount, Count
<1>6. TypeOK'
  <2>1. task' \in [Threads -> UInt]
    BY <1>1 DEF IInv, TypeOK
  <2> QED BY <1>1, <1>2, <1>3, <1>5, <2>1 DEF IInv, TypeOK
<1>7. pc[0] \in InRun /\ pc'[0] \in InRun
  BY <1>1, <1>2 DEF IInv, DequeueInv, InRun
<1>8. DequeueInv' /\ PoolInv'
  BY <1>1, <1>2, <1>4, <1>7 DEF IInv, TypeOK, DequeueInv, PoolInv, InRun
<1> QED BY <1>5, <1>6, <1>8 DEF IInv

\* Thread 0 goes to sleep, or finds the count 0: then nobody dequeues.
LEMMA CheckStep ==
  ASSUME IInv, CheckDone
  PROVE  IInv'
<1>1. /\ UNCHANGED <<workers_, control, next_task_, end_task_, task, num>>
      /\ pc[0] = "check"
      /\ \/ pc' = [pc EXCEPT ![0] = "asleep"]
         \/ num_running_workers_ = 0 /\ pc' = [pc EXCEPT ![0] = "idle"]
      /\ ret' \in {0, -1} /\ start' \in UInt /\ limit' \in UInt
  BY DEF CheckDone, Return, IInv, TypeOK
<1>2. /\ pc' \in [Threads -> OwnerPC \cup WorkerPC]
      /\ pc'[0] = "asleep" \/ (pc'[0] = "idle" /\ num_running_workers_ = 0)
      /\ \A w \in Workers : pc'[w] = pc[w]
  <2>1. pc \in [Threads -> OwnerPC \cup WorkerPC] /\ 0 \in Threads
    BY DEF IInv, TypeOK
  <2>2. CASE pc' = [pc EXCEPT ![0] = "asleep"]
    BY <2>1, <2>2
  <2>3. CASE num_running_workers_ = 0 /\ pc' = [pc EXCEPT ![0] = "idle"]
    BY <2>1, <2>3
  <2> QED BY <1>1, <2>2, <2>3
<1>3. TypeOK'
  BY <1>1, <1>2 DEF IInv, TypeOK, control
<1>4. RunningCount'
  <2>1. \A o \in Threads : o # 0 => (pc'[o] \in Dequeuing <=> pc[o] \in Dequeuing)
    BY <1>2
  <2>2. pc[0] \notin Dequeuing /\ pc'[0] \notin Dequeuing /\ 0 \in Threads
    BY <1>1, <1>2
  <2>3. Count(pc', Dequeuing) = Count(pc, Dequeuing)
    BY <2>1, <2>2, CountMove
  <2> QED BY <1>1, <2>3 DEF IInv, control, RunningCount, Count
<1>5. num_running_workers_ = 0 => \A w \in Workers : pc[w] \notin Dequeuing
  <2>1. num_running_workers_ = Count(pc, Dequeuing)
    BY DEF IInv, RunningCount, Count
  <2>2. num_running_workers_ = 0 => \A th \in Threads : pc[th] \notin Dequeuing
    BY <2>1, CountZero
  <2> QED BY <2>2
<1>6. DequeueInv' /\ PoolInv'
  BY <1>1, <1>2, <1>5 DEF IInv, TypeOK, DequeueInv, PoolInv, control, InRun
<1> QED BY <1>3, <1>4, <1>6 DEF IInv

\* A worker looks at the state under the mutex.
LEMMA WorkerBodyStep ==
  ASSUME IInv, NEW w \in Workers, WorkerBody(w)
  PROVE  IInv'
<1>1. /\ UNCHANGED <<workers_, num_desired_workers_, max_running_workers_,
                     work_available_, next_task_, end_task_, task, num, start,
                     limit, ret>>
      /\ pc[w] = "loop"
      /\ \/ /\ w > num_desired_workers_
            /\ pc' = [pc EXCEPT ![w] = "exited"]
            /\ UNCHANGED num_running_workers_
         \/ /\ pc' = [pc EXCEPT ![w] = "waiting"]
            /\ UNCHANGED num_running_workers_
         \/ /\ w <= num_desired_workers_ /\ w <= max_running_workers_
            /\ work_available_
            /\ pc' = [pc EXCEPT ![w] = "next"]
            /\ num_running_workers_' = num_running_workers_ + 1
  BY DEF WorkerBody, IInv, TypeOK
<1>2. /\ pc' \in [Threads -> OwnerPC \cup WorkerPC]
      /\ pc'[w] \in {"exited", "waiting", "next"}
      /\ pc'[w] = "exited" => w > num_desired_workers_
      /\ pc'[w] = "next" => /\ w <= num_desired_workers_
                            /\ w <= max_running_workers_ /\ work_available_
                            /\ num_running_workers_' = num_running_workers_ + 1
      /\ pc'[w] # "next" => num_running_workers_' = num_running_workers_
      /\ \A o \in Threads : o # w => pc'[o] = pc[o]
      /\ w \in Threads /\ w # 0
  BY <1>1 DEF IInv, TypeOK
<1>3. RunningCount' /\ num_running_workers_' \in 0..MaxWorkers+1
  <2>1. /\ pc'[w] = "next" => Count(pc', Dequeuing) = Count(pc, Dequeuing) + 1
        /\ pc'[w] # "next" => Count(pc', Dequeuing) = Count(pc, Dequeuing)
    <3>1. \A o \in Threads : o # w => (pc'[o] \in Dequeuing <=> pc[o] \in Dequeuing)
      BY <1>2
    <3>2. /\ pc[w] \notin Dequeuing /\ w \in Threads
          /\ (pc'[w] \in Dequeuing) <=> (pc'[w] = "next")
      BY <1>1, <1>2
    <3>3. CASE pc'[w] = "next"
      BY <3>1, <3>2, <3>3, CountMove
    <3>4. CASE pc'[w] # "next"
      BY <3>1, <3>2, <3>4, CountMove
    <3> QED BY <3>3, <3>4
  <2>2. Count(pc', Dequeuing) \in 0..MaxWorkers+1
    BY <1>2, CountMove
  <2> QED BY <1>2, <2>1, <2>2 DEF IInv, RunningCount, Count
<1>4. TypeOK'
  <2>1. pc'[0] \in OwnerPC /\ \A v \in Workers : pc'[v] \in WorkerPC
    BY <1>2 DEF IInv, TypeOK
  <2> QED BY <1>1, <1>2, <1>3, <2>1 DEF IInv, TypeOK
<1>5. pc'[0] = pc[0] /\ (pc'[w] = "next" => pc[0] \in InRun)
  BY <1>2 DEF IInv, DequeueInv
<1>6. DequeueInv'
  BY <1>1, <1>2, <1>5 DEF IInv, DequeueInv
<1>7. PoolInv'
  BY <1>1, <1>2, <1>5 DEF IInv, PoolInv
<1> QED BY <1>3, <1>4, <1>6, <1>7 DEF IInv
\* SetNumThreads() is called between runs, when nobody dequeues.
LEMMA SetNumThreadsStep ==
  ASSUME IInv, NEW n \in 0..MaxWorkers+1, SetNumThreads(n)
  PROVE  IInv'
<1>1. /\ UNCHANGED <<workers_, max_running_workers_, num_running_workers_,
                     work_available_, next_task_, end_task_, task, start,
                     limit, ret>>
      /\ num' \in 0..MaxWorkers /\ num_desired_workers_' = num'
      /\ pc[0] = "idle"
  BY DEF SetNumThreads
<1>2. /\ pc' \in [Threads -> OwnerPC \cup WorkerPC]
      /\ pc'[0] = "resize"
      /\ \A w \in Workers : pc'[w] = IF pc[w] = "waiting" THEN "loop" ELSE pc[w]
  BY DEF SetNumThreads, Notify, IInv, TypeOK
<1>3. \A w \in Workers : pc[w] \notin Dequeuing /\ pc'[w] \notin Dequeuing
  BY <1>1, <1>2 DEF IInv, DequeueInv, InRun
<1>4. TypeOK'
  <2>1. \A w \in Workers : pc'[w] \in WorkerPC
    BY <1>2 DEF IInv, TypeOK
  <2> QED BY <1>1, <1>2, <2>1 DEF IInv, TypeOK
<1>5. RunningCount'
  <2>1. \A th \in Threads : pc[th] \notin Dequeuing /\ pc'[th] \notin Dequeuing
    BY <1>1, <1>2, <1>3
  <2>2. {th \in Threads : pc[th] \in Dequeuing}
          = {th \in Threads : pc'[th] \in Dequeuing}
    BY <2>1
  <2> QED BY <1>1, <2>2 DEF IInv, RunningCount
<1>6. DequeueInv'
  BY <1>1, <1>2, <1>3 DEF IInv, DequeueInv, InRun
<1>7. PoolInv'
  <2>1. \A w \in Workers : pc[w] # "exited"
    BY <1>1 DEF IInv, PoolInv
  <2> QED BY <1>1, <1>2, <2>1 DEF IInv, PoolInv
<1> QED BY <1>4, <1>5, <1>6, <1>7 DEF IInv

\* The vector of threads gets the size that was asked for.
LEMMA ResizeStep ==
  ASSUME IInv, Resize
  PROVE  IInv'
<1>1. /\ UNCHANGED <<control, next_task_, end_task_, task, num, start, limit, ret>>
      /\ workers_' = num /\ pc[0] = "resize"
      /\ \A w \in Workers : num < w /\ w <= workers_ => pc[w] = "exited"
  BY DEF Resize, Joined
<1>2. workers_ \in 0..MaxWorkers /\ num \in 0..MaxWorkers
  BY DEF IInv, TypeOK
<1>3. /\ DOMAIN pc' = Threads
      /\ pc'[0] = "idle"
      /\ \A w \in Workers :
           /\ w > workers_ /\ w <= num => pc'[w] = "loop"
           /\ w > num /\ pc[w] = "exited" => pc'[w] = "none"
           /\ w > num /\ pc[w] # "exited" => pc'[w] = pc[w]
           /\ w <= workers_ /\ w <= num => pc'[w] = pc[w]
  <2>1. DOMAIN pc' = Threads /\ pc'[0] = "idle"
    <3>1. 0 \in Threads /\ ~(0 > workers_) /\ ~(0 > num)
      BY <1>2
    <3> QED BY <3>1 DEF Resize
  <2>2. ASSUME NEW w \in Workers
        PROVE  /\ w > workers_ /\ w <= num => pc'[w] = "loop"
               /\ w > num /\ pc[w] = "exited" => pc'[w] = "none"
               /\ w > num /\ pc[w] # "exited" => pc'[w] = pc[w]
               /\ w <= workers_ /\ w <= num => pc'[w] = pc[w]
    <3>1. w \in Threads /\ w # 0
      OBVIOUS
    <3>2. pc'[w] = CASE w > workers_ /\ w <= num -> "loop"
                     [] w > num /\ pc[w] = "exited" -> "none"
                     [] OTHER -> pc[w]
      BY <3>1 DEF Resize
    <3> QED BY <1>2, <3>2
  <2> QED BY <2>1, <2>2
<1>4. \A w \in Workers : /\ pc'[w] \in WorkerPC
                         /\ pc'[w] = "loop" \/ pc'[w] = "none" \/ pc'[w] = pc[w]
  BY <1>2, <1>3 DEF IInv, TypeOK
<1>5. pc' \in [Threads -> OwnerPC \cup WorkerPC]
  <2>1. pc' = [th \in Threads |-> pc'[th]]
    BY DEF Resize
  <2> QED BY <1>3, <1>4, <2>1
<1>6. TypeOK'
  BY <1>1, <1>2, <1>3, <1>4, <1>5 DEF IInv, TypeOK, control
<1>7. \A w \in Workers : pc[w] \notin Dequeuing /\ pc'[w] \notin Dequeuing
  BY <1>1, <1>4 DEF IInv, DequeueInv, InRun
<1>8. RunningCount'
  <2>1. \A th \in Threads : pc[th] \notin Dequeuing /\ pc'[th] \notin Dequeuing
    BY <1>1, <1>3, <1>7
  <2>2. {th \in Threads : pc[th] \in Dequeuing}
          = {th \in Threads : pc'[th] \in Dequeuing}
    BY <2>1
  <2> QED BY <1>1, <2>2 DEF IInv, RunningCount, control
<1>9. DequeueInv'
  BY <1>1, <1>3, <1>7 DEF IInv, DequeueInv, InRun, control
<1>10. PoolInv'
  <2>1. \A w \in Workers : (pc'[w] = "none" <=> w > num) /\ pc'[w] # "exited"
    <3>1. \A w \in Workers : /\ (pc[w] = "none") <=> (w > workers_)
                             /\ (pc[w] = "exited") => (w > num)
      BY DEF IInv, PoolInv
    <3> QED BY <1>1, <1>2, <1>3, <3>1
  <2> QED BY <1>1, <1>3, <2>1 DEF IInv, PoolInv, control
<1> QED BY <1>6, <1>8, <1>9, <1>10 DEF IInv

\* A wait returns without a notification.
LEMMA SpuriousStep ==
  ASSUME IInv, NEW th \in Threads, SpuriousWakeup(th)
  PROVE  IInv'
<1>1. /\ UNCHANGED <<workers_, control, next_task_, end_task_, task, num, start,
                     limit, ret>>
      /\ pc[th] \in {"asleep", "waiting"}
      /\ pc[th] = IF th = 0 THEN "asleep" ELSE "waiting"
  BY DEF SpuriousWakeup
<1>2. /\ pc' \in [Threads -> OwnerPC \cup WorkerPC]
      /\ pc'[th] = IF th = 0 THEN "check" ELSE "loop"
      /\ \A o \in Threads : o # th => pc'[o] = pc[o]
  BY DEF SpuriousWakeup, IInv, TypeOK
<1>3. TypeOK'
  <2>1. pc'[0] \in OwnerPC /\ \A v \in Workers : pc'[v] \in WorkerPC
    BY <1>2 DEF IInv, TypeOK
  <2> QED BY <1>1, <1>2, <2>1 DEF IInv, TypeOK, control
<1>4. RunningCount'
  <2>1. \A o \in Threads : o # th => (pc'[o] \in Dequeuing <=> pc[o] \in Dequeuing)
    BY <1>2
  <2>2. pc[th] \notin Dequeuing /\ pc'[th] \notin Dequeuing
    BY <1>1, <1>2
  <2>3. Count(pc', Dequeuing) = Count(pc, Dequeuing)
    BY <2>1, <2>2, CountMove
  <2> QED BY <1>1, <2>3 DEF IInv, control, RunningCount, Count
<1>5. DequeueInv' /\ PoolInv'
  BY <1>1, <1>2 DEF IInv, TypeOK, DequeueInv, PoolInv, control, InRun
<1> QED BY <1>3, <1>4, <1>5 DEF IInv

LEMMA NextKeepsIInv ==
  ASSUME IInv, [Next]_vars
  PROVE  IInv'
<1>1. CASE OwnerCall
  BY <1>1, SingleSteps, RunManyStep, SetNumThreadsStep DEF OwnerCall
<1>2. CASE OwnerStep
  <2>1. 0 \in Threads
    OBVIOUS
  <2> QED BY <1>2, <2>1, SingleSteps, TaskSteps, LeaveStep, CheckStep, ResizeStep
          DEF OwnerStep
<1>3. ASSUME NEW w \in Workers, WorkerStep(w) PROVE IInv'
  <2>1. w \in Threads
    OBVIOUS
  <2> QED BY <1>3, <2>1, WorkerBodyStep, TaskSteps, LeaveStep DEF WorkerStep
<1>4. ASSUME NEW th \in Threads, SpuriousWakeup(th) PROVE IInv'
  BY <1>4, SpuriousStep
<1>5. CASE UNCHANGED vars
  BY <1>5 DEF vars, control, IInv, TypeOK, RunningCount, DequeueInv, PoolInv
<1> QED BY <1>1, <1>2, <1>3, <1>4, <1>5 DEF Next

\* The inductive invariant of the pool.
THEOREM PoolInvariant == Spec => []IInv
<1>1. IInv /\ [Next]_vars => IInv'
  BY NextKeepsIInv
<1> QED BY InitOK, <1>1, PTL DEF Spec

\* The variables of ResizeableParallelRunner keep their types: in particular
\* num_running_workers_ never underflows and never exceeds the pool.
THEOREM TypeCorrect == Spec => []TypeOK
<1>1. IInv => TypeOK
  BY DEF IInv
<1> QED BY PoolInvariant, <1>1, PTL

\* num_running_workers_ is the number of threads between their first and their
\* last access to next_task_, which is what the wait at the end of Run() relies on.
THEOREM RunningThreadsCounted == Spec => []RunningCount
<1>1. IInv => RunningCount
  BY DEF IInv
<1> QED BY PoolInvariant, <1>1, PTL

\* Between calls of the owner exactly the threads that SetNumThreads() asked for
\* exist, and they are in workers_.
THEOREM PoolIsDesiredSize == Spec => []PoolHasDesiredSize
<1>1. IInv => PoolHasDesiredSize
  BY DEF IInv, TypeOK, PoolInv, PoolHasDesiredSize
<1> QED BY PoolInvariant, <1>1, PTL
-----------------------------------------------------------------------------
(* How far next_task_ runs past the end of the range. *)

\* Two disjoint groups of threads are no more than all threads.
LEMMA CountDisjoint ==
  ASSUME NEW f, NEW P, NEW Q, P \cap Q = {}
  PROVE  Count(f, P) + Count(f, Q) <= MaxWorkers + 1
<1> DEFINE S == {th \in Threads : f[th] \in P}
           T == {th \in Threads : f[th] \in Q}
<1>1. IsFiniteSet(Threads) /\ Cardinality(Threads) = MaxWorkers + 1
  BY FS_Interval
<1>2. S \cup T \subseteq Threads /\ S \cap T = {}
  OBVIOUS
<1>3. IsFiniteSet(S) /\ IsFiniteSet(T)
  BY <1>1, FS_Subset
<1>4. Cardinality(S) \in Nat /\ Cardinality(T) \in Nat
  BY <1>3, FS_CardinalityType
<1> HIDE DEF S, T
<1>5. Cardinality(S \cup T) = Cardinality(S) + Cardinality(T)
  <2>1. Cardinality(S \cup T)
          = Cardinality(S) + Cardinality(T) - Cardinality(S \cap T)
    BY <1>3, FS_Union
  <2>2. Cardinality(S \cap T) = 0
    BY <1>2, FS_EmptySet
  <2> QED BY <1>4, <2>1, <2>2
<1>6. Cardinality(S \cup T) <= MaxWorkers + 1
  BY <1>1, <1>2, FS_Subset
<1> QED BY <1>5, <1>6 DEF S, T, Count

\* A thread that is about to take a task finds room for one more.
LEMMA NoWrap ==
  ASSUME RangesLeaveRoom, RInv, NEW th \in Threads, pc[th] = "next"
  PROVE  /\ Inc32(next_task_) = next_task_ + 1
         /\ next_task_ \in Nat
         /\ pc[0] \in InRun
         /\ <<start, end_task_>> \in Ranges
         /\ start <= next_task_
<1>1. pc[0] \in InRun
  BY DEF RInv, IInv, DequeueInv, InRun
<1>2. /\ <<start, end_task_>> \in Ranges /\ start <= next_task_
  BY <1>1 DEF RInv, RangeInv
<1>3. next_task_ \in UInt /\ start \in UInt /\ end_task_ \in UInt
  BY DEF RInv, IInv, TypeOK
<1>4. MaxOf(start, end_task_) + MaxWorkers + 1 < Modulus
      /\ MaxOf(start, end_task_) \in Nat
  BY <1>2, <1>3 DEF MaxOf, RangesLeaveRoom
<1> DEFINE g == [pc EXCEPT ![th] = "last"]
<1>5. /\ g[th] = "last"
      /\ \A o \in Threads : o # th => g[o] = pc[o]
  BY DEF RInv, IInv, TypeOK
<1>6. /\ Count(g, Late) = Count(pc, Late) + 1
      /\ Count(pc, Late) \in 0..MaxWorkers+1
  <2>1. \A o \in Threads : o # th => (g[o] \in Late <=> pc[o] \in Late)
    BY <1>5 DEF Able, Late
  <2>2. pc[th] \notin Late /\ g[th] \in Late
    BY <1>5 DEF Able, Late
  <2> HIDE DEF g
  <2> QED BY <2>1, <2>2, CountMove
<1>7. Count(g, Late) \in 0..MaxWorkers+1
  BY CountMove
<1>8. /\ Count(pc, Able) \in 0..MaxWorkers+1
      /\ Count(pc, Able) # 0
  <2>1. Count(pc, Able) \in 0..MaxWorkers+1
    BY CountMove
  <2>2. Count(pc, Able) = 0 => pc[th] \notin Able
    BY CountZero
  <2> QED BY <2>1, <2>2 DEF Able
<1> HIDE DEF g
<1>9. next_task_ + 1 <= MaxOf(start, end_task_) + MaxWorkers + 1
  BY <1>1, <1>3, <1>4, <1>6, <1>7, <1>8 DEF RInv, OvershootInv
<1> QED BY <1>1, <1>2, <1>3, <1>4, <1>9 DEF Inc32

\* A thread takes a task or finishes one.
LEMMA TaskStepsRange ==
  ASSUME RangesLeaveRoom, RInv, IInv', NEW th \in Threads,
         TakeTask(th) \/ FinishTask(th)
  PROVE  RangeInv' /\ OvershootInv'
<1>1. /\ UNCHANGED <<workers_, control, end_task_, start, limit>>
      /\ DOMAIN pc = Threads
      /\ next_task_ \in Nat /\ end_task_ \in Nat /\ start \in Nat
  BY DEF TakeTask, FinishTask, RInv, IInv, TypeOK
<1>2. pc[0] \in InRun
  BY DEF RInv, IInv, DequeueInv, InRun, TakeTask, FinishTask
<1>3. /\ \A o \in Threads : o # th => pc'[o] = pc[o]
      /\ pc[th] \in Able /\ pc'[th] \in Dequeuing
  BY <1>1 DEF TakeTask, FinishTask, Able, Late
<1>4. CASE pc'[th] = "last"
  <2>1. TakeTask(th)
    BY <1>1, <1>4 DEF FinishTask
  <2>2. next_task_' = next_task_ + 1 /\ next_task_ >= end_task_
    BY <1>1, <1>4, <2>1, NoWrap DEF TakeTask
  <2>3. RangeInv'
    BY <1>1, <1>2, <1>3, <1>4, <2>2 DEF RInv, RangeInv, InRun, control
  <2>4. /\ Count(pc', Late) = Count(pc, Late) + 1
        /\ Count(pc, Late) \in Nat
    <3>1. \A o \in Threads : o # th => (pc'[o] \in Late <=> pc[o] \in Late)
      BY <1>3 DEF Able, Late
    <3>2. pc[th] \notin Late /\ pc'[th] \in Late
      BY <1>3, <1>4 DEF Able, Late
    <3> QED BY <3>1, <3>2, CountMove
  <2>5. /\ Count(pc', Able) = Count(pc, Able) - 1
        /\ Count(pc, Able) \in Nat
    <3>1. \A o \in Threads : o # th =>
            (pc'[o] \in Able <=> pc[o] \in Able)
      BY <1>3 DEF Able, Late
    <3>2. pc[th] \in Able /\ pc'[th] \notin Able
      BY <1>3, <1>4 DEF Able, Late
    <3> QED BY <3>1, <3>2, CountMove
  <2>6. MaxOf(start, end_task_) \in Nat
    BY <1>1 DEF MaxOf
  <2>7. OvershootInv'
    BY <1>1, <1>2, <2>2, <2>4, <2>5, <2>6 DEF RInv, OvershootInv, control, MaxOf
  <2> QED BY <2>3, <2>7
<1>5. CASE pc'[th] # "last"
  <2>1. \/ next_task_' = next_task_
        \/ next_task_' = next_task_ + 1 /\ next_task_ < end_task_
    <3>1. CASE FinishTask(th)
      BY <3>1 DEF FinishTask
    <3>2. CASE TakeTask(th)
      BY <1>1, <1>5, <3>2, NoWrap DEF TakeTask
    <3> QED BY <3>1, <3>2
  <2>2. RangeInv'
    BY <1>1, <1>2, <1>3, <1>5, <2>1 DEF RInv, RangeInv, InRun, control
  <2>3. /\ Count(pc', Late) = Count(pc, Late)
        /\ Count(pc, Late) \in Nat
    <3>1. \A o \in Threads : o # th => (pc'[o] \in Late <=> pc[o] \in Late)
      BY <1>3 DEF Able, Late
    <3>2. pc[th] \notin Late /\ pc'[th] \notin Late
      BY <1>3, <1>5 DEF Able, Late
    <3> QED BY <3>1, <3>2, CountMove
  <2>4. /\ Count(pc', Able) = Count(pc, Able)
        /\ Count(pc, Able) \in 0..MaxWorkers+1
    <3>1. \A o \in Threads : o # th =>
            (pc'[o] \in Able <=> pc[o] \in Able)
      BY <1>3 DEF Able, Late
    <3>2. pc[th] \in Able /\ pc'[th] \in Able
      BY <1>3, <1>5 DEF Able, Late
    <3> QED BY <3>1, <3>2, CountMove
  <2>5. MaxOf(start, end_task_) \in Nat /\ MaxOf(start, end_task_) >= end_task_
    BY <1>1 DEF MaxOf
  <2>6. OvershootInv'
    BY <1>1, <1>2, <2>1, <2>3, <2>4, <2>5 DEF RInv, OvershootInv, control
  <2> QED BY <2>2, <2>6
<1> QED BY <1>4, <1>5

\* The first thread to leave closes the door.
LEMMA LeaveStepRange ==
  ASSUME RInv, IInv', NEW th \in Threads, LeaveDequeue(th)
  PROVE  RangeInv' /\ OvershootInv'
<1>1. /\ UNCHANGED <<workers_, max_running_workers_, next_task_, end_task_,
                     start, limit>>
      /\ pc[th] = "last" /\ ~work_available_'
      /\ next_task_ \in Nat /\ end_task_ \in Nat /\ start \in Nat
  BY DEF LeaveDequeue, RInv, IInv, TypeOK
<1>2. /\ pc'[th] = IF th = 0 THEN "check" ELSE "loop"
      /\ \A o \in Threads : o # th =>
           pc'[o] = pc[o] \/ (pc[o] = "asleep" /\ pc'[o] = "check")
  BY <1>1 DEF LeaveDequeue, NotifyDone, Notify, RInv, IInv, TypeOK
<1>3. pc[0] \in InRun /\ pc'[0] \in InRun
  BY <1>1, <1>2 DEF RInv, IInv, DequeueInv, InRun
<1>4. pc'[0] \in {"last", "check", "asleep"} => pc[0] \in {"last", "check", "asleep"}
  BY <1>1, <1>2
<1>5. RangeInv'
  BY <1>1, <1>3, <1>4 DEF RInv, RangeInv, InRun
<1>6. Count(pc', Able) = Count(pc, Able)
  <2>1. \A o \in Threads : o # th =>
          (pc'[o] \in Able <=> pc[o] \in Able)
    BY <1>2 DEF Able, Late
  <2>2. pc[th] \notin Able /\ pc'[th] \notin Able
    BY <1>1, <1>2 DEF Able, Late
  <2> QED BY <2>1, <2>2, CountMove
<1>7. /\ Count(pc, Able) + Count(pc, Late) <= MaxWorkers + 1
  <2>1. Able \cap Late = {}
    BY DEF Able, Late
  <2> QED BY <2>1, CountDisjoint
<1>8. Count(pc, Able) \in Nat /\ Count(pc, Late) \in Nat
  BY CountMove
<1>9. MaxOf(start, end_task_) \in Nat
  BY <1>1 DEF MaxOf
<1>10. next_task_ + Count(pc, Able)
         <= MaxOf(start, end_task_) + MaxWorkers + 1
  BY <1>1, <1>3, <1>7, <1>8, <1>9 DEF RInv, OvershootInv
<1>11. OvershootInv'
  BY <1>1, <1>6, <1>10 DEF OvershootInv, MaxOf
<1> QED BY <1>5, <1>11
\* A step that neither touches the range nor lets a thread take one more task.
LEMMA RangeFrame ==
  ASSUME RInv, NEW th \in Threads,
         UNCHANGED <<workers_, max_running_workers_, work_available_, next_task_,
                     end_task_, start, limit>>,
         pc'[0] \in InRun, pc[0] \in InRun,
         pc'[0] \in {"last", "check", "asleep"}
           => pc[0] \in {"last", "check", "asleep"},
         \A o \in Threads : o # th => pc'[o] = pc[o],
         pc[th] \notin Able \cup Late,
         pc'[th] \notin Late /\ (pc'[th] \in Able => work_available_)
  PROVE  RangeInv' /\ OvershootInv'
<1>1. RangeInv'
  BY DEF RInv, RangeInv, InRun
<1>2. Count(pc', Late) = Count(pc, Late)
  <2>1. \A o \in Threads : o # th => (pc'[o] \in Late <=> pc[o] \in Late)
    OBVIOUS
  <2> QED BY <2>1, CountMove
<1>3. ~work_available_ => Count(pc', Able) = Count(pc, Able)
  <2>1. \A o \in Threads : o # th => (pc'[o] \in Able <=> pc[o] \in Able)
    OBVIOUS
  <2> QED BY <2>1, CountMove
<1>4. OvershootInv'
  BY <1>2, <1>3 DEF RInv, OvershootInv
<1> QED BY <1>1, <1>4

\* The steps outside of a parallel Run(), and the one that returns from it.
LEMMA OutsideRange ==
  ASSUME pc'[0] \notin InRun, pc'[0] = "single" => limit' = 1
  PROVE  RangeInv' /\ OvershootInv'
BY DEF RangeInv, OvershootInv

LEMMA RunManyRange ==
  ASSUME RInv, RunMany
  PROVE  RangeInv' /\ OvershootInv'
<1>0. pc[0] = "idle" /\ DOMAIN pc = Threads /\ 0 \in Threads
  BY DEF RunMany, RInv, IInv, TypeOK
<1>1. CASE UNCHANGED pc
  BY <1>0, <1>1, OutsideRange DEF InRun
<1>2. ASSUME NEW r \in Ranges,
             /\ limit' = MinOf(workers_ + 1, Sub32(r[2], r[1]))
             /\ max_running_workers_' = HelpersWanted(r)
             /\ start' = r[1]
             /\ next_task_' = r[1]
             /\ end_task_' = r[2]
             /\ work_available_' = TRUE
             /\ pc' = [Notify(pc, "waiting", "loop") EXCEPT ![0] = "next"]
      PROVE  RangeInv' /\ OvershootInv'
  <2>1. r = <<r[1], r[2]>> /\ r[1] \in UInt /\ r[2] \in UInt
    BY RangesAssumption
  <2>2. pc'[0] = "next" /\ workers_' = workers_
    BY <1>0, <1>2 DEF Notify, RunMany
  <2>3. RangeInv'
    BY <1>2, <2>1, <2>2 DEF RangeInv, InRun
  <2>4. Count(pc', Late) \in Nat
    <3>1. Count(pc', Late) \in 0..MaxWorkers+1
      BY <1>0, CountMove
    <3> QED BY <3>1
  <2>5. OvershootInv'
    BY <1>2, <2>1, <2>4 DEF OvershootInv, MaxOf
  <2> QED BY <2>3, <2>5
<1> QED BY <1>1, <1>2 DEF RunMany

LEMMA InitRange == Init => RangeInv /\ OvershootInv
BY DEF Init, RangeInv, OvershootInv, InRun

LEMMA NextKeepsRange ==
  ASSUME RangesLeaveRoom, RInv, [Next]_vars
  PROVE  RInv'
<1>1. IInv'
  BY NextKeepsIInv DEF RInv
<1>2. DOMAIN pc = Threads /\ 0 \in Threads
  BY DEF RInv, IInv, TypeOK
<1>3. CASE RunSingle \/ SingleBegin \/ SingleEnd \/ SingleReturn \/ Resize
           \/ \E n \in 0..MaxWorkers+1 : SetNumThreads(n)
  <2>1. pc'[0] \notin InRun /\ (pc'[0] = "single" => limit' = 1)
    <3>1. CASE RunSingle
      BY <1>2, <3>1 DEF RunSingle, InRun, RInv, RangeInv
    <3>2. CASE SingleBegin \/ SingleEnd \/ SingleReturn
      BY <1>2, <3>2 DEF SingleBegin, SingleEnd, SingleReturn, Return, InRun
    <3>3. CASE Resize
      <4>1. ~(0 > workers_) /\ ~(0 > num)
        BY DEF RInv, IInv, TypeOK
      <4>2. pc'[0] = "idle"
        BY <1>2, <3>3, <4>1 DEF Resize
      <4> QED BY <4>2 DEF InRun
    <3>4. ASSUME NEW n \in 0..MaxWorkers+1, SetNumThreads(n)
          PROVE  pc'[0] \notin InRun /\ (pc'[0] = "single" => limit' = 1)
      BY <1>2, <3>4 DEF SetNumThreads, Notify, InRun
    <3> QED BY <1>3, <3>1, <3>2, <3>3, <3>4
  <2> QED BY <1>1, <2>1, OutsideRange DEF RInv
<1>4. CASE RunMany
  BY <1>1, <1>4, RunManyRange DEF RInv
<1>5. ASSUME NEW th \in Threads, TakeTask(th) \/ FinishTask(th) PROVE RInv'
  BY <1>1, <1>5, TaskStepsRange DEF RInv
<1>6. ASSUME NEW th \in Threads, LeaveDequeue(th) PROVE RInv'
  BY <1>1, <1>6, LeaveStepRange DEF RInv
<1>7. CASE CheckDone
  <2>1. CASE pc' = [pc EXCEPT ![0] = "asleep"]
    <3>1. /\ pc[0] = "check" /\ pc'[0] = "asleep"
          /\ \A o \in Threads : o # 0 => pc'[o] = pc[o]
      BY <1>2, <1>7, <2>1 DEF CheckDone
    <3>2. UNCHANGED <<workers_, max_running_workers_, work_available_, next_task_,
                      end_task_, start, limit>>
      BY <1>2, <1>7, <2>1, <3>1 DEF CheckDone, control, Return
    <3>3. RangeInv' /\ OvershootInv'
      BY <1>2, <3>1, <3>2, RangeFrame DEF InRun, Able, Late
    <3> QED BY <1>1, <3>3 DEF RInv
  <2>2. CASE Return
    BY <1>1, <1>2, <2>2, OutsideRange DEF Return, InRun, RInv
  <2> QED BY <1>7, <2>1, <2>2 DEF CheckDone
<1>8. ASSUME NEW w \in Workers, WorkerBody(w) PROVE RInv'
  <2>1. /\ UNCHANGED <<workers_, max_running_workers_, work_available_, next_task_,
                       end_task_, start, limit>>
        /\ pc[w] = "loop" /\ pc'[w] \in {"exited", "waiting", "next"}
        /\ pc'[w] = "next" => work_available_
        /\ \A o \in Threads : o # w => pc'[o] = pc[o]
        /\ w \in Threads /\ w # 0
    BY <1>2, <1>8 DEF WorkerBody
  <2>2. CASE pc[0] \in InRun
    <3>1. RangeInv' /\ OvershootInv'
      BY <1>2, <2>1, <2>2, RangeFrame DEF Able, Late
    <3> QED BY <1>1, <3>1 DEF RInv
  <2>3. CASE pc[0] \notin InRun
    BY <1>1, <1>2, <2>1, <2>3, OutsideRange DEF RInv, RangeInv
  <2> QED BY <2>2, <2>3
<1>9. ASSUME NEW th \in Threads, SpuriousWakeup(th) PROVE RInv'
  <2>1. /\ UNCHANGED <<workers_, max_running_workers_, work_available_, next_task_,
                       end_task_, start, limit>>
        /\ pc[th] = IF th = 0 THEN "asleep" ELSE "waiting"
        /\ pc'[th] = IF th = 0 THEN "check" ELSE "loop"
        /\ \A o \in Threads : o # th => pc'[o] = pc[o]
    BY <1>2, <1>9 DEF SpuriousWakeup, control
  <2>2. CASE pc[0] \in InRun
    <3>1. /\ pc'[0] \in InRun
          /\ pc'[0] \in {"last", "check", "asleep"}
               => pc[0] \in {"last", "check", "asleep"}
      BY <1>2, <2>1, <2>2 DEF InRun
    <3>2. RangeInv' /\ OvershootInv'
      BY <2>1, <2>2, <3>1, RangeFrame DEF Able, Late
    <3> QED BY <1>1, <3>2 DEF RInv
  <2>3. CASE pc[0] \notin InRun
    <3>1. pc'[0] = pc[0]
      BY <1>2, <2>1, <2>3 DEF InRun
    <3> QED BY <1>1, <2>1, <2>3, <3>1, OutsideRange DEF RInv, RangeInv
  <2> QED BY <2>2, <2>3
<1>10. CASE UNCHANGED vars
  BY <1>1, <1>10 DEF vars, control, RInv, RangeInv, OvershootInv, Count
<1> QED BY <1>2, <1>3, <1>4, <1>5, <1>6, <1>7, <1>8, <1>9, <1>10
        DEF Next, OwnerCall, OwnerStep, WorkerStep

\* The counter of tasks never wraps around while a range is worked on.
THEOREM RangeInvariant ==
  ASSUME RangesLeaveRoom
  PROVE  Spec => []RInv
<1>1. Init => RInv
  BY InitOK, InitRange DEF RInv
<1>2. RInv /\ [Next]_vars => RInv'
  BY NextKeepsRange
<1> QED BY <1>1, <1>2, PTL DEF Spec
-----------------------------------------------------------------------------
(* The runner implements ParallelRun.  The variables of ParallelRun, as the *)
(* refinement mapping defines them:                                        *)

Busy == {"task", "singleTask"}
phaseBar == IF Running THEN "running" ELSE "idle"
limitBar == IF Running THEN limit ELSE 0
pendingBar == CASE pc[0] = "single" -> {start}
                [] Running /\ pc[0] \notin Single
                     -> {t \in start..end_task_-1 : t >= next_task_}
                [] OTHER -> {}
executingBar == [th \in Threads |->
                   IF pc[th] \in {"task", "singleTask"} THEN task[th] ELSE NoTask]

\* What the mapping gives outside of Run(), in a Run() of one task and in a
\* parallel one.
LEMMA BarsOutside ==
  ASSUME pc[0] \notin InRun, pc[0] \notin Single
  PROVE  phaseBar = "idle" /\ limitBar = 0 /\ pendingBar = {}
BY DEF phaseBar, limitBar, pendingBar, Running, InRun, Single

LEMMA BarsSingle ==
  ASSUME pc[0] \in Single
  PROVE  /\ phaseBar = "running" /\ limitBar = limit
         /\ pendingBar = IF pc[0] = "single" THEN {start} ELSE {}
BY DEF phaseBar, limitBar, pendingBar, Running, InRun, Single

LEMMA BarsParallel ==
  ASSUME pc[0] \in InRun
  PROVE  /\ phaseBar = IF start < end_task_ THEN "running" ELSE "idle"
         /\ limitBar = IF start < end_task_ THEN limit ELSE 0
         /\ pendingBar = IF start < end_task_
                         THEN {t \in start..end_task_-1 : t >= next_task_}
                         ELSE {}
BY DEF phaseBar, limitBar, pendingBar, Running, InRun, Single

\* The same for the state after a step.
LEMMA BarsAfter ==
  /\ pc'[0] \notin InRun /\ pc'[0] \notin Single
       => phaseBar' = "idle" /\ limitBar' = 0 /\ pendingBar' = {}
  /\ pc'[0] \in Single
       => /\ phaseBar' = "running" /\ limitBar' = limit'
          /\ pendingBar' = IF pc'[0] = "single" THEN {start'} ELSE {}
  /\ pc'[0] \in InRun
       => /\ phaseBar' = IF start' < end_task_' THEN "running" ELSE "idle"
          /\ limitBar' = IF start' < end_task_' THEN limit' ELSE 0
          /\ pendingBar' = IF start' < end_task_'
                           THEN {t \in start'..end_task_'-1 : t >= next_task_'}
                           ELSE {}
BY DEF phaseBar, limitBar, pendingBar, Running, InRun, Single

\* No thread begins or ends a task.
LEMMA ExecSame ==
  ASSUME \A o \in Threads : /\ pc'[o] \in Busy <=> pc[o] \in Busy
                            /\ pc[o] \in Busy => task'[o] = task[o]
  PROVE  executingBar' = executingBar
BY DEF executingBar, Busy

\* One thread begins a task.
LEMMA ExecStart ==
  ASSUME NEW th \in Threads, pc[th] \notin Busy, pc'[th] \in Busy,
         \A o \in Threads : o # th => pc'[o] = pc[o] /\ task'[o] = task[o]
  PROVE  /\ executingBar[th] = NoTask
         /\ executingBar' = [executingBar EXCEPT ![th] = task'[th]]
BY DEF executingBar, Busy

\* One thread ends a task.
LEMMA ExecFinish ==
  ASSUME NEW th \in Threads, pc[th] \in Busy, pc'[th] \notin Busy,
         task[th] \in UInt,
         \A o \in Threads : o # th => pc'[o] = pc[o] /\ task'[o] = task[o]
  PROVE  /\ executingBar[th] # NoTask
         /\ executingBar' = [executingBar EXCEPT ![th] = NoTask]
<1>1. task[th] # NoTask
  BY DEF NoTask
<1> QED BY <1>1 DEF executingBar, Busy

\* The actions of ParallelRun, in terms of the mapping.
LEMMA AbsStutter ==
  ASSUME phaseBar' = phaseBar, limitBar' = limitBar, pendingBar' = pendingBar,
         executingBar' = executingBar, ret' = ret
  PROVE  UNCHANGED Promise!vars
BY DEF Promise!vars, phaseBar, limitBar, pendingBar, executingBar

LEMMA AbsCall ==
  ASSUME phaseBar = "idle", phaseBar' = "running",
         pendingBar' \in (SUBSET UInt) \ {{}}, limitBar' \in Nat \ {0},
         executingBar' = executingBar, ret' = ret
  PROVE  Promise!Next
BY DEF Promise!Next, Promise!Call, phaseBar, limitBar, pendingBar, executingBar

LEMMA AbsRefuse ==
  ASSUME phaseBar = "idle", phaseBar' = phaseBar, limitBar' = limitBar,
         pendingBar' = pendingBar, executingBar' = executingBar,
         ret' = -1 \/ ret' = 0
  PROVE  Promise!Next
BY DEF Promise!Next, Promise!Refuse, Promise!CallEmpty, phaseBar, limitBar,
       pendingBar, executingBar

LEMMA AbsStart ==
  ASSUME NEW th \in Threads, phaseBar = "running", phaseBar' = phaseBar,
         limitBar' = limitBar, th < limitBar, executingBar[th] = NoTask,
         NEW t \in pendingBar, executingBar' = [executingBar EXCEPT ![th] = t],
         pendingBar' = pendingBar \ {t}, ret' = ret
  PROVE  Promise!Next
<1>1. Promise!Start(th)
  BY DEF Promise!Start, phaseBar, limitBar, pendingBar, executingBar
<1> QED BY <1>1 DEF Promise!Next

LEMMA AbsFinish ==
  ASSUME NEW th \in Threads, phaseBar' = phaseBar,
         limitBar' = limitBar, executingBar[th] # NoTask,
         executingBar' = [executingBar EXCEPT ![th] = NoTask],
         pendingBar' = pendingBar, ret' = ret
  PROVE  Promise!Next
<1>1. Promise!Finish(th)
  BY DEF Promise!Finish, phaseBar, limitBar, pendingBar, executingBar
<1> QED BY <1>1 DEF Promise!Next

LEMMA AbsReturn ==
  ASSUME phaseBar = "running", pendingBar = {}, phaseBar' = "idle",
         \A th \in Threads : executingBar[th] = NoTask,
         limitBar' = 0, pendingBar' = {}, executingBar' = executingBar, ret' = 0
  PROVE  Promise!Next
<1>0. pendingBar' = pendingBar
  OBVIOUS
<1>1. Promise!Return
  <2>1. ret' \in Int
    OBVIOUS
  <2> QED BY <1>0, <2>1
          DEF Promise!Return, phaseBar, limitBar, pendingBar, executingBar
<1> QED BY <1>1 DEF Promise!Next
LEMMA InitRefines == Init => Promise!Init
<1> SUFFICES ASSUME Init PROVE Promise!Init
  OBVIOUS
<1>1. phaseBar = "idle" /\ limitBar = 0 /\ pendingBar = {}
  BY BarsOutside DEF Init, InRun, Single
<1>2. executingBar = [th \in Threads |-> NoTask]
  BY DEF Init, executingBar
<1> QED BY <1>1, <1>2 DEF Promise!Init, Init, phaseBar, limitBar, pendingBar,
                          executingBar

\* Run() of one task.
LEMMA SingleRefines ==
  ASSUME RInv, RunSingle \/ SingleBegin \/ SingleEnd \/ SingleReturn
  PROVE  [Promise!Next]_(Promise!vars)
<1>1. /\ DOMAIN pc = Threads /\ DOMAIN task = Threads /\ 0 \in Threads
      /\ task \in [Threads -> UInt] /\ start \in UInt
  BY DEF RInv, IInv, TypeOK
<1>2. CASE RunSingle
  <2>1. CASE ret' = -1 /\ UNCHANGED <<pc, start, limit>>
    <3>1. phaseBar = "idle"
      BY <1>2, BarsOutside DEF RunSingle, InRun, Single
    <3>2. UNCHANGED <<phaseBar, limitBar, pendingBar, executingBar>>
      BY <1>2, <2>1 DEF RunSingle, phaseBar, limitBar, pendingBar, executingBar,
                        Running
    <3> QED BY <2>1, <3>1, <3>2, AbsRefuse
  <2>2. ASSUME NEW r \in Ranges, pc' = [pc EXCEPT ![0] = "single"],
               start' = r[1], limit' = 1, ret' = ret
        PROVE  Promise!Next
    <3>1. phaseBar = "idle"
      BY <1>2, BarsOutside DEF RunSingle, InRun, Single
    <3>2. pc'[0] = "single" /\ \A o \in Threads : o # 0 => pc'[o] = pc[o]
      BY <1>1, <2>2
    <3>3. phaseBar' = "running" /\ limitBar' = 1 /\ pendingBar' = {r[1]}
      BY <2>2, <3>2, BarsAfter DEF Single
    <3>4. r[1] \in UInt
      BY RangesAssumption
    <3>5. executingBar' = executingBar
      BY <1>2, <3>2, ExecSame DEF RunSingle, Busy
    <3> QED BY <2>2, <3>1, <3>3, <3>4, <3>5, AbsCall
  <2> QED BY <1>2, <2>1, <2>2 DEF RunSingle
<1>3. CASE SingleBegin
  <2>1. /\ pc[0] = "single" /\ pc'[0] = "singleTask"
        /\ \A o \in Threads : o # 0 => pc'[o] = pc[o] /\ task'[o] = task[o]
        /\ task'[0] = start
        /\ UNCHANGED <<start, limit, ret>>
    BY <1>1, <1>3 DEF SingleBegin
  <2>2. /\ phaseBar = "running" /\ limitBar = limit /\ pendingBar = {start}
    BY <2>1, BarsSingle DEF Single
  <2>3. /\ phaseBar' = "running" /\ limitBar' = limit /\ pendingBar' = {}
    BY <2>1, BarsAfter DEF Single
  <2>4. /\ executingBar[0] = NoTask
        /\ executingBar' = [executingBar EXCEPT ![0] = start]
    <3>1. pc[0] \notin Busy /\ pc'[0] \in Busy
      BY <2>1 DEF Busy
    <3> QED BY <1>1, <2>1, <3>1, ExecStart
  <2>5. limit = 1
    BY <2>1 DEF RInv, RangeInv
  <2>6. start \in pendingBar /\ pendingBar' = pendingBar \ {start} /\ 0 < limitBar
    BY <2>2, <2>3, <2>5
  <2> QED BY <1>1, <2>1, <2>2, <2>3, <2>4, <2>6, AbsStart
<1>4. CASE SingleEnd
  <2>1. /\ pc[0] = "singleTask" /\ pc'[0] = "singleDone"
        /\ \A o \in Threads : o # 0 => pc'[o] = pc[o] /\ task'[o] = task[o]
        /\ UNCHANGED <<start, limit, ret>>
    BY <1>1, <1>4 DEF SingleEnd
  <2>2. /\ phaseBar = "running" /\ limitBar = limit /\ pendingBar = {}
        /\ phaseBar' = "running" /\ limitBar' = limit /\ pendingBar' = {}
    BY <2>1, BarsSingle, BarsAfter DEF Single
  <2>3. /\ executingBar[0] # NoTask
        /\ executingBar' = [executingBar EXCEPT ![0] = NoTask]
    <3>1. pc[0] \in Busy /\ pc'[0] \notin Busy /\ task[0] \in UInt
      BY <1>1, <2>1 DEF Busy
    <3> QED BY <1>1, <2>1, <3>1, ExecFinish
  <2> QED BY <1>1, <2>1, <2>2, <2>3, AbsFinish
<1>5. CASE SingleReturn
  <2>1. /\ pc[0] = "singleDone" /\ pc'[0] = "idle" /\ ret' = 0 /\ task' = task
        /\ \A o \in Threads : o # 0 => pc'[o] = pc[o]
    BY <1>1, <1>5 DEF SingleReturn, Return
  <2>2. phaseBar = "running" /\ pendingBar = {}
    BY <2>1, BarsSingle DEF Single
  <2>3. phaseBar' = "idle" /\ limitBar' = 0 /\ pendingBar' = {}
    BY <2>1, BarsAfter DEF Single, InRun
  <2>4. executingBar' = executingBar
    BY <2>1, ExecSame DEF Busy
  <2>5. \A th \in Threads : executingBar[th] = NoTask
    <3>1. \A th \in Threads : pc[th] \notin Busy
      BY <2>1 DEF RInv, IInv, DequeueInv, TypeOK, InRun, Busy
    <3> QED BY <3>1 DEF executingBar, Busy
  <2> QED BY <2>1, <2>2, <2>3, <2>4, <2>5, AbsReturn
<1> QED BY <1>2, <1>3, <1>4, <1>5
\* The start of a parallel Run(): a call if the range holds a task, otherwise a
\* stutter, since nothing will be executed.
LEMMA RunManyRefines ==
  ASSUME RInv, RunMany
  PROVE  [Promise!Next]_(Promise!vars)
<1>1. /\ DOMAIN pc = Threads /\ 0 \in Threads /\ pc[0] = "idle" /\ task' = task
      /\ workers_ \in Nat
  BY DEF RInv, IInv, TypeOK, RunMany
<1>2. phaseBar = "idle" /\ limitBar = 0 /\ pendingBar = {}
  BY <1>1, BarsOutside DEF InRun, Single
<1>3. CASE ret' = -1 /\ UNCHANGED <<control, next_task_, end_task_, pc, start, limit>>
  <2>1. executingBar' = executingBar
    BY <1>1, <1>3, ExecSame
  <2>2. phaseBar' = "idle" /\ limitBar' = 0 /\ pendingBar' = {}
    BY <1>1, <1>3, BarsAfter DEF InRun, Single
  <2> QED BY <1>2, <1>3, <2>1, <2>2, AbsRefuse
<1>4. ASSUME NEW r \in Ranges,
             /\ limit' = MinOf(workers_ + 1, Sub32(r[2], r[1]))
             /\ start' = r[1]
             /\ next_task_' = r[1]
             /\ end_task_' = r[2]
             /\ pc' = [Notify(pc, "waiting", "loop") EXCEPT ![0] = "next"]
             /\ ret' = ret
      PROVE  [Promise!Next]_(Promise!vars)
  <2>1. r[1] \in UInt /\ r[2] \in UInt
    BY RangesAssumption
  <2>2. /\ pc'[0] = "next"
        /\ \A o \in Threads : o # 0 => \/ pc'[o] = pc[o]
                                       \/ pc[o] = "waiting" /\ pc'[o] = "loop"
    BY <1>1, <1>4 DEF Notify
  <2>3. executingBar' = executingBar
    BY <1>1, <2>2, ExecSame DEF Busy
  <2>4. CASE r[1] < r[2]
    <3>1. /\ phaseBar' = "running" /\ limitBar' = limit'
          /\ pendingBar' = {t \in r[1]..r[2]-1 : t >= r[1]}
      BY <1>4, <2>2, <2>4, BarsAfter DEF InRun
    <3>2. r[1] \in pendingBar' /\ pendingBar' \subseteq UInt
      BY <2>1, <2>4, <3>1
    <3>3. limit' \in Nat \ {0}
      BY <1>1, <1>4, <2>1, <2>4 DEF MinOf, Sub32
    <3> HIDE DEF UInt
    <3>4. pendingBar' \in (SUBSET UInt) \ {{}}
      BY <3>2
    <3> QED BY <1>2, <1>4, <2>3, <3>1, <3>3, <3>4, AbsCall
  <2>5. CASE ~(r[1] < r[2])
    <3>1. phaseBar' = "idle" /\ limitBar' = 0 /\ pendingBar' = {}
      BY <1>4, <2>2, <2>5, BarsAfter DEF InRun
    <3> QED BY <1>2, <1>4, <2>3, <3>1, AbsStutter
  <2> QED BY <2>4, <2>5
<1> QED BY <1>3, <1>4 DEF RunMany

\* A thread takes the next task of the range: the first of the pending ones.
LEMMA TakeRefines ==
  ASSUME RangesLeaveRoom, RInv, NEW th \in Threads, TakeTask(th)
  PROVE  [Promise!Next]_(Promise!vars)
<1>1. /\ DOMAIN pc = Threads /\ DOMAIN task = Threads
      /\ next_task_ \in UInt /\ end_task_ \in UInt /\ start \in UInt
      /\ workers_ \in Nat
  BY DEF RInv, IInv, TypeOK
<1>2. /\ pc[th] = "next"
      /\ pc'[th] = IF next_task_ >= end_task_ THEN "last" ELSE "task"
      /\ task'[th] = next_task_
      /\ \A o \in Threads : o # th => pc'[o] = pc[o] /\ task'[o] = task[o]
      /\ UNCHANGED <<end_task_, start, limit, ret>>
  BY <1>1 DEF TakeTask
<1>3. /\ next_task_' = next_task_ + 1 /\ pc[0] \in InRun /\ start <= next_task_
  BY <1>2, NoWrap DEF TakeTask
<1>4. pc'[0] \in InRun
  BY <1>2, <1>3 DEF InRun
<1>5. CASE next_task_ >= end_task_
  <2>1. pendingBar = {} /\ pendingBar' = {}
    <3>1. {t \in start..end_task_-1 : t >= next_task_} = {}
      BY <1>1, <1>5
    <3>2. {t \in start..end_task_-1 : t >= next_task_ + 1} = {}
      BY <1>1, <1>5
    <3> QED BY <1>2, <1>3, <1>4, <3>1, <3>2, BarsParallel, BarsAfter
  <2>2. phaseBar' = phaseBar /\ limitBar' = limitBar
    BY <1>2, <1>3, <1>4, BarsParallel, BarsAfter
  <2>3. executingBar' = executingBar
    <3>1. pc[th] \notin Busy /\ pc'[th] \notin Busy
      BY <1>2, <1>5 DEF Busy
    <3> QED BY <1>2, <3>1, ExecSame
  <2> QED BY <1>2, <2>1, <2>2, <2>3, AbsStutter
<1>6. CASE ~(next_task_ >= end_task_)
  <2>1. start < end_task_
    BY <1>1, <1>3, <1>6
  <2>2. /\ phaseBar = "running" /\ phaseBar' = "running"
        /\ limitBar = limit /\ limitBar' = limit
        /\ pendingBar = {t \in start..end_task_-1 : t >= next_task_}
        /\ pendingBar' = {t \in start..end_task_-1 : t >= next_task_ + 1}
    BY <1>2, <1>3, <1>4, <2>1, BarsParallel, BarsAfter
  <2>3. next_task_ \in pendingBar /\ pendingBar' = pendingBar \ {next_task_}
    BY <1>1, <1>3, <1>6, <2>2
  <2>4. /\ executingBar[th] = NoTask
        /\ executingBar' = [executingBar EXCEPT ![th] = next_task_]
    <3>1. pc[th] \notin Busy /\ pc'[th] \in Busy
      BY <1>2, <1>6 DEF Busy
    <3> QED BY <1>2, <3>1, ExecStart
  <2>5. th < limit
    <3>1. /\ limit = MinOf(workers_ + 1, Sub32(end_task_, start))
          /\ max_running_workers_ = HelpersWanted(<<start, end_task_>>)
      BY <1>3 DEF RInv, RangeInv
    <3>2. Sub32(end_task_, start) = end_task_ - start
      BY <1>1, <2>1 DEF Sub32
    <3>3. max_running_workers_ = end_task_ - start - 1
      BY <1>1, <2>1, <3>1, <3>2 DEF HelpersWanted, Sub32
    <3>4. th = 0 \/ (th <= workers_ /\ th <= max_running_workers_)
      <4>1. th # 0 => th \in Workers /\ pc[th] \in Dequeuing
        BY <1>2
      <4>2. pc[0] # "resize"
        BY <1>3 DEF InRun
      <4> QED BY <4>1, <4>2 DEF RInv, IInv, DequeueInv, PoolInv
    <3> QED BY <1>1, <2>1, <3>1, <3>2, <3>3, <3>4 DEF MinOf
  <2> QED BY <1>2, <2>2, <2>3, <2>4, <2>5, AbsStart
<1> QED BY <1>5, <1>6

\* A call of func() returns.
LEMMA FinishRefines ==
  ASSUME RInv, NEW th \in Threads, FinishTask(th)
  PROVE  [Promise!Next]_(Promise!vars)
<1>1. /\ DOMAIN pc = Threads /\ DOMAIN task = Threads /\ task[th] \in UInt
  BY DEF RInv, IInv, TypeOK
<1>2. /\ pc[th] = "task" /\ pc'[th] = "next"
      /\ \A o \in Threads : o # th => pc'[o] = pc[o] /\ task'[o] = task[o]
      /\ UNCHANGED <<end_task_, start, limit, ret, next_task_>>
  BY <1>1 DEF FinishTask
<1>3. pc[0] \in InRun
  BY <1>2 DEF RInv, IInv, DequeueInv, InRun
<1>4. pc'[0] \in InRun
  BY <1>2, <1>3 DEF InRun
<1>5. phaseBar' = phaseBar /\ limitBar' = limitBar /\ pendingBar' = pendingBar
  BY <1>2, <1>3, <1>4, BarsParallel, BarsAfter
<1>6. /\ executingBar[th] # NoTask
      /\ executingBar' = [executingBar EXCEPT ![th] = NoTask]
  <2>1. pc[th] \in Busy /\ pc'[th] \notin Busy
    BY <1>2 DEF Busy
  <2> QED BY <1>1, <1>2, <2>1, ExecFinish
<1> QED BY <1>2, <1>5, <1>6, AbsFinish
\* The end of Run(): the last thread has left, so that every task was taken and
\* has returned.
LEMMA CheckRefines ==
  ASSUME RInv, CheckDone
  PROVE  [Promise!Next]_(Promise!vars)
<1>1. /\ DOMAIN pc = Threads /\ 0 \in Threads /\ pc[0] = "check" /\ task' = task
      /\ next_task_ \in UInt /\ end_task_ \in UInt /\ start \in UInt
      /\ UNCHANGED <<next_task_, end_task_>>
  BY DEF RInv, IInv, TypeOK, CheckDone
<1>2. pc[0] \in InRun
  BY <1>1 DEF InRun
<1>3. CASE pc' = [pc EXCEPT ![0] = "asleep"] /\ UNCHANGED <<start, limit, ret>>
  <2>1. pc'[0] = "asleep" /\ \A o \in Threads : o # 0 => pc'[o] = pc[o]
    BY <1>1, <1>3
  <2>2. phaseBar' = phaseBar /\ limitBar' = limitBar /\ pendingBar' = pendingBar
    BY <1>1, <1>2, <1>3, <2>1, BarsParallel, BarsAfter DEF InRun
  <2>3. executingBar' = executingBar
    BY <1>1, <2>1, ExecSame DEF Busy
  <2> QED BY <1>3, <2>2, <2>3, AbsStutter
<1>4. CASE num_running_workers_ = 0 /\ Return
  <2>1. /\ pc'[0] = "idle" /\ ret' = 0
        /\ \A o \in Threads : o # 0 => pc'[o] = pc[o]
    BY <1>1, <1>4 DEF Return
  <2>2. executingBar' = executingBar
    BY <1>1, <2>1, ExecSame DEF Busy
  <2>3. \A th \in Threads : executingBar[th] = NoTask
    <3>1. Count(pc, Dequeuing) = 0
      BY <1>4 DEF RInv, IInv, RunningCount, Count
    <3>2. \A th \in Threads : pc[th] \notin Dequeuing
      BY <3>1, CountZero
    <3>3. \A th \in Threads : pc[th] \notin Busy
      BY <1>1, <3>2 DEF RInv, IInv, TypeOK, Busy
    <3> QED BY <3>3 DEF executingBar, Busy
  <2>4. phaseBar' = "idle" /\ limitBar' = 0 /\ pendingBar' = {}
    BY <2>1, BarsAfter DEF InRun, Single
  <2>5. pendingBar = {}
    <3>1. end_task_ <= next_task_
      BY <1>1, <1>2 DEF RInv, RangeInv
    <3>2. {t \in start..end_task_-1 : t >= next_task_} = {}
      BY <1>1, <3>1
    <3> QED BY <1>2, <3>2, BarsParallel
  <2>6. CASE start < end_task_
    BY <1>2, <2>1, <2>2, <2>3, <2>4, <2>5, <2>6, BarsParallel, AbsReturn
  <2>7. CASE ~(start < end_task_)
    <3>1. phaseBar = "idle" /\ limitBar = 0
      BY <1>2, <2>7, BarsParallel
    <3> QED BY <2>1, <2>2, <2>4, <2>5, <3>1, AbsRefuse
  <2> QED BY <2>6, <2>7
<1> QED BY <1>1, <1>3, <1>4 DEF CheckDone

\* The steps that the owner of the runner cannot see.
LEMMA QuietRefines ==
  ASSUME RInv,
         \/ \E th \in Threads : LeaveDequeue(th) \/ SpuriousWakeup(th)
         \/ \E w \in Workers : WorkerBody(w)
         \/ \E n \in 0..MaxWorkers+1 : SetNumThreads(n)
         \/ Resize
  PROVE  UNCHANGED Promise!vars
<1>1. DOMAIN pc = Threads /\ 0 \in Threads /\ pc[0] \in OwnerPC
      /\ \A w \in Workers : pc[w] \in WorkerPC
  BY DEF RInv, IInv, TypeOK
<1>2. /\ UNCHANGED <<next_task_, end_task_, start, limit, ret>>
      /\ \A th \in Threads : /\ pc'[th] \in Busy <=> pc[th] \in Busy
                             /\ pc[th] \in Busy => task'[th] = task[th]
      /\ \/ pc[0] \in InRun /\ pc'[0] \in InRun
         \/ pc[0] \notin InRun /\ pc'[0] = pc[0]
         \/ pc[0] \in {"idle", "resize"} /\ pc'[0] \in {"idle", "resize"}
  <2>1. ASSUME NEW th \in Threads, LeaveDequeue(th) PROVE <1>2!:
    <3>1. /\ pc'[th] = IF th = 0 THEN "check" ELSE "loop"
          /\ pc[th] = "last" /\ task' = [task EXCEPT ![th] = 0]
          /\ \A o \in Threads : o # th =>
               pc'[o] = pc[o] \/ (pc[o] = "asleep" /\ pc'[o] = "check")
      BY <1>1, <2>1 DEF LeaveDequeue, NotifyDone, Notify
    <3>2. pc[0] \in InRun /\ pc'[0] \in InRun
      BY <3>1 DEF RInv, IInv, DequeueInv, InRun
    <3>3. \A o \in Threads : o # th => task'[o] = task[o]
      BY <3>1
    <3> QED BY <2>1, <3>1, <3>2, <3>3 DEF LeaveDequeue, Busy
  <2>2. ASSUME NEW th \in Threads, SpuriousWakeup(th) PROVE <1>2!:
    <3>1. /\ pc[th] = IF th = 0 THEN "asleep" ELSE "waiting"
          /\ pc'[th] = IF th = 0 THEN "check" ELSE "loop"
          /\ \A o \in Threads : o # th => pc'[o] = pc[o]
          /\ UNCHANGED <<task, next_task_, end_task_, start, limit, ret>>
      BY <1>1, <2>2 DEF SpuriousWakeup
    <3> QED BY <3>1 DEF Busy, InRun
  <2>3. ASSUME NEW w \in Workers, WorkerBody(w) PROVE <1>2!:
    <3>1. /\ pc[w] = "loop" /\ pc'[w] \in {"exited", "waiting", "next"}
          /\ \A o \in Threads : o # w => pc'[o] = pc[o]
          /\ UNCHANGED <<task, next_task_, end_task_, start, limit, ret>>
      BY <1>1, <2>3 DEF WorkerBody
    <3> QED BY <3>1 DEF Busy
  <2>4. ASSUME NEW n \in 0..MaxWorkers+1, SetNumThreads(n) PROVE <1>2!:
    <3>1. /\ pc[0] = "idle" /\ pc'[0] = "resize"
          /\ \A o \in Threads : o # 0 => \/ pc'[o] = pc[o]
                                         \/ pc[o] = "waiting" /\ pc'[o] = "loop"
          /\ UNCHANGED <<task, next_task_, end_task_, start, limit, ret>>
      BY <1>1, <2>4 DEF SetNumThreads, Notify
    <3> QED BY <3>1 DEF Busy
  <2>5. CASE Resize
    <3>1. ~(0 > workers_) /\ ~(0 > num)
      BY DEF RInv, IInv, TypeOK
    <3>2. /\ pc[0] = "resize" /\ pc'[0] = "idle"
          /\ UNCHANGED <<task, next_task_, end_task_, start, limit, ret>>
      BY <1>1, <2>5, <3>1 DEF Resize
    <3>3. \A w \in Workers : pc[w] \notin Busy
      BY <3>2 DEF RInv, IInv, DequeueInv, TypeOK, InRun, Busy
    <3>4. \A w \in Workers : pc'[w] \in {"loop", "none", pc[w]}
      BY <2>5 DEF Resize
    <3> QED BY <3>2, <3>3, <3>4 DEF Busy
  <2> QED BY <2>1, <2>2, <2>3, <2>4, <2>5
<1>3. executingBar' = executingBar
  BY <1>2, ExecSame
<1>4. phaseBar' = phaseBar /\ limitBar' = limitBar /\ pendingBar' = pendingBar
  <2>1. CASE pc[0] \in InRun /\ pc'[0] \in InRun
    BY <1>2, <2>1, BarsParallel, BarsAfter
  <2>2. CASE pc[0] \notin InRun /\ pc'[0] = pc[0]
    BY <1>2, <2>2, BarsOutside, BarsSingle, BarsAfter
  <2>3. CASE pc[0] \in {"idle", "resize"} /\ pc'[0] \in {"idle", "resize"}
    BY <2>3, BarsOutside, BarsAfter DEF InRun, Single
  <2> QED BY <1>2, <2>1, <2>2, <2>3
<1> QED BY <1>2, <1>3, <1>4, AbsStutter

\* The contract of parallel_runner.h holds of every sequence of calls of Run()
\* and SetNumThreads(), for a pool of any size: every task of the range is
\* started once, on a thread id below the number told to init(), and Run()
\* returns after the last task has returned, provided that the task numbers
\* above the range leave room for one overshoot per thread.
THEOREM Refinement ==
  ASSUME RangesLeaveRoom
  PROVE  Spec => RefinesParallelRun
<1>1. RInv /\ [Next]_vars => [Promise!Next]_(Promise!vars)
  <2> SUFFICES ASSUME RInv, [Next]_vars
               PROVE  [Promise!Next]_(Promise!vars)
    OBVIOUS
  <2>1. CASE OwnerCall
    BY <2>1, SingleRefines, RunManyRefines, QuietRefines DEF OwnerCall
  <2>2. CASE OwnerStep
    <3>1. 0 \in Threads
      OBVIOUS
    <3> QED BY <2>2, <3>1, SingleRefines, TakeRefines, FinishRefines, QuietRefines,
               CheckRefines DEF OwnerStep
  <2>3. ASSUME NEW w \in Workers, WorkerStep(w)
        PROVE  [Promise!Next]_(Promise!vars)
    <3>1. w \in Threads
      OBVIOUS
    <3> QED BY <2>3, <3>1, TakeRefines, FinishRefines, QuietRefines DEF WorkerStep
  <2>4. ASSUME NEW th \in Threads, SpuriousWakeup(th)
        PROVE  [Promise!Next]_(Promise!vars)
    BY <2>4, QuietRefines
  <2>5. CASE UNCHANGED vars
    <3>1. UNCHANGED <<phaseBar, limitBar, pendingBar, executingBar, ret>>
      BY <2>5 DEF vars, phaseBar, limitBar, pendingBar, executingBar, Running
    <3> QED BY <3>1, AbsStutter
  <2> QED BY <2>1, <2>2, <2>3, <2>4, <2>5 DEF Next
<1> QED BY InitRefines, RangeInvariant, <1>1, PTL
        DEF Spec, RefinesParallelRun, Promise!Spec
=============================================================================
