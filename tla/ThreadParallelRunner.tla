------------------------ MODULE ThreadParallelRunner ------------------------
(***************************************************************************)
(* The thread pool of lib/threads/thread_parallel_runner_internal.{h,cc}.  *)
(*                                                                         *)
(* Threads that call Runner() (Callers) and worker threads (Workers) share *)
(* a mutex, two condition variables and two atomics.  Every block of code  *)
(* that runs under mutex_ is one action, and so is every atomic operation; *)
(* the steps in between are what the threads interleave.  The waiters of   *)
(* worker_start_cv_ are the workers at "waiting", the waiter of            *)
(* workers_ready_cv_ is the caller at "asleep".                            *)
(***************************************************************************)
EXTENDS Integers, FiniteSets

CONSTANTS Callers,      \* threads of the application that use the runner
          Creator,      \* the one that runs the constructor
          NumWorkers,   \* num_worker_threads_
          Modulus,      \* 2^32 for uint32_t
          Ranges,       \* pairs <<start_range, end_range>> to call Runner with
          MaxDepth      \* bound on depth_, which rejected calls never lower

ASSUME CreatorAssumption == Creator \in Callers
ASSUME NumWorkersAssumption == NumWorkers \in Nat /\ NumWorkers < Modulus
ASSUME ModulusAssumption == Modulus \in Nat /\ Modulus > 4
ASSUME RangesAssumption == Ranges \subseteq (0..Modulus-1) \X (0..Modulus-1)
ASSUME MaxDepthAssumption == MaxDepth \in Nat

UInt == 0..Modulus-1
Workers == 0..NumWorkers-1
Threads == IF NumWorkers = 0 THEN {0} ELSE Workers
NoTask == -1

\* The halves of the 64-bit commands ~1, ~2 and ~3; all other commands are
\* ranges <<begin, end>> with begin < end.
kWorkerWait == <<Modulus - 1, Modulus - 2>>
kWorkerOnce == <<Modulus - 1, Modulus - 3>>
kWorkerExit == <<Modulus - 1, Modulus - 4>>

VARIABLES
  depth_, workers_ready_, worker_start_command_, num_reserved_,
  jpegxl_opaque_,   \* the caller whose data_func_/jpegxl_opaque_ are set
  pc, command, task, ret,                \* locals of the callers
  wpc, wcommand, my_size, my_task, my_end, opaque  \* locals of the workers

shared == <<depth_, workers_ready_, worker_start_command_, num_reserved_,
            jpegxl_opaque_>>
callerVars == <<pc, command, task, ret>>
workerVars == <<wpc, wcommand, my_size, my_task, my_end, opaque>>
vars == <<shared, callerVars, workerVars>>

CallerPC == {"idle", "seq", "seqTask", "enter", "publish", "start", "notify",
             "barrier", "asleep", "leave", "join", "destroyed"}
WorkerPC == {"lock", "waiting", "woken", "load", "reserve", "task", "exited"}

TypeOK ==
  /\ depth_ \in Nat
  /\ workers_ready_ \in 0..NumWorkers
  /\ worker_start_command_ \in UInt \X UInt
  /\ num_reserved_ \in UInt
  /\ jpegxl_opaque_ \in Callers
  /\ pc \in [Callers -> CallerPC]
  /\ command \in [Callers -> UInt \X UInt]
  /\ task \in [Callers -> UInt]
  /\ ret \in [Callers -> {0, -1}]
  /\ wpc \in [Workers -> WorkerPC]
  /\ wcommand \in [Workers -> UInt \X UInt]
  /\ my_size \in [Workers -> UInt]
  /\ my_task \in [Workers -> UInt]
  /\ my_end \in [Workers -> UInt]
  /\ opaque \in [Workers -> Callers]

-----------------------------------------------------------------------------
\* uint32_t arithmetic.
Add32(a, b) == IF a + b < Modulus THEN a + b ELSE a + b - Modulus
Min32_Unclamped(a, b) == a                                   \* faulty
Min32(a, b) == IF a < b THEN a ELSE b
Max32(a, b) == IF a < b THEN b ELSE a

\* The guided schedule: a chunk is a quarter of an equal share of the rest.
ChunkSize(reserved, num_tasks) ==
  Max32((num_tasks - Min32(reserved, num_tasks)) \div (NumWorkers * 4), 1)

-----------------------------------------------------------------------------
\* The constructor has spawned the workers and enters WorkersReadyBarrier();
\* without workers it has nothing to wait for.
Init ==
  /\ depth_ = 0
  /\ workers_ready_ = 0
  /\ worker_start_command_ = kWorkerWait
  /\ num_reserved_ = 0
  /\ jpegxl_opaque_ = Creator
  /\ pc = [c \in Callers |->
             IF c = Creator /\ NumWorkers > 0 THEN "barrier" ELSE "idle"]
  /\ command = [c \in Callers |-> kWorkerWait]
  /\ task = [c \in Callers |-> 0]
  /\ ret = [c \in Callers |-> 0]
  /\ wpc = [w \in Workers |-> "lock"]
  /\ wcommand = [w \in Workers |-> kWorkerWait]
  /\ my_size = [w \in Workers |-> 0]
  /\ my_task = [w \in Workers |-> 0]
  /\ my_end = [w \in Workers |-> 0]
  /\ opaque = [w \in Workers |-> Creator]

InConstructor == /\ pc[Creator] # "idle"
                 /\ command[Creator] \in {kWorkerWait, kWorkerOnce}
Destroying == \E c \in Callers : command[c] = kWorkerExit

\* Runner() returns to its caller.
ReturnWith(c, code) ==
  /\ pc' = [pc EXCEPT ![c] = "idle"]
  /\ ret' = [ret EXCEPT ![c] = code]

\* Runner() up to depth_: reversed and empty ranges, init(), no workers.
CallRunner(c) ==
  /\ pc[c] = "idle"
  /\ ~InConstructor /\ ~Destroying
  /\ depth_ + Cardinality({d \in Callers : pc[d] = "enter"}) < MaxDepth
  /\ \E r \in Ranges :
       \/ /\ r[1] > r[2]
          /\ ReturnWith(c, -1)
          /\ UNCHANGED <<command, task>>
       \/ /\ r[1] = r[2]
          /\ ReturnWith(c, 0)
          /\ UNCHANGED <<command, task>>
       \/ /\ r[1] < r[2]       \* init() fails
          /\ ReturnWith(c, -1)
          /\ UNCHANGED <<command, task>>
       \/ /\ r[1] < r[2]       \* init() succeeds
          /\ pc' = [pc EXCEPT ![c] = IF NumWorkers = 0 THEN "seq" ELSE "enter"]
          /\ command' = [command EXCEPT ![c] = r]
          /\ task' = [task EXCEPT ![c] = r[1]]
          /\ UNCHANGED ret
  /\ UNCHANGED <<shared, workerVars>>

SeqMore_Inclusive(c) == task[c] <= command[c][2]             \* faulty
SeqMore(c) == task[c] < command[c][2]

\* The sequential loop of a runner without workers.
SeqLoop(c) ==
  /\ pc[c] = "seq"
  /\ \/ /\ SeqMore(c)
        /\ pc' = [pc EXCEPT ![c] = "seqTask"]
        /\ UNCHANGED ret
     \/ /\ ~SeqMore(c)
        /\ ReturnWith(c, 0)
  /\ UNCHANGED <<shared, command, task, workerVars>>

SeqTask(c) ==
  /\ pc[c] = "seqTask"
  /\ task' = [task EXCEPT ![c] = task[c] + 1]
  /\ pc' = [pc EXCEPT ![c] = "seq"]
  /\ UNCHANGED <<shared, command, ret, workerVars>>

NotReentered_Unchecked == TRUE      \* faulty: the result of fetch_add is ignored
NotReentered == depth_ = 0

\* depth_.fetch_add(1): a call that overlaps another one is rejected, and
\* leaves depth_ incremented.
Enter(c) ==
  /\ pc[c] = "enter"
  /\ depth_' = depth_ + 1
  /\ \/ /\ ~NotReentered
        /\ ReturnWith(c, -1)
     \/ /\ NotReentered
        /\ pc' = [pc EXCEPT ![c] = "publish"]
        /\ UNCHANGED ret
  /\ UNCHANGED <<workers_ready_, worker_start_command_, num_reserved_,
                 jpegxl_opaque_, command, task, workerVars>>

\* faulty: the reservations of the previous range are kept
ReservedForCommand_Kept(cmd) == num_reserved_
ReservedForCommand(cmd) == IF cmd = kWorkerOnce THEN num_reserved_ ELSE 0

\* data_func_, jpegxl_opaque_ and, for a range, num_reserved_ are set without
\* holding the mutex.
Publish(c) ==
  /\ pc[c] = "publish"
  /\ jpegxl_opaque_' = c
  /\ num_reserved_' = ReservedForCommand(command[c])
  /\ pc' = [pc EXCEPT ![c] = "start"]
  /\ UNCHANGED <<depth_, workers_ready_, worker_start_command_, command, task,
                 ret, workerVars>>

\* StartWorkers(): the command is set under the mutex ...
StartWorkers(c) ==
  /\ pc[c] = "start"
  /\ worker_start_command_' = command[c]
  /\ pc' = [pc EXCEPT ![c] = "notify"]
  /\ UNCHANGED <<depth_, workers_ready_, num_reserved_, jpegxl_opaque_, command,
                 task, ret, workerVars>>

\* ... and the workers are notified after it was released.
NotifyWorkers(c) ==
  /\ pc[c] = "notify"
  /\ wpc' = [w \in Workers |-> IF wpc[w] = "waiting" THEN "woken" ELSE wpc[w]]
  /\ pc' = [pc EXCEPT ![c] =
              IF command[c] = kWorkerExit THEN "join" ELSE "barrier"]
  /\ UNCHANGED <<shared, command, task, ret, wcommand, my_size, my_task, my_end,
                 opaque>>

AllReported_OneShort == workers_ready_ >= NumWorkers - 1    \* faulty
AllReported == workers_ready_ = NumWorkers

\* faulty: the barrier cannot be used a second time
ResetBarrier_Once == worker_start_command_' = kWorkerWait /\ UNCHANGED workers_ready_
ResetBarrier == worker_start_command_' = kWorkerWait /\ workers_ready_' = 0

\* One iteration of the loop of WorkersReadyBarrier(), under the mutex.  The
\* constructor goes on with RunOnEachThread(), Runner() with depth_.
WorkersReadyBarrier(c) ==
  /\ pc[c] = "barrier"
  /\ \/ /\ ~AllReported
        /\ pc' = [pc EXCEPT ![c] = "asleep"]
        /\ UNCHANGED <<workers_ready_, worker_start_command_, command>>
     \/ /\ AllReported
        /\ ResetBarrier
        /\ pc' = [pc EXCEPT ![c] =
                    CASE command[c] = kWorkerWait -> "publish"
                      [] command[c] = kWorkerOnce -> "idle"
                      [] OTHER -> "leave"]
        /\ command' = [command EXCEPT ![c] =
                         IF command[c] = kWorkerWait THEN kWorkerOnce
                                                     ELSE command[c]]
  /\ UNCHANGED <<depth_, num_reserved_, jpegxl_opaque_, task, ret, workerVars>>

\* The loop of WorkersReadyBarrier() makes this one harmless.
CallerSpuriousWakeup(c) ==
  /\ pc[c] = "asleep"
  /\ pc' = [pc EXCEPT ![c] = "barrier"]
  /\ UNCHANGED <<shared, command, task, ret, workerVars>>

\* depth_.fetch_add(-1) at the end of Runner().
Leave(c) ==
  /\ pc[c] = "leave"
  /\ depth_' = depth_ - 1
  /\ ReturnWith(c, IF depth_ = 1 THEN 0 ELSE -1)
  /\ UNCHANGED <<workers_ready_, worker_start_command_, num_reserved_,
                 jpegxl_opaque_, command, task, workerVars>>

\* The destructor; the application calls it when no call is under way.
Destroy(c) ==
  /\ ~InConstructor /\ ~Destroying
  /\ \A d \in Callers : pc[d] = "idle"
  /\ command' = [command EXCEPT ![c] = kWorkerExit]
  /\ pc' = [pc EXCEPT ![c] = IF NumWorkers = 0 THEN "join" ELSE "start"]
  /\ UNCHANGED <<shared, task, ret, workerVars>>

Join(c) ==
  /\ pc[c] = "join"
  /\ \A w \in Workers : wpc[w] = "exited"
  /\ pc' = [pc EXCEPT ![c] = "destroyed"]
  /\ UNCHANGED <<shared, command, task, ret, workerVars>>

-----------------------------------------------------------------------------
\* workers_ready_cv_.notify_one() when the last worker reports.
NotifyBarrier_Never(ready) == UNCHANGED pc                  \* faulty
NotifyBarrier(ready) ==
  LET asleep == {c \in Callers : pc[c] = "asleep"}
  IN  IF ready = NumWorkers /\ asleep # {}
        THEN \E c \in asleep : pc' = [pc EXCEPT ![c] = "barrier"]
        ELSE UNCHANGED pc

\* The head of the loop of ThreadFunc(), up to the wait: report readiness.  The
\* locals of the previous iteration are out of scope.
ReportReady(w) ==
  /\ wpc[w] = "lock"
  /\ workers_ready_' = workers_ready_ + 1
  /\ NotifyBarrier(workers_ready_ + 1)
  /\ wpc' = [wpc EXCEPT ![w] = "waiting"]
  /\ wcommand' = [wcommand EXCEPT ![w] = kWorkerWait]
  /\ my_size' = [my_size EXCEPT ![w] = 0]
  /\ my_task' = [my_task EXCEPT ![w] = 0]
  /\ my_end' = [my_end EXCEPT ![w] = 0]
  /\ opaque' = [opaque EXCEPT ![w] = Creator]
  /\ UNCHANGED <<depth_, worker_start_command_, num_reserved_, jpegxl_opaque_,
                 command, task, ret>>

\* A worker calls data_func_ for the first task of t .. e-1.
BeginTasks(w, t, e) ==
  /\ wpc' = [wpc EXCEPT ![w] = "task"]
  /\ my_task' = [my_task EXCEPT ![w] = t]
  /\ my_end' = [my_end EXCEPT ![w] = e]
  /\ opaque' = [opaque EXCEPT ![w] = jpegxl_opaque_]

\* The wait returned with the mutex held: obey the command.
ReadCommand(w) ==
  /\ wpc[w] = "woken"
  /\ wcommand' = [wcommand EXCEPT ![w] = worker_start_command_]
  /\ \/ /\ worker_start_command_ = kWorkerOnce
        /\ BeginTasks(w, w, w + 1)
     \/ /\ worker_start_command_ = kWorkerExit
        /\ wpc' = [wpc EXCEPT ![w] = "exited"]
        /\ UNCHANGED <<my_task, my_end, opaque>>
     \/ /\ worker_start_command_ \notin {kWorkerWait, kWorkerOnce, kWorkerExit}
        /\ wpc' = [wpc EXCEPT ![w] = "load"]
        /\ UNCHANGED <<my_task, my_end, opaque>>
  /\ UNCHANGED <<shared, callerVars, my_size>>

\* A wait that returned to find kWorkerWait is resumed, with the mutex held.
ResumeWait(w) ==
  /\ wpc[w] = "woken"
  /\ worker_start_command_ = kWorkerWait
  /\ wpc' = [wpc EXCEPT ![w] = "waiting"]
  /\ UNCHANGED <<shared, callerVars, wcommand, my_size, my_task, my_end, opaque>>

\* RunRange(): the size of the next chunk, from a value of num_reserved_ that
\* other workers may change before ReserveChunk.
LoadReserved(w) ==
  /\ wpc[w] = "load"
  /\ my_size' = [my_size EXCEPT ![w] =
                   ChunkSize(num_reserved_, wcommand[w][2] - wcommand[w][1])]
  /\ wpc' = [wpc EXCEPT ![w] = "reserve"]
  /\ UNCHANGED <<shared, callerVars, wcommand, my_task, my_end, opaque>>

\* RunRange(): num_reserved_.fetch_add(my_size) and the bounds of the chunk.
ReserveChunk(w) ==
  /\ wpc[w] = "reserve"
  /\ num_reserved_' = Add32(num_reserved_, my_size[w])
  /\ LET my_begin == Add32(wcommand[w][1], num_reserved_)
         end == Min32(Add32(my_begin, my_size[w]), wcommand[w][2])
     IN  \/ /\ my_begin >= end
            /\ wpc' = [wpc EXCEPT ![w] = "lock"]
            /\ UNCHANGED <<my_task, my_end, opaque>>
         \/ /\ my_begin < end
            /\ BeginTasks(w, my_begin, end)
  /\ UNCHANGED <<depth_, workers_ready_, worker_start_command_, jpegxl_opaque_,
                 callerVars, wcommand, my_size>>

\* data_func_ returns; the worker goes on with the next task of its chunk, the
\* next chunk or, for kWorkerOnce, the next command.
FinishTask(w) ==
  /\ wpc[w] = "task"
  /\ \/ /\ my_task[w] + 1 < my_end[w]
        /\ BeginTasks(w, my_task[w] + 1, my_end[w])
     \/ /\ my_task[w] + 1 >= my_end[w]
        /\ wpc' = [wpc EXCEPT ![w] =
                     IF wcommand[w] = kWorkerOnce THEN "lock" ELSE "load"]
        /\ UNCHANGED <<my_task, my_end, opaque>>
  /\ UNCHANGED <<shared, callerVars, wcommand, my_size>>

\* std::condition_variable::wait may return without a notification.
WorkerSpuriousWakeup(w) ==
  /\ wpc[w] = "waiting"
  /\ wpc' = [wpc EXCEPT ![w] = "woken"]
  /\ UNCHANGED <<shared, callerVars, wcommand, my_size, my_task, my_end, opaque>>

-----------------------------------------------------------------------------
CallerStep(c) ==
  \/ SeqLoop(c) \/ SeqTask(c) \/ Enter(c) \/ Publish(c) \/ StartWorkers(c)
  \/ NotifyWorkers(c) \/ WorkersReadyBarrier(c) \/ Leave(c) \/ Join(c)

WorkerStep(w) ==
  \/ ReportReady(w) \/ ReadCommand(w) \/ LoadReserved(w) \/ ReserveChunk(w)
  \/ FinishTask(w)

\* The runner is gone.
Destroyed == /\ \E c \in Callers : pc[c] = "destroyed"
             /\ UNCHANGED vars

Next ==
  \/ \E c \in Callers : \/ CallRunner(c) \/ Destroy(c) \/ CallerStep(c)
                        \/ CallerSpuriousWakeup(c)
  \/ \E w \in Workers : WorkerStep(w)
  \/ Destroyed

Spec == Init /\ [][Next]_vars

\* Every thread that can take a step is scheduled eventually and data_func_
\* returns; nobody has to call Runner or the destructor.
Fairness == /\ \A c \in Callers : WF_vars(CallerStep(c))
            /\ \A w \in Workers : WF_vars(WorkerStep(w))

FairSpec == Spec /\ Fairness

\* The same pool where the waits of workers may also return spuriously.
SpuriousNext == \/ Next
                \/ \E w \in Workers : WorkerSpuriousWakeup(w) \/ ResumeWait(w)
SpuriousSpec == Init /\ [][SpuriousNext]_vars

-----------------------------------------------------------------------------
(* What the runner promises to each of its callers. *)

Running(c) == \/ pc[c] \in {"seq", "seqTask"}
              \/ /\ pc[c] \in {"publish", "start", "notify", "barrier",
                               "asleep", "leave"}
                 /\ command[c] \notin {kWorkerWait, kWorkerExit}

\* The tasks of c's call that no thread has started yet: those of the range
\* that are not reserved and those left in the chunks of the workers.
PendingOf(c) ==
  LET rest == {t \in command[c][1]..command[c][2]-1 :
                 t >= command[c][1] +
                        (IF pc[c] = "publish" THEN 0 ELSE num_reserved_)}
      chunk(w) == IF wpc[w] = "task" /\ opaque[w] = c
                    THEN my_task[w]+1..my_end[w]-1 ELSE {}
      told == IF pc[c] \in {"publish", "start", "notify"}
                THEN {"waiting", "woken"} ELSE {"woken"}
  IN  IF ~Running(c) THEN {}
      ELSE IF pc[c] = "seq" THEN task[c]..command[c][2]-1
      ELSE IF pc[c] = "seqTask" THEN task[c]+1..command[c][2]-1
      ELSE IF command[c] = kWorkerOnce THEN {w \in Workers : wpc[w] \in told}
      ELSE rest \cup UNION {chunk(w) : w \in Workers}

ExecutingOf(c) ==
  [th \in Threads |->
     IF NumWorkers = 0
       THEN IF pc[c] = "seqTask" THEN task[c] ELSE NoTask
       ELSE IF wpc[th] = "task" /\ opaque[th] = c THEN my_task[th] ELSE NoTask]

Promise == INSTANCE ParallelRun WITH
  Tasks <- UInt,
  Threads <- Threads,
  NoTask <- NoTask,
  phase <- IF Running(Creator) THEN "running" ELSE "idle",
  limit <- IF Running(Creator) THEN Max32(NumWorkers, 1) ELSE 0,
  pending <- PendingOf(Creator),
  executing <- ExecutingOf(Creator),
  ret <- ret[Creator]

\* The contract of parallel_runner.h as the thread that constructs the runner
\* sees it, whatever the other threads do: every task of an accepted range is
\* started exactly once on a thread id below the announced number, and
\* Runner() returns after the last of them has returned.
RefinesParallelRun == Promise!Spec

\* The workers are being started, at work or gone.
Started(c) == pc[c] \in {"notify", "barrier", "asleep", "join", "destroyed"}

AllReady == /\ \A w \in Workers : wpc[w] = "waiting"
            /\ workers_ready_ = 0
            /\ worker_start_command_ = kWorkerWait

\* The invariant in the comment above WorkerCommand: whenever no call is
\* between StartWorkers() and the end of WorkersReadyBarrier(), all workers
\* wait on worker_start_cv_, so that the next notify_all() reaches them all,
\* the count of ready workers is reset and a command cannot be obeyed twice.
\* In particular data_func_ and num_reserved_ are only written then.
WorkersReadyBetweenRuns == (\A c \in Callers : ~Started(c)) => AllReady

\* A caller that may touch what the workers read.
Driver(c) == pc[c] \notin {"idle", "seq", "seqTask", "enter"}

\* depth_ lets one thread at a time drive the workers: the constructor, an
\* accepted call or the destructor.
OneDriver == \A c, d \in Callers : Driver(c) /\ Driver(d) => c = d

\* A task runs only while the call of Runner() it belongs to is under way: the
\* library's closure (RunCallState) is on the stack of that call.
NoTaskAfterReturn ==
  \A w \in Workers : wpc[w] = "task" => Running(opaque[w])

\* No wake-up is lost: the constructor, every call of Runner(), rejected ones
\* included, and the destructor return.
EveryCallReturns ==
  \A c \in Callers : (pc[c] # "idle") ~> (pc[c] \in {"idle", "destroyed"})
=============================================================================
