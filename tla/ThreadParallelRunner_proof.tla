--------------------- MODULE ThreadParallelRunner_proof ---------------------
(***************************************************************************)
(* Proofs about ThreadParallelRunner, for any number of callers and        *)
(* workers, any ranges and any width of the task numbers.                  *)
(*                                                                         *)
(*  1. IInv, the invariant of the barrier: where the workers are while a   *)
(*     caller drives them.  From it, WorkersReadyBetweenRuns and OneDriver.*)
(*  2. OpaqueInv: whose closure the tasks use, hence NoTaskAfterReturn.    *)
(*  3. RunInv, the invariant of the guided schedule: the chunks are        *)
(*     disjoint and reservations do not wrap, when the ranges leave room.  *)
(*  4. With these, every step of the runner is a step of ParallelRun, or   *)
(*     leaves what the creator sees of it unchanged.                       *)
(***************************************************************************)
EXTENDS ThreadParallelRunner, FiniteSetTheorems, TLAPS

Special == {kWorkerWait, kWorkerOnce, kWorkerExit}
IsRange(r) == r[1] < r[2]
Waiting == {w \in Workers : wpc[w] = "waiting"}

\* What the position of a caller says about the command it gives.
CallerAt(c) ==
  /\ pc[c] \in {"seq", "seqTask", "enter", "leave"} => IsRange(command[c])
  /\ pc[c] = "seqTask" => task[c] < command[c][2]
  /\ pc[c] \in {"publish", "start", "notify"} => command[c] # kWorkerWait
  /\ pc[c] \in {"publish", "barrier", "asleep"} => command[c] # kWorkerExit
  /\ pc[c] \in {"join", "destroyed"} => command[c] = kWorkerExit
  /\ Driver(c) => IsRange(command[c]) \/ command[c] \in Special
  /\ pc[c] \in {"enter", "publish", "start", "notify", "barrier", "asleep",
                "leave"} => NumWorkers > 0

CallerInv == \A c \in Callers : CallerAt(c)

\* At most one caller drives the workers, and what depth_ and the phases of
\* construction and destruction have to do with it.
DriverInv ==
  /\ OneDriver
  /\ \A c \in Callers :
       /\ Driver(c) /\ IsRange(command[c]) => depth_ >= 1
       /\ command[c] = kWorkerExit => Driver(c)
       /\ command[c] \in Special /\ Driver(c)
            => \A d \in Callers : d # c => pc[d] = "idle"
       /\ command[c] \in {kWorkerWait, kWorkerOnce} /\ Driver(c) => c = Creator

\* Where the workers are while caller c drives them.
Notifying(c) == /\ worker_start_command_ = command[c]
                /\ workers_ready_ = 0
                /\ \A w \in Workers : wpc[w] = "waiting"
Gathering(c) == /\ worker_start_command_ = command[c]
                /\ workers_ready_ = Cardinality(Waiting)
                /\ \A w \in Workers : wpc[w] # "exited"
                /\ command[c] = kWorkerWait =>
                     \A w \in Workers : wpc[w] \in {"lock", "waiting"}
Quitting == \A w \in Workers : /\ wpc[w] \in {"woken", "exited"}
                               /\ worker_start_command_ = kWorkerExit
WorkersAt(c) ==
  /\ pc[c] = "notify" => Notifying(c)
  /\ pc[c] \in {"barrier", "asleep"} => Gathering(c)
  /\ pc[c] \in {"join", "destroyed"} => Quitting

WorkerInv == WorkersReadyBetweenRuns /\ \A c \in Callers : WorkersAt(c)

\* The range a worker works on.
RangeInv ==
  \A w \in Workers :
    /\ wpc[w] \in {"load", "reserve"} => IsRange(wcommand[w])
    /\ wpc[w] = "task" => IsRange(wcommand[w]) \/ wcommand[w] = kWorkerOnce

IInv == TypeOK /\ CallerInv /\ DriverInv /\ WorkerInv /\ RangeInv

-----------------------------------------------------------------------------
USE DEF UInt, Workers

\* The reserved commands of StartWorkers() differ, and no range equals one.
LEMMA CommandFacts ==
  /\ Special \subseteq UInt \X UInt
  /\ kWorkerWait # kWorkerOnce /\ kWorkerWait # kWorkerExit
  /\ kWorkerOnce # kWorkerExit
  /\ \A r \in Special : ~IsRange(r)
  /\ ~IsRange(kWorkerWait) /\ ~IsRange(kWorkerOnce) /\ ~IsRange(kWorkerExit)
BY ModulusAssumption DEF Special, kWorkerWait, kWorkerOnce, kWorkerExit, IsRange

\* The guided schedule of RunRange() always reserves a uint32_t of tasks.
LEMMA ChunkSizeType ==
  ASSUME NumWorkers > 0, NEW r \in UInt, NEW n \in UInt
  PROVE  ChunkSize(r, n) \in UInt
<1> DEFINE rest == n - Min32(r, n)
<1>1. rest \in UInt
  BY ModulusAssumption DEF Min32
<1>2. rest \div (NumWorkers * 4) \in 0..rest
  <2>1. NumWorkers * 4 \in Nat /\ NumWorkers * 4 >= 1
    BY NumWorkersAssumption
  <2>2. \A a \in Nat, b \in Nat : b >= 1 => a \div b \in 0..a
    BY SMT
  <2> QED BY <1>1, <2>1, <2>2, ModulusAssumption
<1> QED BY <1>1, <1>2, ModulusAssumption DEF ChunkSize, Max32

\* uint32_t addition and minimum stay in the type.
LEMMA ArithmeticType ==
  ASSUME NEW a \in UInt, NEW b \in UInt
  PROVE  Add32(a, b) \in UInt /\ Min32(a, b) \in UInt
BY ModulusAssumption DEF Add32, Min32

\* A further waiting worker raises the count by one, up to all workers.
LEMMA WaitingCount ==
  ASSUME NEW f \in [Workers -> WorkerPC], NEW w \in Workers,
         f[w] # "waiting"
  PROVE  LET W(g) == {v \in Workers : g[v] = "waiting"}
             h == [f EXCEPT ![w] = "waiting"]
         IN  /\ Cardinality(W(h)) = Cardinality(W(f)) + 1
             /\ Cardinality(W(h)) \in 0..NumWorkers
<1> DEFINE W(g) == {v \in Workers : g[v] = "waiting"}
           h == [f EXCEPT ![w] = "waiting"]
<1>1. IsFiniteSet(Workers) /\ Cardinality(Workers) = NumWorkers
  BY FS_Interval, NumWorkersAssumption
<1>2. /\ W(f) \subseteq Workers /\ W(h) \subseteq Workers
      /\ W(h) = W(f) \cup {w} /\ w \notin W(f)
  BY DEF WorkerPC
<1>3. IsFiniteSet(W(f)) /\ IsFiniteSet(W(h))
  BY <1>1, <1>2, FS_Subset
<1>4. Cardinality(W(h)) = Cardinality(W(f)) + 1
  BY <1>2, <1>3, FS_AddElement
<1>5. Cardinality(W(h)) \in 0..NumWorkers
  BY <1>1, <1>2, <1>3, FS_Subset, FS_CardinalityType, NumWorkersAssumption
<1> QED BY <1>4, <1>5

\* When all workers have reported, all of them wait.
LEMMA AllWaiting ==
  ASSUME Cardinality(Waiting) = NumWorkers
  PROVE  \A w \in Workers : wpc[w] = "waiting"
<1>1. IsFiniteSet(Workers) /\ Cardinality(Workers) = NumWorkers
  BY FS_Interval, NumWorkersAssumption
<1>2. Waiting \subseteq Workers
  BY DEF Waiting
<1>3. Waiting = Workers
  BY <1>1, <1>2, FS_Subset
<1> QED BY <1>3 DEF Waiting
-----------------------------------------------------------------------------
(* Frames: what the invariants need to know of a step of a caller. *)

USE CommandFacts, CreatorAssumption, ModulusAssumption, NumWorkersAssumption

\* While one caller drives the workers the others are outside of StartWorkers()
\* and WorkersReadyBarrier().
LEMMA Alone ==
  ASSUME IInv, NEW c \in Callers, Driver(c), NEW d \in Callers, d # c
  PROVE  ~Driver(d)
BY DEF IInv, DriverInv, OneDriver

\* Only the caller that moved can lose its part of CallerInv.
LEMMA CallerFrame ==
  ASSUME IInv, NEW c \in Callers, CallerAt(c)',
         \A d \in Callers : d # c => /\ pc'[d] = pc[d] /\ task'[d] = task[d]
                                     /\ command'[d] = command[d]
  PROVE  CallerInv'
<1>1. \A d \in Callers : d # c => CallerAt(d)'
  BY DEF IInv, CallerInv, CallerAt, Driver
<1> QED BY <1>1 DEF CallerInv

\* A step of the driver that gives no new command and does not touch depth_.
LEMMA DriverFrame ==
  ASSUME IInv, NEW c \in Callers, Driver(c),
         command' = command, depth_' = depth_,
         \A d \in Callers : d # c => pc'[d] = pc[d],
         command[c] = kWorkerExit => Driver(c)'
  PROVE  DriverInv'
<1>1. \A d \in Callers : Driver(d)' => Driver(d)
  BY DEF Driver
<1>2. \A d \in Callers : command[d] = kWorkerExit => Driver(d)'
  BY DEF Driver, IInv, DriverInv
<1> QED BY <1>1, <1>2 DEF IInv, DriverInv, OneDriver

\* A step of a caller that is not the driver and does not become one.
LEMMA BystanderFrame ==
  ASSUME IInv, NEW c \in Callers, ~Driver(c), ~Driver(c)', pc[c] # "idle",
         command' = command, depth_' >= depth_ /\ depth_' \in Nat,
         \A d \in Callers : d # c => pc'[d] = pc[d]
  PROVE  DriverInv'
<1>1. \A d \in Callers : Driver(d)' <=> Driver(d)
  BY DEF Driver
<1>2. depth_ \in Nat
  BY DEF IInv, TypeOK
<1>3. \A d \in Callers : command[d] \in Special /\ Driver(d)
                          => \A e \in Callers : e # d => pc[e] = "idle"
  BY DEF IInv, DriverInv
<1>4. \A d \in Callers : command[d] \in Special => ~Driver(d)
  BY <1>3 DEF Driver
<1> QED BY <1>1, <1>2, <1>4 DEF IInv, DriverInv, OneDriver

\* It is enough to look at the caller that moved when no other one drives.
LEMMA WorkerFrame ==
  ASSUME NEW c \in Callers,
         \A d \in Callers : d # c => ~Driver(d)',
         WorkersAt(c)', Started(c)' \/ AllReady'
  PROVE  WorkerInv'
<1>1. \A d \in Callers : ~Driver(d)' => WorkersAt(d)'
  BY DEF Driver, WorkersAt
<1>2. WorkersReadyBetweenRuns'
  BY DEF WorkersReadyBetweenRuns
<1> QED BY <1>1, <1>2 DEF WorkerInv

\* Nor can a step of a bystander disturb the workers.
LEMMA BystanderWorkers ==
  ASSUME IInv, NEW c \in Callers, ~Driver(c), ~Driver(c)',
         command' = command \/ (\A d \in Callers : d # c => command'[d] = command[d]),
         \A d \in Callers : d # c => pc'[d] = pc[d],
         UNCHANGED <<workers_ready_, worker_start_command_, wpc>>
  PROVE  WorkerInv'
<1>1. \A d \in Callers : d # c => WorkersAt(d)'
  BY DEF IInv, WorkerInv, WorkersAt, Notifying, Gathering, Quitting, Waiting
<1>2. WorkersAt(c)'
  BY DEF Driver, WorkersAt
<1>3. \A d \in Callers : Started(d)' <=> Started(d)
  BY DEF Started, Driver
<1>4. WorkersReadyBetweenRuns'
  BY <1>3 DEF IInv, WorkerInv, WorkersReadyBetweenRuns, AllReady
<1> QED BY <1>1, <1>2, <1>4 DEF WorkerInv
-----------------------------------------------------------------------------
(* Steps of the callers. *)

\* The sequential loop of a runner without workers.
LEMMA SequentialStep ==
  ASSUME IInv, NEW c \in Callers, SeqLoop(c) \/ SeqTask(c)
  PROVE  IInv'
<1>1. task' \in [Callers -> UInt]
  <2>1. CASE SeqLoop(c)
    BY <2>1 DEF SeqLoop, IInv, TypeOK
  <2>2. CASE SeqTask(c)
    <3>1. task[c] \in UInt /\ command[c][2] \in UInt /\ task[c] < command[c][2]
      BY <2>2 DEF SeqTask, IInv, TypeOK, CallerInv, CallerAt
    <3> QED BY <2>2, <3>1 DEF SeqTask, IInv, TypeOK
  <2> QED BY <2>1, <2>2
<1>2. /\ pc' \in [Callers -> CallerPC]
      /\ ret' \in [Callers -> {0, -1}]
      /\ pc[c] \in {"seq", "seqTask"} /\ pc'[c] \in {"idle", "seq", "seqTask"}
      /\ pc'[c] = "seqTask" => task'[c] < command[c][2]
      /\ \A d \in Callers : d # c => pc'[d] = pc[d] /\ task'[d] = task[d]
  BY DEF SeqLoop, SeqTask, SeqMore, ReturnWith, IInv, TypeOK, CallerPC
<1>3. UNCHANGED <<shared, command, workerVars>>
  BY DEF SeqLoop, SeqTask
<1>4. TypeOK'
  BY <1>1, <1>2, <1>3 DEF IInv, TypeOK, shared, workerVars
<1>5. CallerInv'
  <2>1. CallerAt(c)'
    BY <1>2, <1>3 DEF IInv, CallerInv, CallerAt, Driver
  <2> QED BY <1>2, <1>3, <2>1, CallerFrame
<1>6. ~Driver(c) /\ ~Driver(c)' /\ pc[c] # "idle"
  BY <1>2 DEF Driver
<1>7. DriverInv'
  <2>1. depth_' >= depth_ /\ depth_' \in Nat
    BY <1>3 DEF shared, IInv, TypeOK
  <2> QED BY <1>2, <1>3, <1>6, <2>1, BystanderFrame
<1>8. WorkerInv'
  BY <1>2, <1>3, <1>6, BystanderWorkers DEF shared, workerVars
<1>9. RangeInv'
  BY <1>3 DEF IInv, RangeInv, workerVars
<1> QED BY <1>4, <1>5, <1>7, <1>8, <1>9 DEF IInv

\* A call that is refused at once, or goes on to depth_ or the loop.
LEMMA CallRunnerStep ==
  ASSUME IInv, NEW c \in Callers, CallRunner(c)
  PROVE  IInv'
<1>1. PICK r \in Ranges :
        \/ /\ pc' = [pc EXCEPT ![c] = "idle"]
           /\ ret' \in [Callers -> {0, -1}]
           /\ UNCHANGED <<command, task>>
        \/ /\ IsRange(r)
           /\ pc' = [pc EXCEPT ![c] = IF NumWorkers = 0 THEN "seq" ELSE "enter"]
           /\ command' = [command EXCEPT ![c] = r]
           /\ task' = [task EXCEPT ![c] = r[1]]
           /\ UNCHANGED ret
  BY DEF CallRunner, ReturnWith, IsRange, IInv, TypeOK
<1>2. /\ r \in UInt \X UInt /\ r[1] \in UInt
      /\ UNCHANGED <<shared, workerVars>>
      /\ pc[c] = "idle" /\ ~InConstructor /\ ~Destroying
  BY RangesAssumption DEF CallRunner
<1>3. TypeOK'
  <2>1. pc' \in [Callers -> CallerPC] /\ ret' \in [Callers -> {0, -1}]
    BY <1>1 DEF IInv, TypeOK, CallerPC
  <2>2. command' \in [Callers -> UInt \X UInt]
    <3>1. command \in [Callers -> UInt \X UInt]
      BY DEF IInv, TypeOK
    <3>2. command' = command \/ command' = [command EXCEPT ![c] = r]
      BY <1>1
    <3> HIDE DEF UInt
    <3> QED BY <1>2, <3>1, <3>2
  <2>3. task' \in [Callers -> UInt]
    <3>1. task \in [Callers -> UInt]
      BY DEF IInv, TypeOK
    <3>2. task' = task \/ task' = [task EXCEPT ![c] = r[1]]
      BY <1>1
    <3> HIDE DEF UInt
    <3> QED BY <1>2, <3>1, <3>2
  <2> QED BY <1>2, <2>1, <2>2, <2>3 DEF IInv, TypeOK, shared, workerVars
<1>4. /\ \A d \in Callers : d # c => pc'[d] = pc[d] /\ command'[d] = command[d]
                                     /\ task'[d] = task[d]
      /\ pc'[c] \in {"idle", "seq", "enter"}
      /\ pc'[c] # "idle" => IsRange(command'[c])
      /\ pc'[c] = "enter" => NumWorkers > 0
      /\ command'[c] = command[c] \/ IsRange(command'[c])
  <2>1. /\ DOMAIN pc = Callers /\ DOMAIN command = Callers
        /\ DOMAIN task = Callers /\ NumWorkers \in Nat
    BY DEF IInv, TypeOK
  <2> HIDE CommandFacts, ModulusAssumption
  <2> QED BY <1>1, <1>2, <2>1
<1>5. ~Driver(c) /\ ~Driver(c)' /\ \A d \in Callers : Driver(d)' <=> Driver(d)
  BY <1>2, <1>4 DEF Driver
<1>6. CallerInv'
  <2>1. CallerAt(c)'
    BY <1>4, <1>5 DEF CallerAt
  <2> QED BY <1>4, <2>1, CallerFrame
<1>7. \A d \in Callers : command[d] \in Special => ~Driver(d)
  BY <1>2 DEF Special, InConstructor, Destroying, IInv, DriverInv, Driver
<1>8. DriverInv'
  <2>1. OneDriver'
    BY <1>5 DEF IInv, DriverInv, OneDriver
  <2>2. \A d \in Callers : (command[d] = kWorkerExit)' => Driver(d)'
    BY <1>4, <1>5 DEF IInv, DriverInv, Special
  <2>3. \A d \in Callers : Driver(d)' => command'[d] \notin Special
    BY <1>4, <1>5, <1>7
  <2>4. \A d \in Callers : Driver(d)' /\ IsRange(command'[d]) => depth_' >= 1
    BY <1>2, <1>4, <1>5 DEF IInv, DriverInv, shared
  <2> QED BY <2>1, <2>2, <2>3, <2>4 DEF DriverInv, Special
<1>9. WorkerInv'
  BY <1>2, <1>4, <1>5, BystanderWorkers DEF shared, workerVars
<1>10. RangeInv'
  BY <1>2 DEF IInv, RangeInv, workerVars
<1> QED BY <1>3, <1>6, <1>8, <1>9, <1>10 DEF IInv

\* depth_ is 0 only when nobody drives the workers, so that the caller that
\* finds it 0 is alone.
LEMMA EnterStep ==
  ASSUME IInv, NEW c \in Callers, Enter(c)
  PROVE  IInv'
<1>1. /\ UNCHANGED <<workers_ready_, worker_start_command_, num_reserved_,
                     jpegxl_opaque_, command, task, workerVars>>
      /\ pc[c] = "enter" /\ depth_' = depth_ + 1 /\ depth_ \in Nat
  BY DEF Enter, IInv, TypeOK
<1>2. /\ pc' \in [Callers -> CallerPC] /\ ret' \in [Callers -> {0, -1}]
      /\ \A d \in Callers : d # c => pc'[d] = pc[d]
      /\ \/ pc'[c] = "idle"
         \/ depth_ = 0 /\ pc'[c] = "publish"
  BY DEF Enter, NotReentered, ReturnWith, IInv, TypeOK, CallerPC
<1>3. TypeOK'
  <2>1. depth_' \in Nat
    BY <1>1
  <2> HIDE CommandFacts, ModulusAssumption, NumWorkersAssumption DEF UInt
  <2> QED BY <1>1, <1>2, <2>1 DEF IInv, TypeOK, workerVars
<1>4. IsRange(command[c]) /\ NumWorkers > 0 /\ ~Driver(c)
  BY <1>1 DEF IInv, CallerInv, CallerAt, Driver
<1>5. CallerInv'
  <2>1. CallerAt(c)'
    BY <1>1, <1>2, <1>4 DEF CallerAt, Driver
  <2> QED BY <1>1, <1>2, <2>1, CallerFrame
<1>6. RangeInv'
  BY <1>1 DEF IInv, RangeInv, workerVars
<1>7. CASE pc'[c] = "idle"
  <2>1. ~Driver(c)'
    BY <1>7 DEF Driver
  <2>2. DriverInv'
    BY <1>1, <1>2, <1>4, <2>1, BystanderFrame
  <2>3. WorkerInv'
    BY <1>1, <1>2, <1>4, <2>1, BystanderWorkers DEF workerVars
  <2> QED BY <1>3, <1>5, <1>6, <2>2, <2>3 DEF IInv
<1>8. CASE depth_ = 0 /\ pc'[c] = "publish"
  <2>1. \A d \in Callers : ~Driver(d)
    <3> SUFFICES ASSUME NEW d \in Callers, Driver(d) PROVE FALSE
      OBVIOUS
    <3>1. ~IsRange(command[d])
      BY <1>1, <1>8 DEF IInv, DriverInv
    <3>2. command[d] \in Special
      BY <3>1 DEF IInv, CallerInv, CallerAt
    <3>3. d = c \/ pc[c] = "idle"
      BY <3>2 DEF IInv, DriverInv
    <3> QED BY <1>1, <1>4, <3>3
  <2>2. \A d \in Callers : Driver(d)' <=> d = c
    BY <1>2, <1>8, <2>1 DEF Driver
  <2>3. DriverInv'
    <3>1. \A d \in Callers : command[d] # kWorkerExit
      BY <2>1 DEF IInv, DriverInv
    <3>2. command[c] \notin Special
      BY <1>4
    <3> QED BY <1>1, <2>2, <3>1, <3>2 DEF DriverInv, OneDriver, Special
  <2>4. AllReady
    <3>1. \A d \in Callers : ~Started(d)
      BY <2>1 DEF Started, Driver
    <3> QED BY <3>1 DEF IInv, WorkerInv, WorkersReadyBetweenRuns
  <2>5. AllReady'
    BY <1>1, <2>4 DEF AllReady, workerVars
  <2>6. WorkersAt(c)'
    BY <1>8 DEF WorkersAt
  <2>7. WorkerInv'
    BY <2>2, <2>5, <2>6, WorkerFrame
  <2> QED BY <1>3, <1>5, <1>6, <2>3, <2>7 DEF IInv
<1> QED BY <1>2, <1>7, <1>8

\* The steps that move the driver without a new command and without depth_.
LEMMA DriverSteps ==
  ASSUME IInv, NEW c \in Callers,
         \/ Publish(c) \/ StartWorkers(c) \/ NotifyWorkers(c)
         \/ CallerSpuriousWakeup(c) \/ Join(c)
  PROVE  IInv'
<1>1. /\ UNCHANGED <<depth_, workers_ready_, command, task, ret, wcommand,
                     my_size, my_task, my_end, opaque>>
      /\ pc' \in [Callers -> CallerPC]
      /\ \A d \in Callers : d # c => pc'[d] = pc[d]
      /\ \/ pc[c] = "publish" /\ pc'[c] = "start"
         \/ pc[c] = "start" /\ pc'[c] = "notify"
         \/ pc[c] = "notify" /\ command[c] = kWorkerExit /\ pc'[c] = "join"
         \/ pc[c] = "notify" /\ command[c] # kWorkerExit /\ pc'[c] = "barrier"
         \/ pc[c] = "asleep" /\ pc'[c] = "barrier"
         \/ pc[c] = "join" /\ pc'[c] = "destroyed"
  BY DEF Publish, StartWorkers, NotifyWorkers, CallerSpuriousWakeup, Join, IInv,
         TypeOK, CallerPC, shared, workerVars
<1>2. Driver(c) /\ Driver(c)' /\ \A d \in Callers : d # c => ~Driver(d)'
  <2>1. Driver(c) /\ Driver(c)'
    BY <1>1 DEF Driver
  <2>2. \A d \in Callers : d # c => ~Driver(d)
    BY <2>1, Alone
  <2> QED BY <1>1, <2>1, <2>2 DEF Driver
<1>3. TypeOK'
  <2>1. num_reserved_' \in UInt /\ jpegxl_opaque_' \in Callers
    <3>1. /\ num_reserved_' \in {num_reserved_, 0}
          /\ jpegxl_opaque_' \in {jpegxl_opaque_, c}
      BY DEF Publish, StartWorkers, NotifyWorkers, CallerSpuriousWakeup, Join,
             ReservedForCommand, shared
    <3> QED BY <3>1 DEF IInv, TypeOK
  <2>2. worker_start_command_' \in UInt \X UInt
    <3>1. worker_start_command_' \in {worker_start_command_, command[c]}
      BY DEF Publish, StartWorkers, NotifyWorkers, CallerSpuriousWakeup, Join,
             shared
    <3> QED BY <3>1 DEF IInv, TypeOK
  <2>3. wpc' \in [Workers -> WorkerPC]
    BY DEF Publish, StartWorkers, NotifyWorkers, CallerSpuriousWakeup, Join,
           IInv, TypeOK, workerVars, WorkerPC
  <2> HIDE CommandFacts, ModulusAssumption, NumWorkersAssumption DEF UInt
  <2> QED BY <1>1, <2>1, <2>2, <2>3 DEF IInv, TypeOK
<1>4. CallerInv'
  <2>1. CallerAt(c)
    BY DEF IInv, CallerInv
  <2>2. CallerAt(c)'
    BY <1>1, <1>2, <2>1 DEF CallerAt
  <2> QED BY <1>1, <2>2, CallerFrame
<1>5. DriverInv'
  BY <1>1, <1>2, DriverFrame
<1>6. WorkersAt(c)
  BY DEF IInv, WorkerInv
<1>7. ~Started(c) => AllReady
  <2>1. \A d \in Callers : d # c => ~Started(d)
    BY <1>2, Alone DEF Started, Driver
  <2> QED BY <2>1 DEF IInv, WorkerInv, WorkersReadyBetweenRuns
<1>8. WorkerInv' /\ RangeInv'
  <2>1. CASE Publish(c)
    <3>1. AllReady /\ UNCHANGED <<worker_start_command_, wpc>>
      BY <2>1, <1>7 DEF Publish, Started, workerVars
    <3>2. AllReady'
      BY <1>1, <3>1 DEF AllReady
    <3>3. WorkersAt(c)'
      BY <2>1, <1>1 DEF Publish, WorkersAt
    <3> QED BY <1>1, <1>2, <3>1, <3>2, <3>3, WorkerFrame DEF IInv, RangeInv
  <2>2. CASE StartWorkers(c)
    <3>1. AllReady /\ worker_start_command_' = command[c] /\ UNCHANGED wpc
      BY <2>2, <1>7 DEF StartWorkers, Started, workerVars
    <3>2. WorkersAt(c)' /\ Started(c)'
      BY <2>2, <1>1, <3>1 DEF StartWorkers, WorkersAt, Notifying, AllReady, Started
    <3> QED BY <1>1, <1>2, <3>1, <3>2, WorkerFrame DEF IInv, RangeInv
  <2>3. CASE NotifyWorkers(c)
    <3>1. Notifying(c) /\ UNCHANGED worker_start_command_
      BY <2>3, <1>6 DEF NotifyWorkers, WorkersAt, shared
    <3>2. \A w \in Workers : wpc'[w] = "woken"
      BY <2>3, <3>1 DEF NotifyWorkers, Notifying
    <3>3. Waiting' = {}
      BY <3>2 DEF Waiting
    <3>4. workers_ready_' = Cardinality(Waiting')
      BY <1>1, <3>1, <3>3, FS_EmptySet DEF Notifying
    <3>5. command[c] # kWorkerWait
      BY <2>3 DEF NotifyWorkers, IInv, CallerInv, CallerAt
    <3>6. Started(c)' /\ pc'[c] \in {"join", "barrier"}
      BY <2>3, <1>1 DEF NotifyWorkers, Started
    <3>7. pc'[c] = "barrier" => Gathering(c)'
      BY <1>1, <3>1, <3>2, <3>4, <3>5 DEF Gathering, Notifying
    <3>8. pc'[c] = "join" => Quitting'
      BY <2>3, <1>1, <3>1, <3>2 DEF NotifyWorkers, Quitting, Notifying
    <3>9. WorkersAt(c)'
      BY <3>6, <3>7, <3>8 DEF WorkersAt
    <3>10. RangeInv'
      BY <3>2 DEF RangeInv
    <3> QED BY <1>2, <3>6, <3>9, <3>10, WorkerFrame
  <2>4. CASE CallerSpuriousWakeup(c) \/ Join(c)
    <3>1. UNCHANGED <<worker_start_command_, wpc>>
      BY <2>4 DEF CallerSpuriousWakeup, Join, shared, workerVars
    <3>2. WorkersAt(c)' /\ Started(c)'
      BY <2>4, <1>1, <1>6, <3>1 DEF CallerSpuriousWakeup, Join, WorkersAt,
           Gathering, Quitting, Waiting, Started
    <3> QED BY <1>1, <1>2, <3>1, <3>2, WorkerFrame DEF IInv, RangeInv
  <2> QED BY <2>1, <2>2, <2>3, <2>4
<1> QED BY <1>3, <1>4, <1>5, <1>8 DEF IInv

\* The barrier stays closed, or opens when all workers wait again.
LEMMA WorkersReadyBarrierStep ==
  ASSUME IInv, NEW c \in Callers, WorkersReadyBarrier(c)
  PROVE  IInv'
<1>1. /\ UNCHANGED <<depth_, num_reserved_, jpegxl_opaque_, task, ret, workerVars>>
      /\ pc[c] = "barrier"
      /\ pc \in [Callers -> CallerPC] /\ command \in [Callers -> UInt \X UInt]
      /\ DOMAIN pc = Callers /\ DOMAIN command = Callers
  BY DEF WorkersReadyBarrier, IInv, TypeOK
<1>2. /\ Driver(c) /\ \A d \in Callers : d # c => ~Driver(d)
      /\ Gathering(c) /\ command[c] # kWorkerExit /\ NumWorkers > 0
      /\ IsRange(command[c]) \/ command[c] \in Special
  <2>1. Driver(c)
    BY <1>1 DEF Driver
  <2>2. WorkersAt(c) /\ CallerAt(c)
    BY DEF IInv, WorkerInv, CallerInv
  <2> QED BY <1>1, <2>1, <2>2, Alone DEF WorkersAt, CallerAt
<1>3. RangeInv'
  BY <1>1 DEF IInv, RangeInv, workerVars
<1>4. CASE ~AllReported
  <2>1. /\ pc' = [pc EXCEPT ![c] = "asleep"]
        /\ UNCHANGED <<workers_ready_, worker_start_command_, command>>
    BY <1>4 DEF WorkersReadyBarrier
  <2>2. /\ pc' \in [Callers -> CallerPC] /\ pc'[c] = "asleep"
        /\ \A d \in Callers : d # c => pc'[d] = pc[d]
    BY <1>1, <2>1 DEF CallerPC
  <2>3. TypeOK'
    <3> HIDE CommandFacts, ModulusAssumption, NumWorkersAssumption DEF UInt
    <3> QED BY <1>1, <2>1, <2>2 DEF IInv, TypeOK, workerVars
  <2>4. Driver(c)' /\ Started(c)' /\ \A d \in Callers : d # c => ~Driver(d)'
    BY <1>2, <2>2 DEF Driver, Started
  <2>5. CallerAt(c)'
    BY <1>2, <2>1, <2>2, <2>4 DEF CallerAt
  <2>6. CallerInv'
    BY <1>1, <2>1, <2>2, <2>5, CallerFrame
  <2>7. DriverInv'
    BY <1>1, <1>2, <2>1, <2>2, <2>4, DriverFrame
  <2>8. WorkersAt(c)'
    BY <1>1, <1>2, <2>1, <2>2 DEF WorkersAt, Gathering, Waiting, workerVars
  <2>9. WorkerInv'
    BY <2>4, <2>8, WorkerFrame
  <2> QED BY <1>3, <2>3, <2>6, <2>7, <2>9 DEF IInv
<1>5. CASE AllReported
  <2> DEFINE l == CASE command[c] = kWorkerWait -> "publish"
                    [] command[c] = kWorkerOnce -> "idle"
                    [] OTHER -> "leave"
             k == IF command[c] = kWorkerWait THEN kWorkerOnce ELSE command[c]
  <2>1. /\ pc' = [pc EXCEPT ![c] = l]
        /\ command' = [command EXCEPT ![c] = k]
        /\ workers_ready_' = 0 /\ worker_start_command_' = kWorkerWait
    BY <1>5 DEF WorkersReadyBarrier, ResetBarrier
  <2>2. /\ l \in {"publish", "idle", "leave"}
        /\ l = "publish" => command[c] = kWorkerWait /\ k = kWorkerOnce
        /\ l = "idle" => command[c] = kWorkerOnce /\ k = command[c]
        /\ l = "leave" => IsRange(command[c]) /\ k = command[c]
    BY <1>2 DEF Special
  <2>3. kWorkerOnce \in UInt \X UInt /\ kWorkerWait \in UInt \X UInt
    BY DEF Special
  <2> HIDE DEF l, k
  <2>4. /\ pc' \in [Callers -> CallerPC] /\ pc'[c] = l /\ command'[c] = k
        /\ \A d \in Callers : d # c => pc'[d] = pc[d] /\ command'[d] = command[d]
    BY <1>1, <2>1, <2>2 DEF CallerPC
  <2>5. command' \in [Callers -> UInt \X UInt]
    <3>1. k \in UInt \X UInt
      BY <1>1, <2>2, <2>3
    <3> HIDE CommandFacts, ModulusAssumption, NumWorkersAssumption DEF UInt
    <3> QED BY <1>1, <2>1, <3>1
  <2>6. workers_ready_' \in 0..NumWorkers
    BY <2>1
  <2>7. TypeOK'
    <3> HIDE CommandFacts, ModulusAssumption, NumWorkersAssumption DEF UInt
    <3> QED BY <1>1, <2>1, <2>3, <2>4, <2>5, <2>6 DEF IInv, TypeOK, workerVars
  <2>8. CallerAt(c)'
    BY <1>2, <2>2, <2>4 DEF CallerAt, Driver, Special
  <2>9. CallerInv'
    BY <1>1, <2>4, <2>8, CallerFrame
  <2>10. /\ \A d \in Callers : d # c => ~Driver(d)'
         /\ Driver(c)' => l # "idle"
    BY <1>2, <2>4 DEF Driver
  <2>11. DriverInv'
    <3>1. \A d \in Callers : command'[d] # kWorkerExit
      <4>1. \A d \in Callers : d # c => command[d] # kWorkerExit
        BY <1>2 DEF IInv, DriverInv
      <4> QED BY <1>2, <2>2, <2>4, <4>1
    <3>2. Driver(c)' /\ IsRange(command'[c]) => depth_' >= 1
      BY <1>1, <1>2, <2>2, <2>4, <2>10 DEF IInv, DriverInv
    <3>3. command'[c] \in Special /\ Driver(c)' =>
            c = Creator /\ \A d \in Callers : d # c => pc'[d] = "idle"
      <4>1. l = "publish" => c = Creator /\ \A d \in Callers : d # c => pc[d] = "idle"
        BY <1>2, <2>2 DEF IInv, DriverInv, Special
      <4> QED BY <2>2, <2>4, <2>10, <4>1
    <3> QED BY <2>10, <3>1, <3>2, <3>3 DEF DriverInv, OneDriver, Special
  <2>12. AllReady'
    <3>1. \A w \in Workers : wpc[w] = "waiting"
      BY <1>2, <1>5, AllWaiting DEF AllReported, Gathering
    <3> QED BY <1>1, <2>1, <3>1 DEF AllReady, workerVars
  <2>13. WorkersAt(c)'
    BY <2>2, <2>4 DEF WorkersAt
  <2>14. WorkerInv'
    BY <2>10, <2>12, <2>13, WorkerFrame
  <2> QED BY <1>3, <2>7, <2>9, <2>11, <2>14 DEF IInv
<1> QED BY <1>4, <1>5

\* Runner() gives up the workers.
LEMMA LeaveStep ==
  ASSUME IInv, NEW c \in Callers, Leave(c)
  PROVE  IInv'
<1>1. /\ UNCHANGED <<workers_ready_, worker_start_command_, num_reserved_,
                     jpegxl_opaque_, command, task, workerVars>>
      /\ pc[c] = "leave" /\ pc'[c] = "idle" /\ depth_' = depth_ - 1
      /\ pc' \in [Callers -> CallerPC] /\ ret' \in [Callers -> {0, -1}]
      /\ \A d \in Callers : d # c => pc'[d] = pc[d]
  BY DEF Leave, ReturnWith, IInv, TypeOK, CallerPC
<1>2. /\ Driver(c) /\ IsRange(command[c]) /\ ~Driver(c)'
      /\ \A d \in Callers : d # c => ~Driver(d) /\ ~Driver(d)'
  <2>1. Driver(c) /\ ~Driver(c)'
    BY <1>1 DEF Driver
  <2>2. \A d \in Callers : d # c => ~Driver(d)
    BY <2>1, Alone
  <2> QED BY <1>1, <2>1, <2>2 DEF Driver, IInv, CallerInv, CallerAt
<1>3. depth_' \in Nat
  BY <1>1, <1>2 DEF IInv, DriverInv, TypeOK
<1>4. TypeOK'
  <2> HIDE CommandFacts, ModulusAssumption, NumWorkersAssumption DEF UInt
  <2> QED BY <1>1, <1>3 DEF IInv, TypeOK, workerVars
<1>5. CallerAt(c)'
  BY <1>1, <1>2 DEF CallerAt
<1>6. CallerInv'
  BY <1>1, <1>5, CallerFrame
<1>7. DriverInv'
  BY <1>1, <1>2 DEF IInv, DriverInv, OneDriver
<1>8. AllReady
  <2>1. \A d \in Callers : ~Started(d)
    BY <1>1, <1>2 DEF Started, Driver
  <2> QED BY <2>1 DEF IInv, WorkerInv, WorkersReadyBetweenRuns
<1>9. AllReady' /\ WorkersAt(c)'
  BY <1>1, <1>8 DEF AllReady, WorkersAt, workerVars
<1>10. WorkerInv'
  BY <1>2, <1>9, WorkerFrame
<1>11. RangeInv'
  BY <1>1 DEF IInv, RangeInv, workerVars
<1> QED BY <1>4, <1>6, <1>7, <1>10, <1>11 DEF IInv

\* The destructor starts when nobody else uses the runner.
LEMMA DestroyStep ==
  ASSUME IInv, NEW c \in Callers, Destroy(c)
  PROVE  IInv'
<1> DEFINE l == IF NumWorkers = 0 THEN "join" ELSE "start"
<1>1. /\ UNCHANGED <<shared, task, ret, workerVars>>
      /\ \A d \in Callers : pc[d] = "idle"
      /\ command' = [command EXCEPT ![c] = kWorkerExit]
      /\ pc' = [pc EXCEPT ![c] = l]
      /\ pc \in [Callers -> CallerPC] /\ command \in [Callers -> UInt \X UInt]
      /\ DOMAIN pc = Callers /\ DOMAIN command = Callers
  BY DEF Destroy, IInv, TypeOK
<1>2. l \in {"join", "start"} /\ (l = "join" <=> NumWorkers = 0)
  OBVIOUS
<1> HIDE DEF l
<1>3. /\ pc' \in [Callers -> CallerPC] /\ pc'[c] = l
      /\ command'[c] = kWorkerExit
      /\ \A d \in Callers : d # c => pc'[d] = "idle" /\ command'[d] = command[d]
  BY <1>1, <1>2 DEF CallerPC
<1>4. kWorkerExit \in UInt \X UInt /\ kWorkerExit \in Special
  BY DEF Special
<1>5. TypeOK'
  <2> HIDE CommandFacts, ModulusAssumption, NumWorkersAssumption DEF UInt
  <2>1. command' \in [Callers -> UInt \X UInt]
    BY <1>1, <1>4
  <2> QED BY <1>1, <1>3, <2>1 DEF IInv, TypeOK, shared, workerVars
<1>6. CallerAt(c)'
  BY <1>2, <1>3, <1>4 DEF CallerAt
<1>7. CallerInv'
  BY <1>1, <1>3, <1>6, CallerFrame
<1>8. /\ Driver(c)' /\ \A d \in Callers : ~Driver(d)
      /\ \A d \in Callers : d # c => ~Driver(d)'
  BY <1>1, <1>2, <1>3 DEF Driver
<1>9. DriverInv'
  <2>1. \A d \in Callers : command[d] # kWorkerExit
    BY <1>8 DEF IInv, DriverInv
  <2> QED BY <1>3, <1>4, <1>8, <2>1 DEF DriverInv, OneDriver
<1>10. AllReady
  <2>1. \A d \in Callers : ~Started(d)
    BY <1>1 DEF Started
  <2> QED BY <2>1 DEF IInv, WorkerInv, WorkersReadyBetweenRuns
<1>11. AllReady'
  BY <1>1, <1>10 DEF AllReady, shared, workerVars
<1>12. WorkersAt(c)'
  BY <1>2, <1>3 DEF WorkersAt, Quitting
<1>13. WorkerInv'
  BY <1>8, <1>11, <1>12, WorkerFrame
<1>14. RangeInv'
  BY <1>1 DEF IInv, RangeInv, workerVars
<1> QED BY <1>5, <1>7, <1>9, <1>13, <1>14 DEF IInv
-----------------------------------------------------------------------------
(* Steps of the workers. *)

\* A worker that does not wait works for a caller at the barrier, or quits.
LEMMA ActiveWorker ==
  ASSUME IInv, NEW w \in Workers, wpc[w] # "waiting"
  PROVE  \E c \in Callers :
           /\ Driver(c) /\ Started(c)
           /\ \A d \in Callers : d # c => ~Driver(d)
           /\ \/ pc[c] \in {"barrier", "asleep"} /\ Gathering(c)
              \/ pc[c] \in {"join", "destroyed"} /\ Quitting
<1>1. PICK c \in Callers : Started(c)
  BY DEF IInv, WorkerInv, WorkersReadyBetweenRuns, AllReady
<1>2. Driver(c)
  BY <1>1 DEF Started, Driver
<1>3. WorkersAt(c) /\ pc[c] # "notify"
  BY <1>1 DEF IInv, WorkerInv, WorkersAt, Notifying
<1> QED BY <1>1, <1>2, <1>3, Alone DEF Started, WorkersAt

\* A worker moves between two places where it does not wait.
LEMMA WorkerMove ==
  ASSUME IInv, NEW w \in Workers, NEW x \in WorkerPC,
         wpc[w] \in {"woken", "load", "reserve", "task"}, x # "waiting",
         wpc' = [wpc EXCEPT ![w] = x],
         x = "exited" <=> wpc[w] = "woken" /\ worker_start_command_ = kWorkerExit,
         UNCHANGED <<callerVars, depth_, workers_ready_, worker_start_command_>>
  PROVE  CallerInv' /\ DriverInv' /\ WorkerInv'
<1>1. UNCHANGED <<pc, command, task>>
  BY DEF callerVars
<1>2. CallerInv' /\ DriverInv'
  BY <1>1 DEF IInv, CallerInv, CallerAt, DriverInv, OneDriver, Driver
<1>3. wpc \in [Workers -> WorkerPC]
  BY DEF IInv, TypeOK
<1>4. Waiting' = Waiting
  BY <1>3 DEF Waiting
<1>5. PICK c \in Callers :
           /\ Driver(c) /\ Started(c)
           /\ \A d \in Callers : d # c => ~Driver(d)
           /\ \/ pc[c] \in {"barrier", "asleep"} /\ Gathering(c)
              \/ pc[c] \in {"join", "destroyed"} /\ Quitting
  BY ActiveWorker
<1>6. Started(c)' /\ \A d \in Callers : d # c => ~Driver(d)'
  BY <1>1, <1>5 DEF Started, Driver
<1>7. WorkersAt(c)'
  <2>1. CASE pc[c] \in {"barrier", "asleep"} /\ Gathering(c)
    <3>1. command[c] # kWorkerWait
      BY <2>1 DEF Gathering
    <3>2. command[c] # kWorkerExit
      BY <2>1 DEF IInv, CallerInv, CallerAt
    <3>3. x # "exited"
      BY <2>1, <3>2 DEF Gathering
    <3>4. Gathering(c)'
      BY <1>1, <1>3, <1>4, <2>1, <3>1, <3>3 DEF Gathering
    <3> QED BY <1>1, <2>1, <3>4 DEF WorkersAt
  <2>2. CASE pc[c] \in {"join", "destroyed"} /\ Quitting
    <3>1. wpc[w] = "woken" /\ x = "exited"
      BY <2>2 DEF Quitting
    <3>2. Quitting'
      BY <1>3, <2>2, <3>1 DEF Quitting
    <3> QED BY <1>1, <2>2, <3>2 DEF WorkersAt
  <2> QED BY <1>5, <2>1, <2>2
<1>8. WorkerInv'
  BY <1>6, <1>7, WorkerFrame
<1> QED BY <1>2, <1>8

\* A worker obeys the command, sizes or reserves a chunk, or ends a task.
LEMMA BusyWorkerStep ==
  ASSUME IInv, NEW w \in Workers,
         ReadCommand(w) \/ LoadReserved(w) \/ ReserveChunk(w) \/ FinishTask(w)
  PROVE  IInv'
<1>1. /\ UNCHANGED <<callerVars, depth_, workers_ready_, worker_start_command_,
                     jpegxl_opaque_>>
      /\ wpc[w] \in {"woken", "load", "reserve", "task"}
      /\ NumWorkers > 0 /\ wpc \in [Workers -> WorkerPC]
  <2>1. UNCHANGED <<callerVars, depth_, workers_ready_, worker_start_command_,
                    jpegxl_opaque_>>
    BY DEF ReadCommand, LoadReserved, ReserveChunk, FinishTask, shared
  <2>2. wpc[w] \in {"woken", "load", "reserve", "task"}
    BY DEF ReadCommand, LoadReserved, ReserveChunk, FinishTask
  <2>3. NumWorkers > 0 /\ wpc \in [Workers -> WorkerPC]
    BY DEF IInv, TypeOK
  <2> QED BY <2>1, <2>2, <2>3
<1>2. \A v \in Workers : wcommand[v] \in UInt \X UInt /\ wcommand[v][1] \in UInt
                         /\ wcommand[v][2] \in UInt
  BY DEF IInv, TypeOK
<1>3. wcommand' \in [Workers -> UInt \X UInt]
  <2>1. \/ wcommand' = wcommand
        \/ wcommand' = [wcommand EXCEPT ![w] = worker_start_command_]
    BY DEF ReadCommand, LoadReserved, ReserveChunk, FinishTask
  <2>2. /\ wcommand \in [Workers -> UInt \X UInt]
        /\ worker_start_command_ \in UInt \X UInt
    BY DEF IInv, TypeOK
  <2> HIDE CommandFacts, ModulusAssumption, NumWorkersAssumption DEF UInt, Workers
  <2> QED BY <2>1, <2>2
<1>4. my_size' \in [Workers -> UInt]
  <2>1. CASE LoadReserved(w)
    <3>1. wcommand[w][2] - wcommand[w][1] \in UInt
      BY <1>2, <2>1 DEF LoadReserved, IInv, RangeInv, IsRange
    <3>2. ChunkSize(num_reserved_, wcommand[w][2] - wcommand[w][1]) \in UInt
      BY <1>1, <3>1, ChunkSizeType DEF IInv, TypeOK
    <3> QED BY <2>1, <3>2 DEF LoadReserved, IInv, TypeOK
  <2>2. CASE ~LoadReserved(w)
    BY <2>2 DEF ReadCommand, ReserveChunk, FinishTask, IInv, TypeOK
  <2> QED BY <2>1, <2>2
<1>5. num_reserved_' \in UInt
  <2>1. num_reserved_ \in UInt /\ my_size[w] \in UInt
    BY DEF IInv, TypeOK
  <2>2. Add32(num_reserved_, my_size[w]) \in UInt
    BY <2>1, ArithmeticType
  <2> QED BY <2>1, <2>2 DEF ReadCommand, LoadReserved, ReserveChunk, FinishTask,
               shared
<1>6. PICK x \in WorkerPC :
        /\ wpc' = [wpc EXCEPT ![w] = x]
        /\ x # "waiting"
        /\ x = "exited" <=> /\ wpc[w] = "woken"
                            /\ worker_start_command_ = kWorkerExit
        /\ \/ UNCHANGED <<my_task, my_end, opaque>>
           \/ \E t, e \in UInt : BeginTasks(w, t, e)
  <2>1. CASE ReadCommand(w)
    <3>1. w \in UInt /\ w + 1 \in UInt
      OBVIOUS
    <3> QED BY <2>1, <3>1 DEF ReadCommand, WorkerPC, BeginTasks
  <2>2. CASE LoadReserved(w)
    BY <2>2 DEF LoadReserved, WorkerPC
  <2>3. CASE ReserveChunk(w)
    <3> DEFINE b == Add32(wcommand[w][1], num_reserved_)
               e == Min32(Add32(b, my_size[w]), wcommand[w][2])
    <3>1. num_reserved_ \in UInt /\ my_size[w] \in UInt
      BY DEF IInv, TypeOK
    <3>2. b \in UInt
      BY <1>2, <3>1, ArithmeticType
    <3>3. Add32(b, my_size[w]) \in UInt
      BY <3>1, <3>2, ArithmeticType
    <3>4. e \in UInt
      BY <1>2, <3>3, ArithmeticType
    <3>5. /\ wpc[w] = "reserve"
          /\ \/ /\ wpc' = [wpc EXCEPT ![w] = "lock"]
                /\ UNCHANGED <<my_task, my_end, opaque>>
             \/ BeginTasks(w, b, e)
      BY <2>3 DEF ReserveChunk
    <3> HIDE DEF b, e
    <3> QED BY <3>2, <3>4, <3>5 DEF WorkerPC, BeginTasks
  <2>4. CASE FinishTask(w)
    <3>1. my_task[w] \in UInt /\ my_end[w] \in UInt
      BY DEF IInv, TypeOK
    <3>2. my_task[w] + 1 < my_end[w] => my_task[w] + 1 \in UInt
      BY <3>1
    <3> QED BY <2>4, <3>1, <3>2 DEF FinishTask, WorkerPC, BeginTasks
  <2> QED BY <2>1, <2>2, <2>3, <2>4
<1>7. /\ my_task' \in [Workers -> UInt] /\ my_end' \in [Workers -> UInt]
      /\ opaque' \in [Workers -> Callers]
  <2> HIDE CommandFacts, ModulusAssumption, NumWorkersAssumption DEF UInt, Workers
  <2>1. /\ my_task \in [Workers -> UInt] /\ my_end \in [Workers -> UInt]
        /\ opaque \in [Workers -> Callers] /\ jpegxl_opaque_ \in Callers
    BY DEF IInv, TypeOK
  <2>2. CASE UNCHANGED <<my_task, my_end, opaque>>
    BY <2>1, <2>2
  <2>3. CASE \E t, e \in UInt : BeginTasks(w, t, e)
    <3>1. PICK t, e \in UInt : BeginTasks(w, t, e)
      BY <2>3
    <3> QED BY <2>1, <3>1 DEF BeginTasks
  <2> QED BY <1>6, <2>2, <2>3
<1>8. TypeOK'
  <2>1. wpc' \in [Workers -> WorkerPC]
    BY <1>1, <1>6
  <2> HIDE CommandFacts, ModulusAssumption, NumWorkersAssumption DEF UInt, Workers
  <2> QED BY <1>1, <1>3, <1>4, <1>5, <1>7, <2>1 DEF IInv, TypeOK, callerVars
<1>9. CallerInv' /\ DriverInv' /\ WorkerInv'
  BY <1>1, <1>6, WorkerMove
<1>10. RangeInv'
  <2>1. CASE ReadCommand(w)
    <3>1. PICK c \in Callers : Driver(c) /\ (Gathering(c) \/ Quitting)
      BY <1>1, <2>1, ActiveWorker DEF ReadCommand
    <3>2. worker_start_command_ \in Special \/ IsRange(worker_start_command_)
      BY <3>1 DEF Gathering, Quitting, IInv, CallerInv, CallerAt, Special
    <3>3. \A v \in Workers : v # w => wpc'[v] = wpc[v] /\ wcommand'[v] = wcommand[v]
      BY <1>1, <1>6, <2>1 DEF ReadCommand, IInv, TypeOK
    <3>4. wcommand'[w] = worker_start_command_
      BY <2>1 DEF ReadCommand, IInv, TypeOK
    <3>5. \/ wpc'[w] = "task" /\ worker_start_command_ = kWorkerOnce
          \/ wpc'[w] = "exited"
          \/ wpc'[w] = "load" /\ worker_start_command_ \notin Special
      BY <1>1, <2>1 DEF ReadCommand, BeginTasks, Special
    <3> QED BY <3>2, <3>3, <3>4, <3>5 DEF IInv, RangeInv
  <2>2. CASE LoadReserved(w) \/ ReserveChunk(w)
    BY <1>1, <2>2 DEF LoadReserved, ReserveChunk, BeginTasks, IInv, RangeInv
  <2>3. CASE FinishTask(w)
    BY <1>1, <2>3 DEF FinishTask, BeginTasks, IInv, RangeInv
  <2> QED BY <2>1, <2>2, <2>3
<1> QED BY <1>8, <1>9, <1>10 DEF IInv

\* A worker reports and waits again: the count grows with the waiting workers.
LEMMA ReportReadyStep ==
  ASSUME IInv, NEW w \in Workers, ReportReady(w)
  PROVE  IInv'
<1>1. /\ UNCHANGED <<depth_, worker_start_command_, num_reserved_,
                     jpegxl_opaque_, command, task, ret>>
      /\ wpc[w] = "lock" /\ wpc' = [wpc EXCEPT ![w] = "waiting"]
      /\ workers_ready_' = workers_ready_ + 1
      /\ wpc \in [Workers -> WorkerPC] /\ pc \in [Callers -> CallerPC]
  BY DEF ReportReady, IInv, TypeOK
<1>2. PICK c \in Callers :
           /\ Driver(c) /\ Started(c)
           /\ \A d \in Callers : d # c => ~Driver(d)
           /\ \/ pc[c] \in {"barrier", "asleep"} /\ Gathering(c)
              \/ pc[c] \in {"join", "destroyed"} /\ Quitting
  BY <1>1, ActiveWorker
<1>3. pc[c] \in {"barrier", "asleep"} /\ Gathering(c)
  BY <1>1, <1>2 DEF Quitting
<1>4. /\ pc' \in [Callers -> CallerPC] /\ pc'[c] \in {"barrier", "asleep"}
      /\ \A d \in Callers : d # c => pc'[d] = pc[d]
  <2>1. NotifyBarrier(workers_ready_ + 1)
    BY DEF ReportReady
  <2>2. \A d \in Callers : pc[d] = "asleep" => d = c
    BY <1>2 DEF Driver
  <2> QED BY <1>1, <1>3, <2>1, <2>2 DEF NotifyBarrier, CallerPC
<1>5. /\ Cardinality(Waiting') = Cardinality(Waiting) + 1
      /\ Cardinality(Waiting') \in 0..NumWorkers
  BY <1>1, WaitingCount DEF Waiting
<1>6. TypeOK'
  <2>1. workers_ready_' \in 0..NumWorkers
    BY <1>1, <1>3, <1>5 DEF Gathering
  <2>2. wpc' \in [Workers -> WorkerPC]
    BY <1>1 DEF WorkerPC
  <2>3. 0 \in UInt /\ kWorkerWait \in UInt \X UInt
    BY DEF Special
  <2>4. /\ my_size' \in [Workers -> UInt] /\ my_task' \in [Workers -> UInt]
        /\ my_end' \in [Workers -> UInt] /\ opaque' \in [Workers -> Callers]
        /\ wcommand' \in [Workers -> UInt \X UInt]
    <3> HIDE CommandFacts, ModulusAssumption, NumWorkersAssumption
          DEF UInt, Workers
    <3> QED BY <2>3 DEF ReportReady, IInv, TypeOK
  <2> HIDE CommandFacts, ModulusAssumption, NumWorkersAssumption DEF UInt, Workers
  <2> QED BY <1>1, <1>4, <2>1, <2>2, <2>4 DEF IInv, TypeOK
<1>7. Driver(c)' /\ Started(c)' /\ \A d \in Callers : d # c => ~Driver(d)'
  BY <1>2, <1>4 DEF Driver, Started
<1>8. CallerInv'
  <2>1. CallerAt(c)
    BY DEF IInv, CallerInv
  <2>2. CallerAt(c)'
    BY <1>1, <1>2, <1>3, <1>4, <1>7, <2>1 DEF CallerAt
  <2> QED BY <1>1, <1>4, <2>2, CallerFrame
<1>9. DriverInv'
  BY <1>1, <1>2, <1>4, <1>7, DriverFrame
<1>10. WorkerInv'
  <2>1. Gathering(c)'
    BY <1>1, <1>3, <1>5 DEF Gathering
  <2>2. WorkersAt(c)'
    BY <1>4, <2>1 DEF WorkersAt
  <2> QED BY <1>7, <2>2, WorkerFrame
<1>11. RangeInv'
  <2>1. \A v \in Workers : v # w => wpc'[v] = wpc[v] /\ wcommand'[v] = wcommand[v]
    BY <1>1 DEF ReportReady, IInv, TypeOK
  <2> QED BY <1>1, <2>1 DEF IInv, RangeInv
<1> QED BY <1>6, <1>8, <1>9, <1>10, <1>11 DEF IInv
-----------------------------------------------------------------------------
(* The constructor establishes IInv, and every step preserves it. *)

\* The state in which the constructor waits for its workers satisfies IInv.
LEMMA InitInv == Init => IInv
<1> SUFFICES ASSUME Init PROVE IInv
  OBVIOUS
<1>1. kWorkerWait \in UInt \X UInt /\ kWorkerWait \in Special /\ 0 \in UInt
  BY DEF Special
<1>2. TypeOK
  <2>1. pc \in [Callers -> CallerPC] /\ wpc \in [Workers -> WorkerPC]
    BY DEF Init, CallerPC, WorkerPC
  <2>2. depth_ \in Nat /\ workers_ready_ \in 0..NumWorkers /\ num_reserved_ \in UInt
    BY DEF Init
  <2> HIDE CommandFacts, ModulusAssumption, NumWorkersAssumption DEF UInt, Workers
  <2> QED BY <1>1, <2>1, <2>2 DEF Init, TypeOK
<1>3. /\ \A c \in Callers : pc[c] = "idle" \/ (c = Creator /\ pc[c] = "barrier")
      /\ pc[Creator] = "barrier" => NumWorkers > 0
      /\ NumWorkers = 0 \/ pc[Creator] = "barrier"
      /\ \A c \in Callers : command[c] = kWorkerWait
      /\ \A w \in Workers : wpc[w] = "lock"
      /\ worker_start_command_ = kWorkerWait /\ workers_ready_ = 0
  BY DEF Init
<1>4. CallerInv
  BY <1>1, <1>3 DEF CallerInv, CallerAt, Driver
<1>5. DriverInv
  BY <1>1, <1>3 DEF DriverInv, OneDriver, Driver
<1>6. WorkerInv
  <2>1. Waiting = {}
    BY <1>3 DEF Waiting
  <2>2. Gathering(Creator)
    BY <1>3, <2>1, FS_EmptySet DEF Gathering
  <2>3. \A c \in Callers : WorkersAt(c)
    BY <1>3, <2>2 DEF WorkersAt
  <2>4. NumWorkers = 0 => AllReady
    BY <1>3 DEF AllReady
  <2>5. WorkersReadyBetweenRuns
    BY <1>3, <2>4 DEF WorkersReadyBetweenRuns, Started
  <2> QED BY <2>3, <2>5 DEF WorkerInv
<1>7. RangeInv
  BY <1>3 DEF RangeInv
<1> QED BY <1>2, <1>4, <1>5, <1>6, <1>7 DEF IInv

\* Every step of a caller or a worker preserves IInv.
LEMMA NextInv == IInv /\ [Next]_vars => IInv'
<1> SUFFICES ASSUME IInv, [Next]_vars PROVE IInv'
  OBVIOUS
<1>1. ASSUME NEW c \in Callers,
             CallRunner(c) \/ Destroy(c) \/ CallerStep(c) \/ CallerSpuriousWakeup(c)
      PROVE  IInv'
  BY <1>1, CallRunnerStep, DestroyStep, SequentialStep, EnterStep, DriverSteps,
     WorkersReadyBarrierStep, LeaveStep DEF CallerStep
<1>2. ASSUME NEW w \in Workers, WorkerStep(w)
      PROVE  IInv'
  BY <1>2, ReportReadyStep, BusyWorkerStep DEF WorkerStep
<1>3. CASE UNCHANGED vars
  <2>1. /\ UNCHANGED <<depth_, workers_ready_, worker_start_command_,
                       num_reserved_, jpegxl_opaque_>>
        /\ UNCHANGED <<pc, command, task, ret>>
        /\ UNCHANGED <<wpc, wcommand, my_size, my_task, my_end, opaque>>
    BY <1>3 DEF vars, shared, callerVars, workerVars
  <2>2. TypeOK'
    BY <2>1 DEF IInv, TypeOK
  <2>3. CallerInv' /\ DriverInv'
    BY <2>1 DEF IInv, CallerInv, CallerAt, DriverInv, OneDriver, Driver
  <2>4. WorkerInv'
    BY <2>1 DEF IInv, WorkerInv, WorkersReadyBetweenRuns, AllReady, Started,
           WorkersAt, Notifying, Gathering, Quitting, Waiting
  <2>5. RangeInv'
    BY <2>1 DEF IInv, RangeInv
  <2> QED BY <2>2, <2>3, <2>4, <2>5 DEF IInv
<1>4. CASE Destroyed
  BY <1>3, <1>4 DEF Destroyed
<1> QED BY <1>1, <1>2, <1>3, <1>4 DEF Next

\* The inductive invariant holds in every reachable state.
THEOREM InductiveInvariant == Spec => []IInv
<1>1. Init => IInv
  BY InitInv
<1>2. IInv /\ [Next]_vars => IInv'
  BY NextInv
<1> QED BY <1>1, <1>2, PTL DEF Spec

\* The shared fields, atomics and locals of the runner keep their types: in
\* particular workers_ready_ never exceeds the number of workers.
THEOREM TypeCorrect == Spec => []TypeOK
<1>1. IInv => TypeOK
  BY DEF IInv
<1> QED BY <1>1, InductiveInvariant, PTL

\* Between calls all workers wait on worker_start_cv_ with the barrier reset,
\* for any number of callers and workers (thread_parallel_runner_internal.h,
\* the comment above WorkerCommand).
THEOREM WorkersAreReady == Spec => []WorkersReadyBetweenRuns
<1>1. IInv => WorkersReadyBetweenRuns
  BY DEF IInv, WorkerInv
<1> QED BY <1>1, InductiveInvariant, PTL

\* depth_ admits one driver of the workers at a time, however many threads
\* call Runner() and however often they are rejected.
THEOREM OneDriverAtATime == Spec => []OneDriver
<1>1. IInv => OneDriver
  BY DEF IInv, DriverInv
<1> QED BY <1>1, InductiveInvariant, PTL
-----------------------------------------------------------------------------
(* The closure that the tasks use is that of the caller that waits for them. *)

OpaqueAt(c) ==
  pc[c] \in {"start", "notify", "barrier", "asleep"}
    /\ command[c] \notin {kWorkerWait, kWorkerExit} => jpegxl_opaque_ = c

OpaqueInv == /\ \A c \in Callers : OpaqueAt(c)
             /\ \A w \in Workers : wpc[w] = "task" => opaque[w] = jpegxl_opaque_

\* No task runs when data_func_ and jpegxl_opaque_ are about to be written.
LEMMA NoTaskAtPublish ==
  ASSUME IInv, NEW c \in Callers, pc[c] \in {"idle", "publish"},
         pc[c] = "publish" \/ \A d \in Callers : pc[d] = "idle"
  PROVE  \A w \in Workers : wpc[w] # "task"
<1>1. \A d \in Callers : ~Started(d)
  <2>1. CASE pc[c] = "publish"
    <3>1. Driver(c)
      BY <2>1 DEF Driver
    <3>2. \A d \in Callers : d # c => ~Driver(d)
      BY <3>1, Alone
    <3> QED BY <2>1, <3>2 DEF Driver, Started
  <2>2. CASE \A d \in Callers : pc[d] = "idle"
    BY <2>2 DEF Started
  <2> QED BY <2>1, <2>2
<1> QED BY <1>1 DEF IInv, WorkerInv, WorkersReadyBetweenRuns, AllReady

\* A worker inside data_func_ keeps using the jpegxl_opaque_ of the last call.
LEMMA OpaqueNext == IInv /\ OpaqueInv /\ [Next]_vars => OpaqueInv'
<1> SUFFICES ASSUME IInv, OpaqueInv, [Next]_vars PROVE OpaqueInv'
  OBVIOUS
<1>1. /\ pc \in [Callers -> CallerPC] /\ DOMAIN command = Callers
      /\ wpc \in [Workers -> WorkerPC] /\ DOMAIN opaque = Workers
  BY DEF IInv, TypeOK
<1>2. ASSUME NEW c \in Callers, Publish(c)
      PROVE  OpaqueInv'
  <2>1. \A w \in Workers : wpc'[w] # "task"
    BY <1>2, NoTaskAtPublish DEF Publish, workerVars
  <2>2. \A d \in Callers : d # c => ~Driver(d)
    BY <1>2, Alone DEF Publish, Driver
  <2>3. \A d \in Callers : OpaqueAt(d)'
    BY <1>1, <1>2, <2>2 DEF Publish, OpaqueAt, Driver
  <2> QED BY <2>1, <2>3 DEF OpaqueInv
<1>3. ASSUME NEW c \in Callers,
             \/ CallRunner(c) \/ SeqLoop(c) \/ SeqTask(c) \/ Enter(c) \/ Destroy(c)
             \/ Leave(c) \/ Join(c) \/ StartWorkers(c) \/ NotifyWorkers(c)
             \/ CallerSpuriousWakeup(c) \/ WorkersReadyBarrier(c)
      PROVE  OpaqueInv'
  <2>1. jpegxl_opaque_' = jpegxl_opaque_ /\ opaque' = opaque
    BY <1>3 DEF CallRunner, SeqLoop, SeqTask, Enter, Destroy, Leave, Join,
         StartWorkers, NotifyWorkers, CallerSpuriousWakeup, WorkersReadyBarrier,
         shared, workerVars
  <2>2. \A w \in Workers : wpc'[w] = "task" => wpc[w] = "task"
    BY <1>3 DEF CallRunner, SeqLoop, SeqTask, Enter, Destroy, Leave, Join,
         StartWorkers, NotifyWorkers, CallerSpuriousWakeup, WorkersReadyBarrier,
         workerVars
  <2>3. \A d \in Callers : d # c => pc'[d] = pc[d] /\ command'[d] = command[d]
    <3>1. CASE CallRunner(c)
      BY <1>1, <3>1 DEF CallRunner, ReturnWith
    <3>2. CASE Destroy(c) \/ WorkersReadyBarrier(c)
      BY <1>1, <3>2 DEF Destroy, WorkersReadyBarrier
    <3>3. CASE \/ SeqLoop(c) \/ SeqTask(c) \/ Enter(c) \/ Leave(c) \/ Join(c)
               \/ StartWorkers(c) \/ NotifyWorkers(c) \/ CallerSpuriousWakeup(c)
      BY <1>1, <3>3 DEF SeqLoop, SeqTask, Enter, Leave, Join, StartWorkers,
           NotifyWorkers, CallerSpuriousWakeup, ReturnWith
    <3> QED BY <1>3, <3>1, <3>2, <3>3
  <2>4. OpaqueAt(c)'
    <3>1. CASE CallRunner(c)
      <4>1. pc'[c] \in {"idle", "seq", "enter"}
        BY <1>1, <3>1 DEF CallRunner, ReturnWith
      <4> QED BY <4>1 DEF OpaqueAt
    <3>2. CASE Destroy(c)
      <4>1. command'[c] = kWorkerExit
        BY <1>1, <3>2 DEF Destroy
      <4> QED BY <4>1 DEF OpaqueAt
    <3>3. CASE WorkersReadyBarrier(c)
      <4>1. \/ pc'[c] = "asleep" /\ command' = command /\ pc[c] = "barrier"
            \/ pc'[c] \in {"publish", "idle", "leave"}
        BY <1>1, <3>3 DEF WorkersReadyBarrier
      <4> QED BY <2>1, <4>1 DEF OpaqueAt, OpaqueInv
    <3>4. CASE StartWorkers(c) \/ NotifyWorkers(c) \/ CallerSpuriousWakeup(c)
      BY <1>1, <2>1, <3>4 DEF StartWorkers, NotifyWorkers, CallerSpuriousWakeup,
           OpaqueAt, OpaqueInv
    <3>5. CASE SeqLoop(c) \/ SeqTask(c) \/ Enter(c) \/ Leave(c) \/ Join(c)
      <4>1. pc'[c] \in {"idle", "seq", "seqTask", "publish", "destroyed"}
        BY <1>1, <3>5 DEF SeqLoop, SeqTask, Enter, Leave, Join, ReturnWith
      <4> QED BY <4>1 DEF OpaqueAt
    <3> QED BY <1>3, <3>1, <3>2, <3>3, <3>4, <3>5
  <2> QED BY <2>1, <2>2, <2>3, <2>4 DEF OpaqueInv, OpaqueAt
<1>4. ASSUME NEW w \in Workers, WorkerStep(w)
      PROVE  OpaqueInv'
  <2>1. jpegxl_opaque_' = jpegxl_opaque_ /\ command' = command
    BY <1>4 DEF WorkerStep, ReportReady, ReadCommand, LoadReserved, ReserveChunk,
         FinishTask, shared, callerVars
  <2>2. \A c \in Callers : OpaqueAt(c)'
    <3>1. \A c \in Callers : pc'[c] = pc[c] \/ (pc[c] = "asleep" /\ pc'[c] = "barrier")
      BY <1>1, <1>4 DEF WorkerStep, ReportReady, ReadCommand, LoadReserved,
           ReserveChunk, FinishTask, callerVars, NotifyBarrier
    <3> QED BY <2>1, <3>1 DEF OpaqueAt, OpaqueInv
  <2>3. \A v \in Workers : wpc'[v] = "task" =>
          \/ wpc[v] = "task" /\ opaque'[v] = opaque[v]
          \/ opaque'[v] = jpegxl_opaque_
    BY <1>1, <1>4 DEF WorkerStep, ReportReady, ReadCommand, LoadReserved,
         ReserveChunk, FinishTask, BeginTasks
  <2> QED BY <2>1, <2>2, <2>3 DEF OpaqueInv
<1>5. CASE UNCHANGED vars
  BY <1>5 DEF vars, shared, callerVars, workerVars, OpaqueInv, OpaqueAt
<1>6. CASE Destroyed
  BY <1>5, <1>6 DEF Destroyed
<1> QED BY <1>2, <1>3, <1>4, <1>5, <1>6 DEF Next, CallerStep

LEMMA InitOpaque == Init => OpaqueInv
<1> SUFFICES ASSUME Init PROVE OpaqueInv
  OBVIOUS
<1> QED BY DEF Init, OpaqueInv, OpaqueAt

LEMMA TasksHaveCallers == IInv /\ OpaqueInv => NoTaskAfterReturn
<1> SUFFICES ASSUME IInv, OpaqueInv, NEW w \in Workers, wpc[w] = "task"
             PROVE  Running(opaque[w])
  BY DEF NoTaskAfterReturn
<1>1. PICK c \in Callers : pc[c] \in {"barrier", "asleep"} /\ Gathering(c)
  BY ActiveWorker DEF Quitting
<1>2. command[c] \notin {kWorkerWait, kWorkerExit}
  BY <1>1 DEF Gathering, IInv, CallerInv, CallerAt
<1>3. opaque[w] = c
  BY <1>1, <1>2 DEF OpaqueInv, OpaqueAt
<1> QED BY <1>1, <1>2, <1>3 DEF Running

\* Runner() and RunOnEachThread() return only when no worker is inside
\* data_func_ any more: a task never outlives the call that owns its closure.
THEOREM NoTaskOutlivesItsCall == Spec => []NoTaskAfterReturn
BY InitOpaque, TasksHaveCallers, OpaqueNext, InductiveInvariant, PTL DEF Spec
-----------------------------------------------------------------------------
(* The ranges that the workers share out.                                  *)

\* Tasks of a range, and the largest chunk of it.
NumTasks(r) == r[2] - r[1]
Largest(r) == Max32(NumTasks(r) \div (NumWorkers * 4), 1)

\* Workers that will reserve nothing more in this run.
Through == {w \in Workers : wpc[w] \in {"lock", "waiting"}}

\* num_reserved_ goes past the end of a range, by a chunk that straddles the
\* end and one of each worker that sized it before; this is room for them.
RangesLeaveRoom ==
  \A r \in Ranges : r[1] < r[2] /\ NumWorkers > 0
                      => r[2] + Largest(r) + NumWorkers * Largest(r) <= Modulus

\* The range of a command is one that Runner() was called with.
GivenInv == \A c \in Callers : IsRange(command[c]) => command[c] \in Ranges

\* A worker in the run of range r.
WorkerInRange(w, r) ==
  /\ wpc[w] \in {"load", "reserve", "task"} => wcommand[w] = r
  /\ wpc[w] = "reserve" => 1 <= my_size[w] /\ my_size[w] <= Largest(r)
  /\ wpc[w] = "task" => /\ r[1] <= my_task[w] /\ my_task[w] < my_end[w]
                        /\ my_end[w] <= r[2] /\ my_end[w] <= r[1] + num_reserved_
  /\ wpc[w] \in {"lock", "waiting"} => num_reserved_ >= NumTasks(r)

\* No two workers have a task in common.
ChunksDisjoint ==
  \A v, w \in Workers : v # w /\ wpc[v] = "task" /\ wpc[w] = "task"
    => my_end[v] <= my_task[w] \/ my_end[w] <= my_task[v]

RunInRange(r) ==
  /\ num_reserved_ < NumTasks(r) + Largest(r) + Cardinality(Through) * Largest(r)
  /\ \A w \in Workers : WorkerInRange(w, r)
  /\ ChunksDisjoint

\* RunOnEachThread(): each worker runs the task of its own number.
RunOnce ==
  \A w \in Workers :
    /\ wpc[w] \notin {"load", "reserve"}
    /\ wpc[w] = "task" => /\ wcommand[w] = kWorkerOnce
                          /\ my_task[w] = w /\ my_end[w] = w + 1

RunAt(c) ==
  /\ IsRange(command[c]) =>
       /\ pc[c] \in {"start", "notify"} => num_reserved_ = 0
       /\ pc[c] \in {"barrier", "asleep"} => RunInRange(command[c])
       /\ pc[c] = "leave" => num_reserved_ >= NumTasks(command[c])
  /\ command[c] = kWorkerOnce /\ pc[c] \in {"barrier", "asleep"} => RunOnce

RunInv == GivenInv /\ \A c \in Callers : RunAt(c)


LEMMA Multiples ==
  ASSUME NEW L \in Nat, NEW n \in Nat, NEW k \in Nat
  PROVE  /\ k * L \in Nat /\ n * L \in Nat /\ (k + 1) * L = k * L + L
         /\ k < n => k * L + L <= n * L
<1>1. k * L \in Nat /\ n * L \in Nat /\ (k + 1) * L = k * L + L
  OBVIOUS
<1>2. ASSUME k < n PROVE k * L + L <= n * L
  <2>1. PICK d \in Nat : n = (k + 1) + d
    <3>1. n - (k + 1) \in Nat /\ n = (k + 1) + (n - (k + 1))
      BY <1>2
    <3> QED BY <3>1
  <2>2. n * L = (k * L + L) + d * L /\ d * L \in Nat
    BY <2>1
  <2> QED BY <1>1, <2>2
<1> QED BY <1>1, <1>2

\* A chunk has between one and Largest() tasks.
LEMMA ChunkSizeBounds ==
  ASSUME NumWorkers > 0, NEW r \in UInt \X UInt, IsRange(r), NEW n \in UInt
  PROVE  /\ NumTasks(r) \in UInt /\ NumTasks(r) >= 1
         /\ Largest(r) \in Nat /\ Largest(r) >= 1
         /\ 1 <= ChunkSize(n, NumTasks(r)) /\ ChunkSize(n, NumTasks(r)) <= Largest(r)
<1> DEFINE d == NumWorkers * 4
           rest == NumTasks(r) - Min32(n, NumTasks(r))
<1>1. /\ NumTasks(r) \in UInt /\ NumTasks(r) >= 1
      /\ rest \in UInt /\ rest <= NumTasks(r) /\ d \in Nat /\ d > 0
  BY DEF NumTasks, IsRange, Min32
<1>2. \A a, b, e \in Nat : e > 0 /\ a <= b => a \div e \in Nat /\ b \div e \in Nat /\ a \div e <= b \div e
  <2> SUFFICES ASSUME NEW a \in Nat, NEW b \in Nat, NEW e \in Nat, e > 0, a <= b
               PROVE  a \div e \in Nat /\ b \div e \in Nat /\ a \div e <= b \div e
    OBVIOUS
  <2> DEFINE x == a \div e
             y == b \div e
  <2>1. /\ x \in Nat /\ y \in Nat
        /\ x * e <= a /\ b < y * e + e
    BY SMT
  <2> HIDE DEF x, y
  <2>2. x <= y
    <3> SUFFICES ASSUME y < x PROVE FALSE
      BY <2>1
    <3>1. y * e + e <= x * e /\ y * e \in Nat /\ x * e \in Nat
      BY <2>1, Multiples
    <3> QED BY <2>1, <3>1
  <2> QED BY <2>1, <2>2 DEF x, y
<1>3. /\ rest \div d \in Nat /\ NumTasks(r) \div d \in Nat
      /\ rest \div d <= NumTasks(r) \div d
  BY <1>1, <1>2
<1>4. ChunkSize(n, NumTasks(r)) = Max32(rest \div d, 1) /\ Largest(r) = Max32(NumTasks(r) \div d, 1)
  BY DEF ChunkSize, Largest
<1> HIDE DEF rest, d
<1>5. /\ Largest(r) \in Nat /\ Largest(r) >= 1
      /\ 1 <= ChunkSize(n, NumTasks(r)) /\ ChunkSize(n, NumTasks(r)) <= Largest(r)
  BY <1>3, <1>4 DEF Max32
<1> QED BY <1>1, <1>5

\* The number of workers that are through, with one that is not yet.
LEMMA ThroughCount ==
  /\ IsFiniteSet(Through) /\ Cardinality(Through) \in Nat
  /\ \A w \in Workers : w \notin Through =>
       /\ Cardinality(Through) < NumWorkers
       /\ Cardinality(Through \cup {w}) = Cardinality(Through) + 1
<1>1. IsFiniteSet(Workers) /\ Cardinality(Workers) = NumWorkers
  BY FS_Interval
<1>2. Through \subseteq Workers
  BY DEF Through
<1>3. IsFiniteSet(Through) /\ Cardinality(Through) \in Nat /\ Cardinality(Through) <= NumWorkers
  BY <1>1, <1>2, FS_Subset, FS_CardinalityType
<1>4. ASSUME NEW w \in Workers, w \notin Through
      PROVE  /\ Cardinality(Through) < NumWorkers
             /\ Cardinality(Through \cup {w}) = Cardinality(Through) + 1
  <2>1. Cardinality(Through \cup {w}) = Cardinality(Through) + 1
    BY <1>3, <1>4, FS_AddElement
  <2>2. Through \cup {w} \subseteq Workers
    BY <1>2
  <2>3. Cardinality(Through \cup {w}) <= NumWorkers
    BY <1>1, <2>2, FS_Subset
  <2> QED BY <1>3, <2>1, <2>3
<1> QED BY <1>3, <1>4

\* Reservations do not wrap.
LEMMA NoWrap ==
  ASSUME RangesLeaveRoom, IInv, NEW r \in Ranges, IsRange(r), RunInRange(r),
         NEW w \in Workers, wpc[w] = "reserve"
  PROVE  /\ r[1] + num_reserved_ + my_size[w] < Modulus
         /\ num_reserved_ + my_size[w] < Modulus
         /\ r[1] \in UInt /\ r[2] \in UInt
         /\ num_reserved_ \in UInt /\ my_size[w] \in UInt
         /\ 1 <= my_size[w] /\ my_size[w] <= Largest(r)
<1> DEFINE L == Largest(r)
           k == Cardinality(Through)
<1>1. r \in UInt \X UInt /\ r[1] \in UInt /\ r[2] \in UInt
  BY RangesAssumption
<1>2. num_reserved_ \in UInt /\ my_size[w] \in UInt /\ NumWorkers > 0 /\ NumWorkers \in Nat
  BY DEF IInv, TypeOK
<1>3. L \in Nat /\ L >= 1
  BY <1>1, <1>2, ChunkSizeBounds
<1>4. 1 <= my_size[w] /\ my_size[w] <= L
  BY DEF RunInRange, WorkerInRange
<1>5. num_reserved_ < r[2] - r[1] + L + k * L
  BY DEF RunInRange, NumTasks
<1>6. w \notin Through
  BY DEF Through
<1>7. k \in Nat /\ k < NumWorkers
  BY <1>6, ThroughCount
<1>8. r[2] + L + NumWorkers * L <= Modulus
  BY <1>2 DEF RangesLeaveRoom, IsRange
<1> HIDE DEF L, k
<1>9. k * L \in Nat /\ NumWorkers * L \in Nat /\ k * L + L <= NumWorkers * L
  BY <1>2, <1>3, <1>7, Multiples
<1>10. r[1] + num_reserved_ + my_size[w] < Modulus
  BY <1>1, <1>2, <1>3, <1>4, <1>5, <1>8, <1>9
<1>11. num_reserved_ + my_size[w] < Modulus
  BY <1>1, <1>2, <1>10
<1> QED BY <1>1, <1>2, <1>4, <1>10, <1>11 DEF L


\* A worker in the run of a range obeys, sizes or reserves a chunk, or ends a
\* task: chunks stay disjoint, and below what is reserved.
LEMMA BusyWorkerRange ==
  ASSUME RangesLeaveRoom, IInv, NEW r \in Ranges, IsRange(r), RunInRange(r),
         worker_start_command_ = r, NEW w \in Workers,
         ReadCommand(w) \/ LoadReserved(w) \/ ReserveChunk(w) \/ FinishTask(w)
  PROVE  RunInRange(r)'
<1> DEFINE L == Largest(r)
           k == Cardinality(Through)
           n == NumTasks(r)
<1>0. /\ r \in UInt \X UInt /\ r[1] \in UInt /\ r[2] \in UInt
      /\ NumWorkers > 0 /\ num_reserved_ \in UInt
  BY RangesAssumption DEF IInv, TypeOK
<1>1. /\ wpc \in [Workers -> WorkerPC]
      /\ wcommand \in [Workers -> UInt \X UInt]
      /\ my_size \in [Workers -> UInt] /\ my_task \in [Workers -> UInt]
      /\ my_end \in [Workers -> UInt]
  BY DEF IInv, TypeOK
<1>special. r \notin Special
  BY CommandFacts
<1>2. /\ L \in Nat /\ L >= 1 /\ n \in UInt /\ n >= 1
      /\ 1 <= ChunkSize(num_reserved_, n) /\ ChunkSize(num_reserved_, n) <= L
  BY <1>0, ChunkSizeBounds
<1>3. k \in Nat /\ k * L \in Nat /\ (k + 1) * L = k * L + L
  <2>1. k \in Nat
    BY ThroughCount
  <2> QED BY <1>2, <2>1, Multiples
<1>4. /\ num_reserved_ < n + L + k * L
      /\ \A v \in Workers : WorkerInRange(v, r)
      /\ ChunksDisjoint
  BY DEF RunInRange
<1>5. n = r[2] - r[1]
  BY DEF NumTasks
<1> HIDE DEF L, k, n
\* Another worker is where it was, and no fewer tasks are reserved.
<1>6. ASSUME num_reserved_' \in UInt, num_reserved_' >= num_reserved_, NEW v \in Workers,
             wpc'[v] = wpc[v], wcommand'[v] = wcommand[v], my_size'[v] = my_size[v],
             my_task'[v] = my_task[v], my_end'[v] = my_end[v]
      PROVE  WorkerInRange(v, r)'
  <2>1. WorkerInRange(v, r)
    BY <1>4
  <2>2. my_end[v] \in UInt /\ r[1] + num_reserved_ <= r[1] + num_reserved_'
    BY <1>0, <1>1, <1>6
  <2>3. NumTasks(r) \in Int
    BY <1>2 DEF n
  <2> QED BY <1>0, <1>6, <2>1, <2>2, <2>3 DEF WorkerInRange
\* The chunks do not change and no worker is through.
<1>7. ASSUME num_reserved_' = num_reserved_, Through' = Through,
             \A v \in Workers : WorkerInRange(v, r)', ChunksDisjoint'
      PROVE  RunInRange(r)'
  BY <1>4, <1>7 DEF RunInRange, L, k, n
<1>8. CASE ReadCommand(w)
  <2>1. /\ wpc[w] = "woken" /\ wpc' = [wpc EXCEPT ![w] = "load"]
        /\ wcommand' = [wcommand EXCEPT ![w] = r]
        /\ UNCHANGED <<num_reserved_, my_size, my_task, my_end>>
    BY <1>special, <1>8 DEF ReadCommand, shared, Special
  <2>2. Through' = Through
    BY <1>1, <2>1 DEF Through
  <2>3. \A v \in Workers : WorkerInRange(v, r)'
    <3>1. WorkerInRange(w, r)'
      BY <1>1, <2>1 DEF WorkerInRange
    <3>2. \A v \in Workers \ {w} : WorkerInRange(v, r)'
      <4>1. num_reserved_' \in UInt /\ num_reserved_' >= num_reserved_
        BY <1>0, <2>1
      <4>2. \A v \in Workers \ {w} :
              /\ wpc'[v] = wpc[v] /\ wcommand'[v] = wcommand[v]
              /\ my_size'[v] = my_size[v] /\ my_task'[v] = my_task[v] /\ my_end'[v] = my_end[v]
        BY <1>1, <2>1
      <4> QED BY <1>6, <4>1, <4>2
    <3> QED BY <3>1, <3>2
  <2>4. ChunksDisjoint'
    BY <1>1, <1>4, <2>1 DEF ChunksDisjoint
  <2> QED BY <1>7, <2>1, <2>2, <2>3, <2>4
<1>9. CASE LoadReserved(w)
  <2>1. wcommand[w] = r
    BY <1>4, <1>9 DEF LoadReserved, WorkerInRange
  <2>2. /\ wpc[w] = "load" /\ wpc' = [wpc EXCEPT ![w] = "reserve"]
        /\ my_size' = [my_size EXCEPT ![w] = ChunkSize(num_reserved_, n)]
        /\ UNCHANGED <<num_reserved_, wcommand, my_task, my_end>>
    BY <1>5, <1>9, <2>1 DEF LoadReserved, shared
  <2>3. Through' = Through
    BY <1>1, <2>2 DEF Through
  <2>4. \A v \in Workers : WorkerInRange(v, r)'
    <3>1. my_size'[w] = ChunkSize(num_reserved_, n) /\ wpc'[w] = "reserve" /\ wcommand'[w] = r
      BY <1>1, <2>1, <2>2
    <3>2. WorkerInRange(w, r)'
      BY <1>2, <3>1 DEF WorkerInRange, L
    <3>3. \A v \in Workers \ {w} : WorkerInRange(v, r)'
      <4>1. num_reserved_' \in UInt /\ num_reserved_' >= num_reserved_
        BY <1>0, <2>2
      <4>2. \A v \in Workers \ {w} :
              /\ wpc'[v] = wpc[v] /\ wcommand'[v] = wcommand[v]
              /\ my_size'[v] = my_size[v] /\ my_task'[v] = my_task[v] /\ my_end'[v] = my_end[v]
        BY <1>1, <2>2
      <4> QED BY <1>6, <4>1, <4>2
    <3> QED BY <3>2, <3>3
  <2>5. ChunksDisjoint'
    BY <1>1, <1>4, <2>2 DEF ChunksDisjoint
  <2> QED BY <1>7, <2>2, <2>3, <2>4, <2>5
<1>10. CASE ReserveChunk(w)
  <2> DEFINE size == my_size[w]
             begin == r[1] + num_reserved_
             end == Min32(begin + size, r[2])
  <2>1. wpc[w] = "reserve" /\ wcommand[w] = r
    BY <1>4, <1>10 DEF ReserveChunk, WorkerInRange
  <2>2. /\ begin + size < Modulus /\ num_reserved_ + size < Modulus
        /\ size \in UInt /\ 1 <= size /\ size <= L
    BY <2>1, NoWrap DEF L
  <2>3. /\ Add32(r[1], num_reserved_) = begin /\ Add32(begin, size) = begin + size
        /\ Add32(num_reserved_, size) = num_reserved_ + size
        /\ begin \in UInt /\ num_reserved_ + size \in UInt
    BY <1>0, <2>2 DEF Add32
  <2>4. /\ num_reserved_' = num_reserved_ + size
        /\ \/ begin >= end /\ wpc' = [wpc EXCEPT ![w] = "lock"] /\ UNCHANGED <<my_task, my_end>>
           \/ begin < end /\ BeginTasks(w, begin, end)
        /\ UNCHANGED <<wcommand, my_size>>
    BY <1>10, <2>1, <2>3 DEF ReserveChunk
  <2>5. end \in UInt /\ end <= r[2] /\ end <= begin + size
    BY <1>0, <2>2, <2>3 DEF Min32
  <2>6. ASSUME NEW v \in Workers, v # w, my_task'[v] = my_task[v], my_end'[v] = my_end[v],
               wpc'[v] = wpc[v]
        PROVE  WorkerInRange(v, r)'
    <3>1. num_reserved_' \in UInt /\ num_reserved_' >= num_reserved_
      BY <1>0, <2>2, <2>3, <2>4
    <3> HIDE DEF begin, end
    <3> QED BY <1>6, <2>4, <2>6, <3>1
  <2>7. CASE begin >= end
    <3>1. wpc' = [wpc EXCEPT ![w] = "lock"] /\ UNCHANGED <<my_task, my_end>>
      <4>1. ~(begin < end)
        BY <2>3, <2>5, <2>7
      <4> HIDE DEF begin, end
      <4> QED BY <2>4, <4>1
    <3>2. num_reserved_ >= n
      BY <1>0, <1>5, <2>2, <2>3, <2>7 DEF Min32
    <3>3. Through' = Through \cup {w} /\ w \notin Through
      BY <1>1, <2>1, <3>1 DEF Through
    <3>4. Cardinality(Through)' = k + 1
      BY <3>3, ThroughCount DEF k
    <3>5. num_reserved_' < n + L + (k + 1) * L
      <4> DEFINE m == k * L
      <4>1. m \in Nat /\ num_reserved_ < n + L + m /\ (k + 1) * L = m + L
        BY <1>3, <1>4
      <4> HIDE DEF m
      <4>2. num_reserved_ + size < n + L + (m + L)
        BY <1>0, <1>2, <2>2, <4>1
      <4> QED BY <2>4, <4>1, <4>2
    <3>6. num_reserved_' < NumTasks(r) + Largest(r) + Cardinality(Through)' * Largest(r)
      BY <3>4, <3>5 DEF n, L
    <3>7. WorkerInRange(w, r)'
      <4>1. wpc'[w] = "lock" /\ num_reserved_' >= n
        <5>1. wpc'[w] = "lock"
          BY <1>1, <3>1
        <5>2. num_reserved_' >= n
          BY <1>0, <1>2, <2>2, <2>4, <3>2
        <5> QED BY <5>1, <5>2
      <4> QED BY <4>1 DEF WorkerInRange, n
    <3>8. \A v \in Workers : WorkerInRange(v, r)'
      BY <1>1, <2>6, <3>1, <3>7
    <3>9. ChunksDisjoint'
      BY <1>1, <1>4, <3>1 DEF ChunksDisjoint
    <3> QED BY <3>6, <3>8, <3>9 DEF RunInRange
  <2>8. CASE begin < end
    <3>1. /\ wpc' = [wpc EXCEPT ![w] = "task"]
          /\ my_task' = [my_task EXCEPT ![w] = begin]
          /\ my_end' = [my_end EXCEPT ![w] = end]
      <4>1. ~(begin >= end)
        BY <2>3, <2>5, <2>8
      <4> HIDE DEF begin, end
      <4> QED BY <2>4, <4>1 DEF BeginTasks
    <3>2. num_reserved_ < n
      BY <1>0, <1>5, <2>2, <2>3, <2>5, <2>8
    <3>3. Through' = Through
      BY <1>1, <2>1, <3>1 DEF Through
    <3>4. num_reserved_' < n + L + k * L
      <4> DEFINE m == k * L
      <4>1. m \in Nat
        BY <1>3
      <4> HIDE DEF m
      <4>2. num_reserved_ + size < n + L + m
        BY <1>0, <1>2, <2>2, <3>2, <4>1
      <4> QED BY <2>4, <4>2 DEF m
    <3>5. num_reserved_' < NumTasks(r) + Largest(r) + Cardinality(Through)' * Largest(r)
      BY <3>3, <3>4 DEF n, L, k
    <3>6. WorkerInRange(w, r)'
      <4>1. wpc'[w] = "task" /\ my_task'[w] = begin /\ my_end'[w] = end /\ wcommand'[w] = r
        BY <1>1, <2>1, <2>4, <3>1
      <4>2. r[1] <= begin /\ begin < end /\ end <= r[2] /\ end <= r[1] + num_reserved_'
        BY <1>0, <2>2, <2>3, <2>4, <2>5, <2>8
      <4> HIDE DEF begin, end
      <4> QED BY <4>1, <4>2 DEF WorkerInRange
    <3>7. \A v \in Workers : WorkerInRange(v, r)'
      BY <1>1, <2>6, <3>1, <3>6
    <3>8. ChunksDisjoint'
      <4>1. \A v \in Workers \ {w} : /\ wpc'[v] = wpc[v] /\ my_task'[v] = my_task[v]
                                     /\ my_end'[v] = my_end[v]
        BY <1>1, <3>1
      <4>2. my_task'[w] = begin
        BY <1>1, <3>1
      <4>3. \A v \in Workers \ {w} : wpc[v] = "task" => my_end[v] <= begin
        BY <1>4 DEF WorkerInRange
      <4> HIDE DEF begin, end
      <4> QED BY <1>4, <4>1, <4>2, <4>3 DEF ChunksDisjoint
    <3> QED BY <3>5, <3>7, <3>8 DEF RunInRange
  <2> QED BY <2>3, <2>5, <2>7, <2>8
<1>11. CASE FinishTask(w)
  <2>1. /\ wpc[w] = "task" /\ wcommand[w] = r
        /\ r[1] <= my_task[w] /\ my_task[w] < my_end[w]
        /\ my_end[w] <= r[2] /\ my_end[w] <= r[1] + num_reserved_
    BY <1>4, <1>11 DEF FinishTask, WorkerInRange
  <2>2. UNCHANGED <<num_reserved_, wcommand, my_size>>
    BY <1>11 DEF FinishTask, shared
  <2>3. CASE my_task[w] + 1 < my_end[w]
    <3>1. /\ wpc' = [wpc EXCEPT ![w] = "task"]
          /\ my_task' = [my_task EXCEPT ![w] = my_task[w] + 1]
          /\ my_end' = [my_end EXCEPT ![w] = my_end[w]]
      BY <1>1, <1>11, <2>3 DEF FinishTask, BeginTasks
    <3>2. Through' = Through
      BY <1>1, <2>1, <3>1 DEF Through
    <3>3. /\ wpc'[w] = "task" /\ my_task'[w] = my_task[w] + 1 /\ my_end'[w] = my_end[w]
          /\ \A v \in Workers \ {w} : /\ wpc'[v] = wpc[v] /\ my_task'[v] = my_task[v]
                                      /\ my_end'[v] = my_end[v]
      BY <1>1, <3>1
    <3>4. WorkerInRange(w, r)'
      <4>1. my_task[w] \in UInt /\ my_end[w] \in UInt
        BY <1>1
      <4> QED BY <1>0, <2>1, <2>2, <2>3, <3>3, <4>1 DEF WorkerInRange
    <3>5. \A v \in Workers : WorkerInRange(v, r)'
      <4>1. num_reserved_' \in UInt /\ num_reserved_' >= num_reserved_
        BY <1>0, <2>2
      <4> QED BY <1>6, <2>2, <3>3, <3>4, <4>1
    <3>6. ChunksDisjoint'
      <4> SUFFICES ASSUME NEW u \in Workers, NEW v \in Workers, u # v,
                          wpc'[u] = "task", wpc'[v] = "task"
                   PROVE  my_end'[u] <= my_task'[v] \/ my_end'[v] <= my_task'[u]
        BY DEF ChunksDisjoint
      <4>1. wpc[u] = "task" /\ wpc[v] = "task"
        BY <2>1, <3>3
      <4>2. my_end[u] <= my_task[v] \/ my_end[v] <= my_task[u]
        BY <1>4, <4>1 DEF ChunksDisjoint
      <4>3. \A x \in Workers : my_end'[x] = my_end[x] /\ my_task[x] <= my_task'[x]
                               /\ my_task[x] \in Int /\ my_task'[x] \in Int /\ my_end[x] \in Int
        <5>1. \A x \in Workers : my_task[x] \in UInt /\ my_end[x] \in UInt
          BY <1>1
        <5> QED BY <3>3, <5>1
      <4> QED BY <4>2, <4>3
    <3> QED BY <1>7, <2>2, <3>2, <3>5, <3>6
  <2>4. CASE ~(my_task[w] + 1 < my_end[w])
    <3>1. wpc' = [wpc EXCEPT ![w] = "load"] /\ UNCHANGED <<my_task, my_end>>
      <4>1. wcommand[w] # kWorkerOnce
        BY <1>special, <2>1 DEF Special
      <4> QED BY <1>11, <2>4, <4>1 DEF FinishTask
    <3>2. Through' = Through
      BY <1>1, <2>1, <3>1 DEF Through
    <3>3. wpc'[w] = "load" /\ \A v \in Workers \ {w} : wpc'[v] = wpc[v]
      BY <1>1, <3>1
    <3>4. WorkerInRange(w, r)'
      BY <2>1, <2>2, <3>3 DEF WorkerInRange
    <3>5. \A v \in Workers : WorkerInRange(v, r)'
      <4>1. num_reserved_' \in UInt /\ num_reserved_' >= num_reserved_
        BY <1>0, <2>2
      <4> QED BY <1>6, <2>2, <3>1, <3>3, <3>4, <4>1
    <3>6. ChunksDisjoint'
      BY <1>4, <3>1, <3>3 DEF ChunksDisjoint
    <3> QED BY <1>7, <2>2, <3>2, <3>5, <3>6
  <2> QED BY <2>3, <2>4
<1> QED BY <1>8, <1>9, <1>10, <1>11


\* A worker reports to the barrier: it was through already.
LEMMA ReportReadyRange ==
  ASSUME IInv, NEW r, RunInRange(r), NEW w \in Workers, ReportReady(w)
  PROVE  RunInRange(r)'
<1>1. /\ wpc \in [Workers -> WorkerPC]
      /\ wcommand \in [Workers -> UInt \X UInt]
      /\ my_size \in [Workers -> UInt] /\ my_task \in [Workers -> UInt]
      /\ my_end \in [Workers -> UInt]
  BY DEF IInv, TypeOK
<1>2. /\ wpc[w] = "lock" /\ wpc' = [wpc EXCEPT ![w] = "waiting"]
      /\ num_reserved_' = num_reserved_
      /\ \A v \in Workers \ {w} :
           /\ wpc'[v] = wpc[v] /\ wcommand'[v] = wcommand[v]
           /\ my_size'[v] = my_size[v] /\ my_task'[v] = my_task[v] /\ my_end'[v] = my_end[v]
  BY <1>1 DEF ReportReady
<1>3. wpc'[w] = "waiting"
  BY <1>1, <1>2
<1>4. Through' = Through
  BY <1>1, <1>2 DEF Through
<1>5. \A v \in Workers : WorkerInRange(v, r)
  BY DEF RunInRange
<1>6. WorkerInRange(w, r)'
  BY <1>2, <1>3, <1>5 DEF WorkerInRange
<1>7. \A v \in Workers \ {w} : WorkerInRange(v, r)'
  BY <1>2, <1>5 DEF WorkerInRange
<1>8. ChunksDisjoint'
  BY <1>2, <1>3 DEF RunInRange, ChunksDisjoint
<1> QED BY <1>2, <1>4, <1>6, <1>7, <1>8 DEF RunInRange

\* A worker in RunOnEachThread() runs its own task and no other.
LEMMA WorkerOnce ==
  ASSUME IInv, RunOnce, worker_start_command_ = kWorkerOnce, NEW w \in Workers, WorkerStep(w)
  PROVE  RunOnce'
<1>1. /\ wpc \in [Workers -> WorkerPC]
      /\ wcommand \in [Workers -> UInt \X UInt]
      /\ my_task \in [Workers -> UInt] /\ my_end \in [Workers -> UInt]
  BY DEF IInv, TypeOK
<1>2. /\ wpc[w] \notin {"load", "reserve"}
      /\ wpc[w] = "task" => /\ wcommand[w] = kWorkerOnce
                            /\ my_task[w] = w /\ my_end[w] = w + 1
  BY DEF RunOnce
<1>3. \A v \in Workers \ {w} :
        /\ wpc'[v] = wpc[v] /\ wcommand'[v] = wcommand[v]
        /\ my_task'[v] = my_task[v] /\ my_end'[v] = my_end[v]
  BY <1>1 DEF WorkerStep, ReportReady, ReadCommand, LoadReserved, ReserveChunk, FinishTask,
              BeginTasks
<1>4. /\ wpc'[w] \notin {"load", "reserve"}
      /\ wpc'[w] = "task" => /\ wcommand'[w] = kWorkerOnce
                             /\ my_task'[w] = w /\ my_end'[w] = w + 1
  <2>1. CASE ReportReady(w)
    BY <1>1, <2>1 DEF ReportReady
  <2>2. CASE ReadCommand(w)
    <3>1. BeginTasks(w, w, w + 1) /\ wcommand' = [wcommand EXCEPT ![w] = kWorkerOnce]
      BY <2>2 DEF ReadCommand
    <3> QED BY <1>1, <3>1 DEF BeginTasks
  <2>3. CASE FinishTask(w)
    <3>1. wpc[w] = "task" /\ ~(my_task[w] + 1 < my_end[w])
      BY <1>2, <2>3 DEF FinishTask
    <3>2. wpc' = [wpc EXCEPT ![w] = "lock"]
      BY <1>2, <2>3, <3>1 DEF FinishTask
    <3> QED BY <1>1, <3>2
  <2>4. CASE LoadReserved(w) \/ ReserveChunk(w)
    BY <1>2, <2>4 DEF LoadReserved, ReserveChunk
  <2> QED BY <2>1, <2>2, <2>3, <2>4 DEF WorkerStep
<1> QED BY <1>3, <1>4 DEF RunOnce

\* It is enough to look at the driver.
LEMMA RunFrame ==
  ASSUME NEW c \in Callers, \A d \in Callers : d # c => ~Driver(d)', RunAt(c)', GivenInv'
  PROVE  RunInv'
<1>1. \A d \in Callers : ~Driver(d)' => RunAt(d)'
  BY DEF Driver, RunAt
<1> QED BY <1>1 DEF RunInv

\* A step that touches neither the workers nor num_reserved_ and moves only c.
LEMMA RunBystander ==
  ASSUME RunInv, NEW c \in Callers, RunAt(c)',
         IsRange(command'[c]) => command'[c] \in Ranges,
         \A d \in Callers : d # c => pc'[d] = pc[d] /\ command'[d] = command[d],
         UNCHANGED <<num_reserved_, workerVars>>
  PROVE  RunInv'
<1>1. UNCHANGED <<num_reserved_, wpc, wcommand, my_size, my_task, my_end>>
  BY DEF workerVars
<1>2. GivenInv'
  BY DEF RunInv, GivenInv, IsRange
<1>3. \A r : RunInRange(r)' <=> RunInRange(r)
  BY <1>1 DEF RunInRange, WorkerInRange, ChunksDisjoint, Through
<1>4. RunOnce' <=> RunOnce
  BY <1>1 DEF RunOnce
<1>5. \A d \in Callers : d # c => RunAt(d)'
  BY <1>1, <1>3, <1>4 DEF RunInv, RunAt, IsRange
<1> QED BY <1>2, <1>5 DEF RunInv

\* A caller moves to where nothing is asked of the workers.
LEMMA QuietRun ==
  ASSUME IInv, RunInv, NEW c \in Callers,
         \/ CallRunner(c) \/ SeqLoop(c) \/ SeqTask(c) \/ Enter(c) \/ Leave(c)
         \/ Destroy(c) \/ Join(c)
  PROVE  RunInv'
<1>1. pc \in [Callers -> CallerPC] /\ command \in [Callers -> UInt \X UInt]
  BY DEF IInv, TypeOK
<1>2. UNCHANGED <<num_reserved_, workerVars>>
  BY DEF CallRunner, SeqLoop, SeqTask, Enter, Leave, Destroy, Join, shared
<1>3. \A d \in Callers : d # c => pc'[d] = pc[d] /\ command'[d] = command[d]
  BY <1>1 DEF CallRunner, SeqLoop, SeqTask, Enter, Leave, Destroy, Join, ReturnWith
<1>4. IsRange(command'[c]) => command'[c] \in Ranges
  <2>1. CASE CallRunner(c)
    BY <1>1, <2>1 DEF CallRunner, RunInv, GivenInv
  <2>2. CASE Destroy(c)
    BY <1>1, <2>2 DEF Destroy
  <2>3. CASE \/ SeqLoop(c) \/ SeqTask(c) \/ Enter(c) \/ Leave(c) \/ Join(c)
    BY <2>3 DEF SeqLoop, SeqTask, Enter, Leave, Join, RunInv, GivenInv
  <2> QED BY <2>1, <2>2, <2>3
<1>5. RunAt(c)'
  <2>1. CASE Destroy(c)
    <3>1. command'[c] = kWorkerExit
      BY <1>1, <2>1 DEF Destroy
    <3> QED BY <3>1 DEF RunAt
  <2>2. CASE \/ CallRunner(c) \/ SeqLoop(c) \/ SeqTask(c) \/ Enter(c) \/ Leave(c) \/ Join(c)
    <3>1. pc'[c] \in {"idle", "seq", "seqTask", "enter", "publish", "destroyed"}
      BY <1>1, <2>2 DEF CallRunner, SeqLoop, SeqTask, Enter, Leave, Join, ReturnWith
    <3> QED BY <3>1 DEF RunAt
  <2> QED BY <2>1, <2>2
<1> QED BY <1>2, <1>3, <1>4, <1>5, RunBystander

\* The driver publishes, starts and notifies; the run begins.
LEMMA StartRun ==
  ASSUME IInv, RunInv, NEW c \in Callers, Publish(c) \/ StartWorkers(c) \/ NotifyWorkers(c)
  PROVE  RunInv'
<1>1. pc \in [Callers -> CallerPC] /\ command \in [Callers -> UInt \X UInt]
      /\ wpc \in [Workers -> WorkerPC]
  BY DEF IInv, TypeOK
<1>2. command' = command /\ \A d \in Callers : d # c => pc'[d] = pc[d]
  BY <1>1 DEF Publish, StartWorkers, NotifyWorkers
<1>3. Driver(c)
  BY DEF Publish, StartWorkers, NotifyWorkers, Driver
<1>4. \A d \in Callers : d # c => ~Driver(d)'
  BY <1>2, <1>3, Alone DEF Driver
<1>5. GivenInv'
  BY <1>2 DEF RunInv, GivenInv
<1>6. RunAt(c)'
  <2>1. CASE Publish(c)
    <3>1. pc'[c] = "start" /\ (IsRange(command[c]) => num_reserved_' = 0)
      BY <1>1, <2>1 DEF Publish, ReservedForCommand
    <3> QED BY <1>2, <3>1 DEF RunAt, IsRange
  <2>2. CASE StartWorkers(c)
    <3>1. pc'[c] = "notify" /\ num_reserved_' = num_reserved_ /\ pc[c] = "start"
      BY <1>1, <2>2 DEF StartWorkers
    <3> QED BY <1>2, <3>1 DEF RunInv, RunAt, IsRange
  <2>3. CASE NotifyWorkers(c)
    <3>1. /\ pc[c] = "notify" /\ pc'[c] \in {"join", "barrier"}
          /\ num_reserved_' = num_reserved_
      BY <1>1, <2>3 DEF NotifyWorkers, shared
    <3>2. \A w \in Workers : wpc'[w] = "woken"
      <4>1. \A w \in Workers : wpc[w] = "waiting"
        BY <3>1 DEF IInv, WorkerInv, WorkersAt, Notifying
      <4> QED BY <4>1, <2>3 DEF NotifyWorkers
    <3>3. RunOnce'
      BY <3>2 DEF RunOnce
    <3>4. ASSUME IsRange(command[c]) PROVE RunInRange(command[c])'
      <4> DEFINE r == command[c]
      <4>1. num_reserved_' = 0
        BY <3>1, <3>4 DEF RunInv, RunAt
      <4>2. Through' = {}
        BY <3>2 DEF Through
      <4>3. NumWorkers > 0 /\ r \in UInt \X UInt
        BY <1>1, <3>1 DEF IInv, CallerInv, CallerAt
      <4>4. NumTasks(r) \in UInt /\ NumTasks(r) >= 1 /\ Largest(r) \in Nat /\ Largest(r) >= 1
        <5>1. 0 \in UInt
          OBVIOUS
        <5> QED BY <3>4, <4>3, <5>1, ChunkSizeBounds
      <4>5. Cardinality({}) * Largest(r) = 0
        BY <4>4, FS_EmptySet
      <4>6. 0 < NumTasks(r) + Largest(r) + Cardinality({}) * Largest(r)
        BY <4>4, <4>5
      <4>7. r' = r
        BY <1>2
      <4>8. \A w \in Workers : WorkerInRange(w, r)'
        BY <3>2 DEF WorkerInRange
      <4>9. ChunksDisjoint'
        BY <3>2 DEF ChunksDisjoint
      <4>10. (num_reserved_ < NumTasks(r) + Largest(r) + Cardinality(Through) * Largest(r))'
        BY <4>1, <4>2, <4>6, <4>7 DEF NumTasks, Largest
      <4> HIDE DEF r
      <4>11. RunInRange(r)'
        BY <4>8, <4>9, <4>10 DEF RunInRange
      <4> QED BY <4>11 DEF r
    <3> QED BY <1>2, <3>1, <3>3, <3>4 DEF RunAt, IsRange
  <2> QED BY <2>1, <2>2, <2>3
<1> QED BY <1>4, <1>5, <1>6, RunFrame

\* The driver waits for the workers; when it goes on, all tasks are reserved.
LEMMA WaitRun ==
  ASSUME IInv, RunInv, NEW c \in Callers, WorkersReadyBarrier(c) \/ CallerSpuriousWakeup(c)
  PROVE  RunInv'
<1>1. pc \in [Callers -> CallerPC] /\ command \in [Callers -> UInt \X UInt]
  BY DEF IInv, TypeOK
<1>2. UNCHANGED <<num_reserved_, workerVars>>
  BY DEF WorkersReadyBarrier, CallerSpuriousWakeup, shared
<1>3. \A d \in Callers : d # c => pc'[d] = pc[d] /\ command'[d] = command[d]
  BY <1>1 DEF WorkersReadyBarrier, CallerSpuriousWakeup
<1>4. UNCHANGED <<num_reserved_, wpc, wcommand, my_size, my_task, my_end>>
  BY <1>2 DEF workerVars
<1>5. \A r : RunInRange(r)' <=> RunInRange(r)
  BY <1>4 DEF RunInRange, WorkerInRange, ChunksDisjoint, Through
<1>6. RunOnce' <=> RunOnce
  BY <1>4 DEF RunOnce
<1>7. pc[c] \in {"barrier", "asleep"} /\ RunAt(c)
  BY DEF WorkersReadyBarrier, CallerSpuriousWakeup, RunInv
<1>8. CASE command' = command /\ pc'[c] \in {"barrier", "asleep"}
  <2>1. RunAt(c)'
    BY <1>5, <1>6, <1>7, <1>8 DEF RunAt, IsRange
  <2>2. IsRange(command'[c]) => command'[c] \in Ranges
    BY <1>8 DEF RunInv, GivenInv
  <2> QED BY <1>2, <1>3, <2>1, <2>2, RunBystander
<1>9. CASE WorkersReadyBarrier(c) /\ AllReported
  <2>1. /\ pc[c] = "barrier"
        /\ pc'[c] = CASE command[c] = kWorkerWait -> "publish"
                      [] command[c] = kWorkerOnce -> "idle"
                      [] OTHER -> "leave"
        /\ command'[c] = IF command[c] = kWorkerWait THEN kWorkerOnce ELSE command[c]
    BY <1>1, <1>9 DEF WorkersReadyBarrier, AllReported
  <2>2. IsRange(command'[c]) => command'[c] \in Ranges /\ command'[c] = command[c]
    BY <2>1 DEF RunInv, GivenInv
  <2>3. ASSUME IsRange(command[c]) PROVE num_reserved_ >= NumTasks(command[c])
    <3>1. \A w \in Workers : wpc[w] = "waiting"
      BY <1>9, <2>1, AllWaiting DEF AllReported, IInv, WorkerInv, WorkersAt, Gathering
    <3>2. 0 \in Workers
      BY <2>1 DEF IInv, CallerInv, CallerAt
    <3>3. WorkerInRange(0, command[c])
      BY <1>7, <2>3, <3>2 DEF RunAt, RunInRange
    <3> QED BY <3>1, <3>2, <3>3 DEF WorkerInRange
  <2>4. pc'[c] \in {"publish", "idle", "leave"}
    BY <2>1
  <2>5. RunAt(c)'
    <3>1. IsRange(command'[c]) /\ pc'[c] = "leave" => num_reserved_' >= NumTasks(command'[c])
      BY <1>4, <2>2, <2>3
    <3> QED BY <2>4, <3>1 DEF RunAt, IsRange, NumTasks
  <2> QED BY <1>2, <1>3, <2>2, <2>5, RunBystander
<1>10. \/ command' = command /\ pc'[c] \in {"barrier", "asleep"}
       \/ WorkersReadyBarrier(c) /\ AllReported
  BY <1>1 DEF WorkersReadyBarrier, CallerSpuriousWakeup
<1> QED BY <1>8, <1>9, <1>10

\* Steps of the workers.
LEMMA WorkerRun ==
  ASSUME RangesLeaveRoom, IInv, RunInv, NEW w \in Workers, WorkerStep(w)
  PROVE  RunInv'
<1>1. pc \in [Callers -> CallerPC]
  BY DEF IInv, TypeOK
<1>2. command' = command /\ wpc[w] # "waiting"
  BY DEF WorkerStep, ReportReady, ReadCommand, LoadReserved, ReserveChunk, FinishTask,
         callerVars
<1>3. \A c \in Callers : pc'[c] = pc[c] \/ (pc[c] = "asleep" /\ pc'[c] = "barrier")
  BY <1>1 DEF WorkerStep, ReportReady, ReadCommand, LoadReserved, ReserveChunk, FinishTask,
              callerVars, NotifyBarrier
<1>4. PICK c \in Callers :
           /\ Driver(c) /\ Started(c)
           /\ \A d \in Callers : d # c => ~Driver(d)
           /\ \/ pc[c] \in {"barrier", "asleep"} /\ Gathering(c)
              \/ pc[c] \in {"join", "destroyed"} /\ Quitting
  BY <1>2, ActiveWorker
<1>5. \A d \in Callers : d # c => ~Driver(d)'
  BY <1>3, <1>4 DEF Driver
<1>6. GivenInv'
  BY <1>2 DEF RunInv, GivenInv
<1>7. RunAt(c)'
  <2>1. CASE pc[c] \in {"join", "destroyed"}
    <3>1. pc'[c] \in {"join", "destroyed"}
      BY <1>3, <2>1
    <3> QED BY <3>1 DEF RunAt
  <2>2. CASE pc[c] \in {"barrier", "asleep"} /\ Gathering(c)
    <3>1. pc'[c] \in {"barrier", "asleep"} /\ worker_start_command_ = command[c]
      BY <1>3, <2>2 DEF Gathering
    <3>2. PICK r : r = command[c]
      OBVIOUS
    <3>3. IsRange(r) => RunInRange(r)'
      <4> SUFFICES ASSUME IsRange(r) PROVE RunInRange(r)'
        OBVIOUS
      <4>1. r \in Ranges /\ RunInRange(r)
        BY <2>2, <3>2 DEF RunInv, GivenInv, RunAt
      <4>2. worker_start_command_ = r
        BY <3>1, <3>2
      <4> QED BY <4>1, <4>2, BusyWorkerRange, ReportReadyRange DEF WorkerStep
    <3>4. r = kWorkerOnce => RunOnce'
      <4>1. r = kWorkerOnce => RunOnce
        BY <2>2, <3>2 DEF RunInv, RunAt
      <4> QED BY <3>1, <3>2, <4>1, WorkerOnce
    <3>5. command'[c] = r
      BY <1>2, <3>2
    <3> QED BY <3>1, <3>3, <3>4, <3>5 DEF RunAt, IsRange
  <2> QED BY <1>4, <2>1, <2>2
<1> QED BY <1>5, <1>6, <1>7, RunFrame

LEMMA InitRun == Init => RunInv
BY DEF Init, RunInv, GivenInv, RunAt, IsRange, RunOnce

LEMMA NextRun ==
  ASSUME RangesLeaveRoom, IInv, RunInv, [Next]_vars
  PROVE  RunInv'
<1>1. ASSUME NEW c \in Callers,
             CallRunner(c) \/ Destroy(c) \/ CallerStep(c) \/ CallerSpuriousWakeup(c)
      PROVE  RunInv'
  BY <1>1, QuietRun, StartRun, WaitRun DEF CallerStep
<1>2. CASE UNCHANGED vars
  <2>1. UNCHANGED <<pc, command, num_reserved_, wpc, wcommand, my_size, my_task, my_end>>
    BY <1>2 DEF vars, shared, callerVars, workerVars
  <2> QED BY <2>1 DEF RunInv, GivenInv, RunAt, RunInRange, WorkerInRange, ChunksDisjoint,
                      Through, RunOnce
<1>3. CASE Destroyed
  BY <1>2, <1>3 DEF Destroyed
<1> QED BY <1>1, <1>2, <1>3, WorkerRun DEF Next

\* Reservations never wrap around, no task is in two chunks, and a call returns
\* when all of its range is reserved: for every guided schedule, in which the
\* size of a chunk is computed from a value that may be out of date.
THEOREM ChunksPartitionTheRange ==
  ASSUME RangesLeaveRoom
  PROVE  Spec => []RunInv
<1>1. IInv /\ RunInv /\ [Next]_vars => RunInv'
  BY NextRun
<1> QED BY <1>1, InitRun, InductiveInvariant, PTL DEF Spec
-----------------------------------------------------------------------------
(* The runner implements ParallelRun, as the thread sees it that created   *)
(* the runner.  The variables of ParallelRun under the refinement mapping: *)

phaseBar == IF Running(Creator) THEN "running" ELSE "idle"
limitBar == IF Running(Creator) THEN Max32(NumWorkers, 1) ELSE 0
pendingBar == PendingOf(Creator)
executingBar == ExecutingOf(Creator)

\* The sequential loop is for a runner without workers.
SequentialInv == \A c \in Callers : pc[c] \in {"seq", "seqTask"} => NumWorkers = 0

RefInv == IInv /\ OpaqueInv /\ RunInv /\ SequentialInv

\* The creator is inside a run of the workers.
AtWork == pc[Creator] \in {"publish", "start", "notify", "barrier", "asleep", "leave"}

\* The tasks of its range that are not reserved, or left in a chunk.
Unreserved(t) ==
  /\ t \in command[Creator][1]..command[Creator][2]-1
  /\ t >= command[Creator][1] + (IF pc[Creator] = "publish" THEN 0 ELSE num_reserved_)
InChunk(t) ==
  \E w \in Workers : /\ wpc[w] = "task" /\ opaque[w] = Creator
                     /\ t \in my_task[w]+1..my_end[w]-1

\* The workers that RunOnEachThread() has not reached yet.
NotYetCalled ==
  {w \in Workers : wpc[w] \in IF pc[Creator] \in {"publish", "start", "notify"}
                              THEN {"waiting", "woken"} ELSE {"woken"}}

\* What the mapping gives outside of a call, in the sequential loop, and in the
\* two kinds of runs.
LEMMA BarsOutside ==
  ~Running(Creator) => phaseBar = "idle" /\ limitBar = 0 /\ pendingBar = {}
<1> SUFFICES ASSUME ~Running(Creator)
             PROVE  phaseBar = "idle" /\ limitBar = 0 /\ pendingBar = {}
  OBVIOUS
<1> QED BY DEF phaseBar, limitBar, pendingBar, PendingOf

LEMMA BarsSequential ==
  /\ pc[Creator] = "seq" =>
       /\ phaseBar = "running" /\ limitBar = Max32(NumWorkers, 1)
       /\ pendingBar = task[Creator]..command[Creator][2]-1
  /\ pc[Creator] = "seqTask" =>
       /\ phaseBar = "running" /\ limitBar = Max32(NumWorkers, 1)
       /\ pendingBar = task[Creator]+1..command[Creator][2]-1
<1>1. ASSUME pc[Creator] = "seq"
      PROVE  /\ phaseBar = "running" /\ limitBar = Max32(NumWorkers, 1)
             /\ pendingBar = task[Creator]..command[Creator][2]-1
  <2>1. Running(Creator)
    BY <1>1 DEF Running
  <2> QED BY <1>1, <2>1 DEF phaseBar, limitBar, pendingBar, PendingOf
<1>2. ASSUME pc[Creator] = "seqTask"
      PROVE  /\ phaseBar = "running" /\ limitBar = Max32(NumWorkers, 1)
             /\ pendingBar = task[Creator]+1..command[Creator][2]-1
  <2>1. Running(Creator)
    BY <1>2 DEF Running
  <2> QED BY <1>2, <2>1 DEF phaseBar, limitBar, pendingBar, PendingOf
<1> QED BY <1>1, <1>2

LEMMA BarsOnce ==
  AtWork /\ command[Creator] = kWorkerOnce =>
    /\ phaseBar = "running" /\ limitBar = Max32(NumWorkers, 1)
    /\ pendingBar = NotYetCalled
BY DEF phaseBar, limitBar, pendingBar, PendingOf, Running, AtWork, NotYetCalled

LEMMA BarsRange ==
  AtWork /\ IsRange(command[Creator]) =>
    /\ phaseBar = "running" /\ limitBar = Max32(NumWorkers, 1)
    /\ \A t : t \in pendingBar <=> Unreserved(t) \/ InChunk(t)
<1> SUFFICES ASSUME AtWork, IsRange(command[Creator])
             PROVE  /\ phaseBar = "running" /\ limitBar = Max32(NumWorkers, 1)
                    /\ \A t : t \in pendingBar <=> Unreserved(t) \/ InChunk(t)
  OBVIOUS
<1>1. Running(Creator) /\ command[Creator] # kWorkerOnce /\ pc[Creator] \notin {"seq", "seqTask"}
  BY DEF Running, AtWork
<1> DEFINE rest == {t \in command[Creator][1]..command[Creator][2]-1 :
                      t >= command[Creator][1] +
                             (IF pc[Creator] = "publish" THEN 0 ELSE num_reserved_)}
           chunk(w) == IF wpc[w] = "task" /\ opaque[w] = Creator
                         THEN my_task[w]+1..my_end[w]-1 ELSE {}
<1>2. pendingBar = rest \cup UNION {chunk(w) : w \in Workers}
  BY <1>1 DEF pendingBar, PendingOf
<1>3. \A t : t \in rest <=> Unreserved(t)
  BY DEF Unreserved
<1>4. \A t : t \in UNION {chunk(w) : w \in Workers} <=> InChunk(t)
  BY DEF InChunk
<1> HIDE DEF rest, chunk
<1>5. \A t : t \in pendingBar <=> Unreserved(t) \/ InChunk(t)
  BY <1>2, <1>3, <1>4
<1> QED BY <1>1, <1>5 DEF phaseBar, limitBar

LEMMA BarsExecuting ==
  /\ NumWorkers = 0 =>
       executingBar = [th \in {0} |-> IF pc[Creator] = "seqTask" THEN task[Creator] ELSE NoTask]
  /\ NumWorkers > 0 =>
       executingBar = [w \in Workers |-> IF wpc[w] = "task" /\ opaque[w] = Creator
                                         THEN my_task[w] ELSE NoTask]
BY DEF executingBar, ExecutingOf, Threads

\* The same for the state after a step.
LEMMA BarsOutsideNext ==
  (~Running(Creator) => phaseBar = "idle" /\ limitBar = 0 /\ pendingBar = {})'
BY BarsOutside, PTL

LEMMA BarsSequentialNext ==
  (/\ pc[Creator] = "seq" =>
        /\ phaseBar = "running" /\ limitBar = Max32(NumWorkers, 1)
        /\ pendingBar = task[Creator]..command[Creator][2]-1
   /\ pc[Creator] = "seqTask" =>
        /\ phaseBar = "running" /\ limitBar = Max32(NumWorkers, 1)
        /\ pendingBar = task[Creator]+1..command[Creator][2]-1)'
BY BarsSequential, PTL

LEMMA BarsOnceNext ==
  (AtWork /\ command[Creator] = kWorkerOnce =>
     /\ phaseBar = "running" /\ limitBar = Max32(NumWorkers, 1)
     /\ pendingBar = NotYetCalled)'
BY BarsOnce, PTL

LEMMA BarsRangeNext ==
  (AtWork /\ IsRange(command[Creator]) =>
     /\ phaseBar = "running" /\ limitBar = Max32(NumWorkers, 1)
     /\ \A t : t \in pendingBar <=> Unreserved(t) \/ InChunk(t))'
BY BarsRange, PTL

LEMMA BarsExecutingNext ==
  (/\ NumWorkers = 0 =>
        executingBar = [th \in {0} |-> IF pc[Creator] = "seqTask" THEN task[Creator] ELSE NoTask]
   /\ NumWorkers > 0 =>
        executingBar = [w \in Workers |-> IF wpc[w] = "task" /\ opaque[w] = Creator
                                          THEN my_task[w] ELSE NoTask])'
BY BarsExecuting, PTL

\* The actions of ParallelRun, in terms of the mapping.
LEMMA AbsStutter ==
  ASSUME phaseBar' = phaseBar, limitBar' = limitBar, pendingBar' = pendingBar,
         executingBar' = executingBar, ret'[Creator] = ret[Creator]
  PROVE  UNCHANGED Promise!vars
BY DEF Promise!vars, phaseBar, limitBar, pendingBar, executingBar

LEMMA AbsCall ==
  ASSUME phaseBar = "idle", phaseBar' = "running",
         pendingBar' \in (SUBSET UInt) \ {{}}, limitBar' \in Nat \ {0},
         executingBar' = executingBar, ret'[Creator] = ret[Creator]
  PROVE  Promise!Next
BY DEF Promise!Next, Promise!Call, phaseBar, limitBar, pendingBar, executingBar

LEMMA AbsRefuse ==
  ASSUME phaseBar = "idle", phaseBar' = phaseBar, limitBar' = limitBar,
         pendingBar' = pendingBar, executingBar' = executingBar,
         ret'[Creator] = -1 \/ ret'[Creator] = 0
  PROVE  Promise!Next
BY DEF Promise!Next, Promise!Refuse, Promise!CallEmpty, phaseBar, limitBar,
       pendingBar, executingBar

LEMMA AbsStart ==
  ASSUME NEW th \in Threads, phaseBar = "running", phaseBar' = phaseBar,
         limitBar' = limitBar, th < limitBar, executingBar[th] = NoTask,
         NEW t \in pendingBar, executingBar' = [executingBar EXCEPT ![th] = t],
         pendingBar' = pendingBar \ {t}, ret'[Creator] = ret[Creator]
  PROVE  Promise!Next
<1>1. Promise!Start(th)
  BY DEF Promise!Start, phaseBar, limitBar, pendingBar, executingBar
<1> QED BY <1>1 DEF Promise!Next

LEMMA AbsFinish ==
  ASSUME NEW th \in Threads, phaseBar' = phaseBar,
         limitBar' = limitBar, executingBar[th] # NoTask,
         \/ /\ executingBar' = [executingBar EXCEPT ![th] = NoTask]
            /\ pendingBar' = pendingBar
         \/ \E t \in pendingBar : /\ executingBar' = [executingBar EXCEPT ![th] = t]
                                  /\ pendingBar' = pendingBar \ {t},
         ret'[Creator] = ret[Creator]
  PROVE  Promise!Next
<1>1. Promise!Finish(th)
  BY DEF Promise!Finish, phaseBar, limitBar, pendingBar, executingBar
<1> QED BY <1>1 DEF Promise!Next

LEMMA AbsReturn ==
  ASSUME phaseBar = "running", pendingBar = {}, phaseBar' = "idle",
         \A th \in Threads : executingBar[th] = NoTask,
         limitBar' = 0, pendingBar' = {}, executingBar' = executingBar,
         ret'[Creator] \in Int
  PROVE  Promise!Next
<1>0. pendingBar' = pendingBar
  OBVIOUS
<1>1. Promise!Return
  BY <1>0 DEF Promise!Return, phaseBar, limitBar, pendingBar, executingBar
<1> QED BY <1>1 DEF Promise!Next

LEMMA InitRefines == Init => Promise!Init
<1> SUFFICES ASSUME Init PROVE Promise!Init
  OBVIOUS
<1>1. ~Running(Creator)
  BY DEF Init, Running
<1>2. phaseBar = "idle" /\ limitBar = 0 /\ pendingBar = {}
  BY <1>1, BarsOutside
<1>3. executingBar = [th \in Threads |-> NoTask]
  BY DEF Init, executingBar, ExecutingOf, Threads
<1>4. ret[Creator] = 0
  BY DEF Init
<1> QED BY <1>2, <1>3, <1>4 DEF Promise!Init, phaseBar, limitBar, pendingBar, executingBar
-----------------------------------------------------------------------------
(* What the steps of the refinement need. *)

\* Sets with the same elements are equal.
LEMMA SameElements ==
  ASSUME NEW A, NEW B, \A x : x \in A <=> x \in B
  PROVE  A = B
OBVIOUS

LEMMA SequentialNext ==
  ASSUME IInv, SequentialInv, [Next]_vars
  PROVE  SequentialInv'
<1>1. pc \in [Callers -> CallerPC]
  BY DEF IInv, TypeOK
<1>2. ASSUME NEW c \in Callers, NEW d \in Callers, pc'[d] \in {"seq", "seqTask"},
             CallRunner(c) \/ Destroy(c) \/ CallerStep(c) \/ CallerSpuriousWakeup(c)
      PROVE  NumWorkers = 0
  <2>1. CASE CallRunner(c)
    BY <1>1, <1>2, <2>1 DEF CallRunner, ReturnWith, SequentialInv
  <2>2. CASE SeqLoop(c) \/ SeqTask(c)
    BY <1>1, <1>2, <2>2 DEF SeqLoop, SeqTask, ReturnWith, SequentialInv
  <2>3. CASE \/ Destroy(c) \/ CallerSpuriousWakeup(c) \/ Enter(c) \/ Publish(c) \/ StartWorkers(c)
             \/ NotifyWorkers(c) \/ WorkersReadyBarrier(c) \/ Leave(c) \/ Join(c)
    <3>1. pc'[d] = pc[d]
      BY <1>1, <1>2, <2>3 DEF Destroy, CallerSpuriousWakeup, Enter, Publish, StartWorkers,
             NotifyWorkers, WorkersReadyBarrier, Leave, Join, ReturnWith
    <3> QED BY <1>2, <3>1 DEF SequentialInv
  <2> QED BY <1>2, <2>1, <2>2, <2>3 DEF CallerStep
<1>3. ASSUME NEW w \in Workers, NEW d \in Callers, pc'[d] \in {"seq", "seqTask"}, WorkerStep(w)
      PROVE  NumWorkers = 0
  <2>1. pc'[d] = pc[d]
    BY <1>1, <1>3 DEF WorkerStep, ReportReady, ReadCommand, LoadReserved, ReserveChunk, FinishTask,
                      callerVars, NotifyBarrier
  <2> QED BY <1>3, <2>1 DEF SequentialInv
<1>4. CASE UNCHANGED vars
  BY <1>4 DEF vars, callerVars, SequentialInv
<1>5. CASE Destroyed
  BY <1>4, <1>5 DEF Destroyed
<1> QED BY <1>2, <1>3, <1>4, <1>5 DEF Next, SequentialInv

\* The workers rest while the creator prepares a run, or leaves it.
LEMMA AtRest ==
  IInv /\ pc[Creator] \in {"publish", "start", "notify", "leave"}
    => \A w \in Workers : wpc[w] = "waiting"
<1> SUFFICES ASSUME IInv, pc[Creator] \in {"publish", "start", "notify", "leave"}
             PROVE  \A w \in Workers : wpc[w] = "waiting"
  OBVIOUS
<1>1. Driver(Creator)
  BY DEF Driver
<1>2. \A d \in Callers : d # Creator => ~Driver(d)
  BY <1>1, Alone
<1>3. CASE pc[Creator] = "notify"
  BY <1>3 DEF IInv, WorkerInv, WorkersAt, Notifying
<1>4. CASE pc[Creator] # "notify"
  <2>1. \A d \in Callers : ~Started(d)
    BY <1>2, <1>4 DEF Started, Driver
  <2> QED BY <2>1 DEF IInv, WorkerInv, WorkersReadyBetweenRuns, AllReady
<1> QED BY <1>3, <1>4

LEMMA AtRestNext ==
  (IInv /\ pc[Creator] \in {"publish", "start", "notify", "leave"}
    => \A w \in Workers : wpc[w] = "waiting")'
BY AtRest, PTL

\* Nothing of the creator's runs where it is not inside a call.
LEMMA BarsIdle ==
  IInv /\ OpaqueInv /\ ~Running(Creator)
    => /\ phaseBar = "idle" /\ limitBar = 0 /\ pendingBar = {}
       /\ executingBar = [th \in Threads |-> NoTask]
<1> SUFFICES ASSUME IInv, OpaqueInv, ~Running(Creator)
             PROVE  /\ phaseBar = "idle" /\ limitBar = 0 /\ pendingBar = {}
                    /\ executingBar = [th \in Threads |-> NoTask]
  OBVIOUS
<1>1. pc[Creator] # "seqTask"
  BY DEF Running
<1>2. NumWorkers > 0 => Threads = Workers
  BY DEF Threads
<1>3. \A w \in Workers : ~(wpc[w] = "task" /\ opaque[w] = Creator)
  BY TasksHaveCallers DEF NoTaskAfterReturn
<1>4. executingBar = [th \in Threads |-> NoTask]
  <2>1. CASE NumWorkers = 0
    BY <1>1, <2>1 DEF executingBar, ExecutingOf
  <2>2. CASE NumWorkers > 0
    BY <1>2, <1>3, <2>2 DEF executingBar, ExecutingOf
  <2> QED BY <2>1, <2>2
<1> QED BY <1>4, BarsOutside

LEMMA BarsIdleNext ==
  (IInv /\ OpaqueInv /\ ~Running(Creator)
    => /\ phaseBar = "idle" /\ limitBar = 0 /\ pendingBar = {}
       /\ executingBar = [th \in Threads |-> NoTask])'
BY BarsIdle, PTL

\* No thread runs a task while all workers wait.
LEMMA BarsAtRest ==
  NumWorkers > 0 /\ (\A w \in Workers : wpc[w] # "task")
    => executingBar = [th \in Threads |-> NoTask]
<1> SUFFICES ASSUME NumWorkers > 0, \A w \in Workers : wpc[w] # "task"
             PROVE  executingBar = [th \in Threads |-> NoTask]
  OBVIOUS
<1>1. Threads = Workers
  BY DEF Threads
<1> QED BY <1>1 DEF executingBar, ExecutingOf

LEMMA BarsAtRestNext ==
  (NumWorkers > 0 /\ (\A w \in Workers : wpc[w] # "task")
    => executingBar = [th \in Threads |-> NoTask])'
BY BarsAtRest, PTL

\* The mapping while the creator waits for the workers.
LEMMA BarsAtBarrier ==
  IInv /\ OpaqueInv /\ pc[Creator] \in {"barrier", "asleep"}
       /\ command[Creator] \notin {kWorkerWait, kWorkerExit}
    => /\ phaseBar = "running" /\ limitBar = Max32(NumWorkers, 1)
       /\ executingBar = [w \in Workers |-> IF wpc[w] = "task" THEN my_task[w] ELSE NoTask]
       /\ command[Creator] = kWorkerOnce => pendingBar = {w \in Workers : wpc[w] = "woken"}
       /\ IsRange(command[Creator]) =>
            \A t : t \in pendingBar <=>
              \/ /\ t \in command[Creator][1]..command[Creator][2]-1
                 /\ t >= command[Creator][1] + num_reserved_
              \/ \E w \in Workers : wpc[w] = "task" /\ t \in my_task[w]+1..my_end[w]-1
<1> SUFFICES ASSUME IInv, OpaqueInv, pc[Creator] \in {"barrier", "asleep"},
                    command[Creator] \notin {kWorkerWait, kWorkerExit}
             PROVE
       /\ phaseBar = "running" /\ limitBar = Max32(NumWorkers, 1)
       /\ executingBar = [w \in Workers |-> IF wpc[w] = "task" THEN my_task[w] ELSE NoTask]
       /\ command[Creator] = kWorkerOnce => pendingBar = {w \in Workers : wpc[w] = "woken"}
       /\ IsRange(command[Creator]) =>
            \A t : t \in pendingBar <=>
              \/ /\ t \in command[Creator][1]..command[Creator][2]-1
                 /\ t >= command[Creator][1] + num_reserved_
              \/ \E w \in Workers : wpc[w] = "task" /\ t \in my_task[w]+1..my_end[w]-1
  OBVIOUS
<1>1. AtWork
  BY DEF AtWork
<1>2. Running(Creator)
  BY DEF Running
<1>3. phaseBar = "running" /\ limitBar = Max32(NumWorkers, 1)
  BY <1>2 DEF phaseBar, limitBar
<1>4. \A w \in Workers : wpc[w] = "task" => opaque[w] = Creator
  BY DEF OpaqueInv, OpaqueAt
<1>5. NumWorkers > 0
  BY DEF IInv, CallerInv, CallerAt
<1>6. executingBar = [w \in Workers |-> IF wpc[w] = "task" THEN my_task[w] ELSE NoTask]
  BY <1>4, <1>5, BarsExecuting
<1>7. command[Creator] = kWorkerOnce => pendingBar = {w \in Workers : wpc[w] = "woken"}
  BY <1>1, BarsOnce DEF NotYetCalled
<1>8. ASSUME IsRange(command[Creator]), NEW t
      PROVE  t \in pendingBar <=>
              \/ /\ t \in command[Creator][1]..command[Creator][2]-1
                 /\ t >= command[Creator][1] + num_reserved_
              \/ \E w \in Workers : wpc[w] = "task" /\ t \in my_task[w]+1..my_end[w]-1
  <2>1. t \in pendingBar <=> Unreserved(t) \/ InChunk(t)
    BY <1>1, <1>8, BarsRange
  <2>2. Unreserved(t) <=> /\ t \in command[Creator][1]..command[Creator][2]-1
                          /\ t >= command[Creator][1] + num_reserved_
    BY DEF Unreserved
  <2>3. InChunk(t) <=> \E w \in Workers : wpc[w] = "task" /\ t \in my_task[w]+1..my_end[w]-1
    BY <1>4 DEF InChunk
  <2> QED BY <2>1, <2>2, <2>3
<1> QED BY <1>3, <1>6, <1>7, <1>8

LEMMA BarsAtBarrierNext ==
  (IInv /\ OpaqueInv /\ pc[Creator] \in {"barrier", "asleep"}
       /\ command[Creator] \notin {kWorkerWait, kWorkerExit}
    => /\ phaseBar = "running" /\ limitBar = Max32(NumWorkers, 1)
       /\ executingBar = [w \in Workers |-> IF wpc[w] = "task" THEN my_task[w] ELSE NoTask]
       /\ command[Creator] = kWorkerOnce => pendingBar = {w \in Workers : wpc[w] = "woken"}
       /\ IsRange(command[Creator]) =>
            \A t : t \in pendingBar <=>
              \/ /\ t \in command[Creator][1]..command[Creator][2]-1
                 /\ t >= command[Creator][1] + num_reserved_
              \/ \E w \in Workers : wpc[w] = "task" /\ t \in my_task[w]+1..my_end[w]-1)'
BY BarsAtBarrier, PTL

\* The number of threads that init() is told.
LEMMA LimitFacts ==
  /\ Max32(NumWorkers, 1) \in Nat \ {0}
  /\ \A th \in Threads : th < Max32(NumWorkers, 1)
BY DEF Max32, Threads
-----------------------------------------------------------------------------
(* Steps of the callers. *)

\* Nothing that the mapping reads has changed.
LEMMA BarsUnchanged ==
  ASSUME pc'[Creator] = pc[Creator], command'[Creator] = command[Creator],
         task'[Creator] = task[Creator], ret'[Creator] = ret[Creator],
         UNCHANGED <<num_reserved_, workerVars>>
  PROVE  UNCHANGED Promise!vars
<1>1. UNCHANGED <<num_reserved_, wpc, my_task, my_end, opaque>>
  BY DEF workerVars
<1>2. Running(Creator)' <=> Running(Creator)
  BY DEF Running
<1>3. phaseBar' = phaseBar /\ limitBar' = limitBar
  BY <1>2 DEF phaseBar, limitBar
<1>4. executingBar' = executingBar
  BY <1>1 DEF executingBar, ExecutingOf
<1>5. pendingBar' = pendingBar
  BY <1>1, <1>2 DEF pendingBar, PendingOf
<1> QED BY <1>3, <1>4, <1>5, AbsStutter

\* The creator is outside of a call before and after the step.
LEMMA StutterOutside ==
  ASSUME RefInv, RefInv', ~Running(Creator), ~Running(Creator)', ret'[Creator] = ret[Creator]
  PROVE  UNCHANGED Promise!vars
<1>1. /\ phaseBar = "idle" /\ limitBar = 0 /\ pendingBar = {}
      /\ executingBar = [th \in Threads |-> NoTask]
  BY BarsIdle DEF RefInv
<1>2. /\ phaseBar' = "idle" /\ limitBar' = 0 /\ pendingBar' = {}
      /\ executingBar' = [th \in Threads |-> NoTask]
  BY BarsIdleNext DEF RefInv, Threads
<1> QED BY <1>1, <1>2, AbsStutter

\* The creator moves within one phase of a run.
LEMMA SamePhase ==
  ASSUME \/ /\ pc[Creator] \in {"barrier", "asleep", "leave"}
            /\ pc'[Creator] \in {"barrier", "asleep", "leave"}
         \/ pc[Creator] \in {"start", "notify"} /\ pc'[Creator] \in {"start", "notify"},
         command'[Creator] = command[Creator], ret'[Creator] = ret[Creator],
         UNCHANGED <<num_reserved_, workerVars>>
  PROVE  UNCHANGED Promise!vars
<1>1. UNCHANGED <<num_reserved_, wpc, my_task, my_end, opaque>>
  BY DEF workerVars
<1>2. Running(Creator)' <=> Running(Creator)
  BY DEF Running
<1>3. phaseBar' = phaseBar /\ limitBar' = limitBar
  BY <1>2 DEF phaseBar, limitBar
<1>4. executingBar' = executingBar
  BY <1>1 DEF executingBar, ExecutingOf
<1>5. pendingBar' = pendingBar
  <2>1. pc[Creator] \in {"start", "notify"} <=> pc'[Creator] \in {"start", "notify"}
    OBVIOUS
  <2>2. pc[Creator] \notin {"publish", "seq", "seqTask"} /\ pc'[Creator] \notin {"publish", "seq", "seqTask"}
    OBVIOUS
  <2>3. (pc[Creator] \in {"publish", "start", "notify"})
          <=> pc'[Creator] \in {"publish", "start", "notify"}
    BY <2>1, <2>2
  <2> QED BY <1>1, <1>2, <2>2, <2>3 DEF pendingBar, PendingOf
<1> QED BY <1>3, <1>4, <1>5, AbsStutter

\* A step of another caller: what it writes is not read for the creator.
LEMMA OtherCaller ==
  ASSUME RefInv, RefInv', NEW c \in Callers, c # Creator,
         CallRunner(c) \/ Destroy(c) \/ CallerStep(c) \/ CallerSpuriousWakeup(c)
  PROVE  UNCHANGED Promise!vars
<1>1. /\ pc \in [Callers -> CallerPC] /\ command \in [Callers -> UInt \X UInt]
      /\ task \in [Callers -> UInt] /\ ret \in [Callers -> {0, -1}]
  BY DEF RefInv, IInv, TypeOK
<1>2. /\ pc'[Creator] = pc[Creator] /\ command'[Creator] = command[Creator]
      /\ task'[Creator] = task[Creator] /\ ret'[Creator] = ret[Creator]
  <2> HIDE CommandFacts, ModulusAssumption, NumWorkersAssumption DEF UInt
  <2>1. CASE CallRunner(c)
    BY <1>1, <2>1 DEF CallRunner, ReturnWith
  <2>2. CASE SeqLoop(c) \/ SeqTask(c) \/ Enter(c) \/ Leave(c)
    BY <1>1, <2>2 DEF SeqLoop, SeqTask, Enter, Leave, ReturnWith
  <2>3. CASE \/ Destroy(c) \/ Publish(c) \/ StartWorkers(c) \/ NotifyWorkers(c)
             \/ WorkersReadyBarrier(c) \/ CallerSpuriousWakeup(c) \/ Join(c)
    BY <1>1, <2>3 DEF Destroy, Publish, StartWorkers, NotifyWorkers, WorkersReadyBarrier,
                      CallerSpuriousWakeup, Join
  <2> QED BY <2>1, <2>2, <2>3 DEF CallerStep
<1>3. CASE Publish(c) \/ NotifyWorkers(c)
  <2>1. Driver(c) /\ NumWorkers > 0
    BY <1>3 DEF Publish, NotifyWorkers, Driver, RefInv, IInv, CallerInv, CallerAt
  <2>2. ~Driver(Creator)
    BY <2>1, Alone DEF RefInv
  <2>3. pc[Creator] \notin {"seq", "seqTask"}
    BY <2>1 DEF RefInv, SequentialInv
  <2>4. ~Running(Creator)
    BY <2>2, <2>3 DEF Driver, Running
  <2>5. ~Running(Creator)'
    BY <1>2, <2>4 DEF Running
  <2> QED BY <1>2, <2>4, <2>5, StutterOutside
<1>4. CASE ~(Publish(c) \/ NotifyWorkers(c))
  <2>1. UNCHANGED <<num_reserved_, workerVars>>
    BY <1>4 DEF CallRunner, Destroy, CallerStep, SeqLoop, SeqTask, Enter, StartWorkers,
           WorkersReadyBarrier, CallerSpuriousWakeup, Leave, Join, shared
  <2> QED BY <1>2, <2>1, BarsUnchanged
<1> QED BY <1>3, <1>4

\* The creator calls Runner().
LEMMA CallRefines ==
  ASSUME RefInv, RefInv', CallRunner(Creator)
  PROVE  [Promise!Next]_(Promise!vars)
<1>1. /\ DOMAIN pc = Callers /\ DOMAIN command = Callers
      /\ DOMAIN task = Callers /\ DOMAIN ret = Callers
  BY DEF RefInv, IInv, TypeOK
<1>2. PICK r \in Ranges :
        \/ /\ pc' = [pc EXCEPT ![Creator] = "idle"]
           /\ \/ ret' = [ret EXCEPT ![Creator] = -1]
              \/ ret' = [ret EXCEPT ![Creator] = 0]
        \/ /\ IsRange(r)
           /\ pc' = [pc EXCEPT ![Creator] = IF NumWorkers = 0 THEN "seq" ELSE "enter"]
           /\ command' = [command EXCEPT ![Creator] = r]
           /\ task' = [task EXCEPT ![Creator] = r[1]]
           /\ UNCHANGED ret
  BY DEF CallRunner, ReturnWith, IsRange
<1>3. ~Running(Creator)
  BY DEF CallRunner, Running
<1>4. /\ phaseBar = "idle" /\ limitBar = 0 /\ pendingBar = {}
      /\ executingBar = [th \in Threads |-> NoTask]
  BY <1>3, BarsIdle DEF RefInv
<1>5. CASE /\ pc' = [pc EXCEPT ![Creator] = "idle"]
           /\ ret' = [ret EXCEPT ![Creator] = -1] \/ ret' = [ret EXCEPT ![Creator] = 0]
  <2>1. pc'[Creator] = "idle" /\ (ret'[Creator] = -1 \/ ret'[Creator] = 0)
    BY <1>1, <1>5
  <2>2. ~Running(Creator)'
    BY <2>1 DEF Running
  <2>3. /\ phaseBar' = "idle" /\ limitBar' = 0 /\ pendingBar' = {}
        /\ executingBar' = [th \in Threads |-> NoTask]
    BY <2>2, BarsIdleNext DEF RefInv, Threads
  <2> QED BY <1>4, <2>1, <2>3, AbsRefuse
<1>6. ASSUME IsRange(r), command' = [command EXCEPT ![Creator] = r],
             pc' = [pc EXCEPT ![Creator] = IF NumWorkers = 0 THEN "seq" ELSE "enter"],
             task' = [task EXCEPT ![Creator] = r[1]], UNCHANGED ret
      PROVE  [Promise!Next]_(Promise!vars)
  <2>1. /\ pc'[Creator] = IF NumWorkers = 0 THEN "seq" ELSE "enter"
        /\ command'[Creator] = r /\ task'[Creator] = r[1] /\ ret'[Creator] = ret[Creator]
    BY <1>1, <1>6
  <2>2. CASE NumWorkers = 0
    <3>1. pc'[Creator] = "seq"
      BY <2>1, <2>2
    <3>2. phaseBar' = "running" /\ limitBar' = Max32(NumWorkers, 1)
          /\ pendingBar' = r[1]..r[2]-1
      BY <2>1, <3>1, BarsSequentialNext
    <3>3. r[1] \in UInt /\ r[2] \in UInt /\ r[1] < r[2]
      BY <1>6, RangesAssumption DEF IsRange
    <3>4. r[1]..r[2]-1 \in (SUBSET UInt) \ {{}}
      BY <3>3
    <3>5. executingBar' = executingBar
      BY <1>4, <2>2, <3>1, BarsExecutingNext DEF Threads
    <3>6. limitBar' \in Nat \ {0} /\ pendingBar' \in (SUBSET UInt) \ {{}}
      BY <3>2, <3>4, LimitFacts
    <3> QED BY <1>4, <2>1, <3>2, <3>5, <3>6, AbsCall
  <2>3. CASE NumWorkers # 0
    <3>1. pc'[Creator] = "enter"
      BY <2>1, <2>3
    <3>2. ~Running(Creator)'
      BY <3>1 DEF Running
    <3> QED BY <1>3, <2>1, <3>2, StutterOutside
  <2> QED BY <2>2, <2>3
<1> QED BY <1>2, <1>5, <1>6

\* The sequential loop of a runner without workers.
LEMMA SequentialRefines ==
  ASSUME RefInv, SeqLoop(Creator) \/ SeqTask(Creator)
  PROVE  [Promise!Next]_(Promise!vars)
<1> DEFINE t == task[Creator]
           e == command[Creator][2]
<1>1. /\ pc \in [Callers -> CallerPC] /\ command \in [Callers -> UInt \X UInt]
      /\ task \in [Callers -> UInt] /\ ret \in [Callers -> {0, -1}]
  BY DEF RefInv, IInv, TypeOK
<1>2. t \in UInt /\ e \in UInt
  BY <1>1
<1>3. pc[Creator] \in {"seq", "seqTask"} /\ NumWorkers = 0
  BY DEF SeqLoop, SeqTask, RefInv, SequentialInv
<1>4. command' = command
  BY DEF SeqLoop, SeqTask
<1>5. 0 \in Threads /\ 0 < Max32(NumWorkers, 1) /\ NoTask = -1 /\ Threads = {0}
  BY <1>3 DEF Threads, Max32, NoTask
<1> HIDE DEF t, e
<1>6. CASE SeqLoop(Creator) /\ t < e
  <2>1. /\ pc[Creator] = "seq" /\ pc'[Creator] = "seqTask" /\ task' = task /\ ret' = ret
    <3>1. pc[Creator] = "seq" /\ task' = task /\ ret' = ret /\ pc' = [pc EXCEPT ![Creator] = "seqTask"]
      BY <1>6 DEF SeqLoop, SeqMore, t, e
    <3> QED BY <1>1, <3>1
  <2>2. phaseBar = "running" /\ limitBar = Max32(NumWorkers, 1) /\ pendingBar = t..e-1
    BY <2>1, BarsSequential DEF t, e
  <2>3. phaseBar' = "running" /\ limitBar' = Max32(NumWorkers, 1) /\ pendingBar' = t+1..e-1
    BY <1>4, <2>1, BarsSequentialNext DEF t, e
  <2>4. executingBar = [th \in {0} |-> NoTask] /\ executingBar' = [th \in {0} |-> t]
    BY <1>3, <2>1, BarsExecuting, BarsExecutingNext DEF t
  <2>5. executingBar[0] = NoTask /\ executingBar' = [executingBar EXCEPT ![0] = t]
    BY <2>4
  <2>6. t \in pendingBar /\ pendingBar' = pendingBar \ {t}
    BY <1>2, <1>6, <2>2, <2>3
  <2> QED BY <1>5, <2>1, <2>2, <2>3, <2>5, <2>6, AbsStart
<1>7. CASE SeqLoop(Creator) /\ ~(t < e)
  <2>1. /\ pc[Creator] = "seq" /\ pc'[Creator] = "idle" /\ ret'[Creator] = 0
    <3>1. pc[Creator] = "seq" /\ pc' = [pc EXCEPT ![Creator] = "idle"] /\ ret' = [ret EXCEPT ![Creator] = 0]
      BY <1>7 DEF SeqLoop, SeqMore, t, e, ReturnWith
    <3> QED BY <1>1, <3>1
  <2>2. phaseBar = "running" /\ pendingBar = t..e-1
    BY <2>1, BarsSequential DEF t, e
  <2>3. pendingBar = {}
    BY <1>2, <1>7, <2>2
  <2>4. phaseBar' = "idle" /\ limitBar' = 0 /\ pendingBar' = {}
    BY <2>1, BarsOutsideNext DEF Running
  <2>5. executingBar = [th \in {0} |-> NoTask] /\ executingBar' = [th \in {0} |-> NoTask]
    BY <1>3, <2>1, BarsExecuting, BarsExecutingNext
  <2>6. \A th \in Threads : executingBar[th] = NoTask
    BY <1>5, <2>5
  <2> QED BY <2>1, <2>2, <2>3, <2>4, <2>5, <2>6, AbsReturn
<1>8. CASE SeqTask(Creator)
  <2>1. /\ pc[Creator] = "seqTask" /\ pc'[Creator] = "seq" /\ task'[Creator] = t + 1 /\ ret' = ret
    <3>1. /\ pc[Creator] = "seqTask" /\ pc' = [pc EXCEPT ![Creator] = "seq"] /\ ret' = ret
          /\ task' = [task EXCEPT ![Creator] = t + 1]
      BY <1>8 DEF SeqTask, t
    <3> QED BY <1>1, <3>1
  <2>2. phaseBar = "running" /\ limitBar = Max32(NumWorkers, 1) /\ pendingBar = t+1..e-1
    BY <2>1, BarsSequential DEF t, e
  <2>3. phaseBar' = "running" /\ limitBar' = Max32(NumWorkers, 1) /\ pendingBar' = t+1..e-1
    BY <1>4, <2>1, BarsSequentialNext DEF e
  <2>4. executingBar = [th \in {0} |-> t] /\ executingBar' = [th \in {0} |-> NoTask]
    BY <1>3, <2>1, BarsExecuting, BarsExecutingNext DEF t
  <2>5. executingBar[0] # NoTask /\ executingBar' = [executingBar EXCEPT ![0] = NoTask]
    BY <1>2, <1>5, <2>4
  <2>6. phaseBar' = phaseBar /\ limitBar' = limitBar /\ pendingBar' = pendingBar
    BY <2>2, <2>3
  <2> QED BY <1>5, <2>1, <2>5, <2>6, AbsFinish
<1> QED BY <1>6, <1>7, <1>8


\* What the creator's own command can be, and its type.
LEMMA CreatorCommand ==
  ASSUME RefInv
  PROVE  /\ pc \in [Callers -> CallerPC] /\ DOMAIN command = Callers /\ DOMAIN ret = Callers
         /\ command[Creator][1] \in UInt /\ command[Creator][2] \in UInt
         /\ num_reserved_ \in UInt /\ wpc \in [Workers -> WorkerPC]
         /\ AtWork => NumWorkers > 0
         /\ AtWork => \/ IsRange(command[Creator]) \/ command[Creator] = kWorkerWait
                      \/ command[Creator] = kWorkerOnce \/ command[Creator] = kWorkerExit
<1>1. /\ pc \in [Callers -> CallerPC] /\ DOMAIN command = Callers /\ DOMAIN ret = Callers
      /\ num_reserved_ \in UInt /\ wpc \in [Workers -> WorkerPC]
  BY DEF RefInv, IInv, TypeOK
<1>2. command[Creator] \in UInt \X UInt
  BY DEF RefInv, IInv, TypeOK
<1>3. CallerAt(Creator)
  BY DEF RefInv, IInv, CallerInv
<1>4. AtWork => NumWorkers > 0 /\ (IsRange(command[Creator]) \/ command[Creator] \in Special)
  BY <1>3 DEF AtWork, CallerAt, Driver
<1> QED BY <1>1, <1>2, <1>4 DEF Special

\* depth_.fetch_add(1) accepts the call, or refuses it.
LEMMA EnterRefines ==
  ASSUME RefInv, RefInv', Enter(Creator)
  PROVE  [Promise!Next]_(Promise!vars)
<1>1. /\ pc \in [Callers -> CallerPC] /\ DOMAIN ret = Callers
      /\ command[Creator][1] \in UInt /\ command[Creator][2] \in UInt
  BY CreatorCommand
<1>2. ~Running(Creator)
  BY DEF Enter, Running
<1>3. /\ phaseBar = "idle" /\ limitBar = 0 /\ pendingBar = {}
      /\ executingBar = [th \in Threads |-> NoTask]
  BY <1>2, BarsIdle DEF RefInv
<1>4. IsRange(command[Creator]) /\ NumWorkers > 0 /\ command' = command
  BY DEF Enter, RefInv, IInv, CallerInv, CallerAt
<1>5. CASE ~NotReentered
  <2>1. pc'[Creator] = "idle" /\ ret'[Creator] = -1
    <3>1. pc' = [pc EXCEPT ![Creator] = "idle"] /\ ret' = [ret EXCEPT ![Creator] = -1]
      BY <1>5 DEF Enter, ReturnWith
    <3> QED BY <1>1, <3>1
  <2>2. ~Running(Creator)'
    BY <2>1 DEF Running
  <2>3. /\ phaseBar' = "idle" /\ limitBar' = 0 /\ pendingBar' = {}
        /\ executingBar' = [th \in Threads |-> NoTask]
    BY <2>2, BarsIdleNext DEF RefInv, Threads
  <2> QED BY <1>3, <2>1, <2>3, AbsRefuse
<1>6. CASE NotReentered
  <2> DEFINE a == command[Creator][1]
             b == command[Creator][2]
  <2>1. pc'[Creator] = "publish" /\ ret' = ret
    <3>1. pc' = [pc EXCEPT ![Creator] = "publish"] /\ ret' = ret
      BY <1>6 DEF Enter
    <3> QED BY <1>1, <3>1
  <2>2. \A w \in Workers : wpc'[w] = "waiting"
    BY <2>1, AtRestNext DEF RefInv
  <2>3. AtWork' /\ IsRange(command[Creator])'
    BY <1>4, <2>1 DEF AtWork, IsRange
  <2>4. /\ phaseBar' = "running" /\ limitBar' = Max32(NumWorkers, 1)
        /\ \A t : t \in pendingBar' <=> Unreserved(t)' \/ InChunk(t)'
    BY <2>3, BarsRangeNext
  <2>5. \A t : ~InChunk(t)'
    BY <2>2 DEF InChunk
  <2>6. \A t : Unreserved(t)' <=> t \in a..b-1
    BY <1>1, <1>4, <2>1 DEF Unreserved
  <2>7. a \in UInt /\ b \in UInt /\ a < b
    BY <1>1, <1>4 DEF IsRange
  <2> HIDE DEF a, b
  <2>8. \A t : t \in pendingBar' <=> t \in a..b-1
    BY <2>4, <2>5, <2>6
  <2>9. a..b-1 \in (SUBSET UInt) \ {{}}
    BY <2>7
  <2>10. pendingBar' = a..b-1
    BY <2>8, SameElements
  <2>11. executingBar' = [th \in Threads |-> NoTask]
    BY <1>4, <2>2, BarsAtRestNext DEF Threads
  <2>12. limitBar' \in Nat \ {0} /\ pendingBar' \in (SUBSET UInt) \ {{}}
    BY <2>4, <2>9, <2>10, LimitFacts
  <2> QED BY <1>3, <2>1, <2>4, <2>11, <2>12, AbsCall
<1> QED BY <1>5, <1>6

\* The steps of StartWorkers() are not seen.
LEMMA PublishRefines ==
  ASSUME RefInv, RefInv', Publish(Creator)
  PROVE  UNCHANGED Promise!vars
<1>1. /\ pc \in [Callers -> CallerPC]
      /\ command[Creator][1] \in UInt /\ command[Creator][2] \in UInt
  BY CreatorCommand
<1>2. /\ pc[Creator] = "publish" /\ pc' = [pc EXCEPT ![Creator] = "start"]
      /\ num_reserved_' = ReservedForCommand(command[Creator])
      /\ UNCHANGED <<command, ret, workerVars>>
  BY DEF Publish
<1>3. pc'[Creator] = "start"
  BY <1>1, <1>2
<1>4. AtWork /\ AtWork'
  BY <1>2, <1>3 DEF AtWork
<1>5. IsRange(command[Creator]) \/ command[Creator] = kWorkerOnce
  <2>1. command[Creator] # kWorkerWait /\ command[Creator] # kWorkerExit
    BY <1>2 DEF RefInv, IInv, CallerInv, CallerAt
  <2> QED BY <1>4, <2>1, CreatorCommand
<1>6. UNCHANGED <<wpc, my_task, my_end, opaque>>
  BY <1>2 DEF workerVars
<1>7. executingBar' = executingBar
  BY <1>2, <1>3, <1>6 DEF executingBar, ExecutingOf
<1>8. CASE command[Creator] = kWorkerOnce
  <2>1. /\ phaseBar = "running" /\ limitBar = Max32(NumWorkers, 1) /\ pendingBar = NotYetCalled
    BY <1>4, <1>8, BarsOnce
  <2>2. /\ phaseBar' = "running" /\ limitBar' = Max32(NumWorkers, 1) /\ pendingBar' = NotYetCalled'
    BY <1>2, <1>4, <1>8, BarsOnceNext
  <2>3. NotYetCalled' = NotYetCalled
    BY <1>2, <1>3, <1>6 DEF NotYetCalled
  <2> QED BY <1>2, <1>7, <2>1, <2>2, <2>3, AbsStutter
<1>9. CASE IsRange(command[Creator])
  <2>1. /\ phaseBar = "running" /\ limitBar = Max32(NumWorkers, 1)
        /\ \A t : t \in pendingBar <=> Unreserved(t) \/ InChunk(t)
    BY <1>4, <1>9, BarsRange
  <2>2. IsRange(command[Creator])'
    BY <1>2, <1>9 DEF IsRange
  <2>3. /\ phaseBar' = "running" /\ limitBar' = Max32(NumWorkers, 1)
        /\ \A t : t \in pendingBar' <=> Unreserved(t)' \/ InChunk(t)'
    BY <1>4, <2>2, BarsRangeNext
  <2>4. num_reserved_' = 0
    BY <1>2, <1>9 DEF ReservedForCommand
  <2>5. \A t : Unreserved(t)' <=> Unreserved(t)
    BY <1>2, <1>3, <2>4 DEF Unreserved
  <2>6. \A t : InChunk(t)' <=> InChunk(t)
    BY <1>6 DEF InChunk
  <2>7. \A t : t \in pendingBar' <=> t \in pendingBar
    BY <2>1, <2>3, <2>5, <2>6
  <2>8. pendingBar' = pendingBar
    BY <2>7, SameElements
  <2> QED BY <1>2, <1>7, <2>1, <2>3, <2>8, AbsStutter
<1> QED BY <1>5, <1>8, <1>9

LEMMA NotifyRefines ==
  ASSUME RefInv, RefInv', NotifyWorkers(Creator)
  PROVE  UNCHANGED Promise!vars
<1>1. /\ pc \in [Callers -> CallerPC]
  BY CreatorCommand
<1>2. /\ pc[Creator] = "notify"
      /\ pc' = [pc EXCEPT ![Creator] = IF command[Creator] = kWorkerExit THEN "join" ELSE "barrier"]
      /\ UNCHANGED <<num_reserved_, command, ret>>
      /\ wpc' = [w \in Workers |-> IF wpc[w] = "waiting" THEN "woken" ELSE wpc[w]]
  BY DEF NotifyWorkers, shared
<1>3. pc'[Creator] = IF command[Creator] = kWorkerExit THEN "join" ELSE "barrier"
  BY <1>1, <1>2
<1>4. (\A w \in Workers : wpc[w] = "waiting") /\ \A w \in Workers : wpc'[w] = "woken"
  BY <1>2, AtRest DEF RefInv
<1>5. AtWork /\ NumWorkers > 0
  BY <1>2, CreatorCommand DEF AtWork
<1>6. command[Creator] # kWorkerWait
  BY <1>2 DEF RefInv, IInv, CallerInv, CallerAt
<1>7. CASE command[Creator] = kWorkerExit
  <2>1. ~Running(Creator)
    BY <1>2, <1>7 DEF Running
  <2>2. ~Running(Creator)'
    BY <1>3, <1>7 DEF Running
  <2> QED BY <1>2, <2>1, <2>2, StutterOutside
<1>8. CASE command[Creator] # kWorkerExit
  <2>1. pc'[Creator] = "barrier" /\ AtWork'
    BY <1>3, <1>8 DEF AtWork
  <2>2. executingBar = [th \in Threads |-> NoTask] /\ executingBar' = [th \in Threads |-> NoTask]
    <3>1. \A w \in Workers : wpc[w] # "task" /\ wpc'[w] # "task"
      BY <1>4
    <3> QED BY <1>5, <3>1, BarsAtRest, BarsAtRestNext DEF Threads
  <2>3. CASE command[Creator] = kWorkerOnce
    <3>1. /\ phaseBar = "running" /\ limitBar = Max32(NumWorkers, 1) /\ pendingBar = NotYetCalled
      BY <1>5, <2>3, BarsOnce
    <3>2. /\ phaseBar' = "running" /\ limitBar' = Max32(NumWorkers, 1) /\ pendingBar' = NotYetCalled'
      BY <1>2, <2>1, <2>3, BarsOnceNext
    <3>3. NotYetCalled = Workers
      BY <1>2, <1>4 DEF NotYetCalled
    <3>4. NotYetCalled' = Workers
      BY <1>4, <2>1 DEF NotYetCalled
    <3> QED BY <1>2, <2>2, <3>1, <3>2, <3>3, <3>4, AbsStutter
  <2>4. CASE IsRange(command[Creator])
    <3>1. /\ phaseBar = "running" /\ limitBar = Max32(NumWorkers, 1)
          /\ \A t : t \in pendingBar <=> Unreserved(t) \/ InChunk(t)
      BY <1>5, <2>4, BarsRange
    <3>2. IsRange(command[Creator])'
      BY <1>2, <2>4 DEF IsRange
    <3>3. /\ phaseBar' = "running" /\ limitBar' = Max32(NumWorkers, 1)
          /\ \A t : t \in pendingBar' <=> Unreserved(t)' \/ InChunk(t)'
      BY <2>1, <3>2, BarsRangeNext
    <3>4. \A t : Unreserved(t)' <=> Unreserved(t)
      BY <1>2, <2>1 DEF Unreserved
    <3>5. \A t : ~InChunk(t)' /\ ~InChunk(t)
      BY <1>4 DEF InChunk
    <3>6. \A t : t \in pendingBar' <=> t \in pendingBar
      BY <3>1, <3>3, <3>4, <3>5
    <3>7. pendingBar' = pendingBar
      BY <3>6, SameElements
    <3> QED BY <1>2, <2>2, <3>1, <3>3, <3>7, AbsStutter
  <2> QED BY <1>5, <1>6, <1>8, <2>3, <2>4, CreatorCommand
<1> QED BY <1>7, <1>8

\* All workers have reported: the constructor goes on with RunOnEachThread(),
\* RunOnEachThread() returns, or Runner() is about to.
LEMMA BarrierRefines ==
  ASSUME RefInv, RefInv', WorkersReadyBarrier(Creator)
  PROVE  [Promise!Next]_(Promise!vars)
<1>1. /\ pc \in [Callers -> CallerPC] /\ DOMAIN command = Callers /\ wpc \in [Workers -> WorkerPC]
  BY CreatorCommand
<1>2. /\ pc[Creator] = "barrier" /\ UNCHANGED <<num_reserved_, ret, workerVars>>
  BY DEF WorkersReadyBarrier
<1>3. AtWork /\ NumWorkers > 0
  BY <1>2, CreatorCommand DEF AtWork
<1>4. CASE ~AllReported
  <2>1. pc'[Creator] = "asleep" /\ command' = command
    BY <1>1, <1>4 DEF WorkersReadyBarrier
  <2>2. /\ pc[Creator] \in {"barrier", "asleep", "leave"}
        /\ pc'[Creator] \in {"barrier", "asleep", "leave"}
        /\ command'[Creator] = command[Creator] /\ ret'[Creator] = ret[Creator]
    BY <1>2, <2>1
  <2> QED BY <1>2, <2>2, SamePhase
<1>5. CASE AllReported
  <2>1. \A w \in Workers : wpc[w] = "waiting"
    BY <1>2, <1>5, AllWaiting DEF AllReported, RefInv, IInv, WorkerInv, WorkersAt, Gathering
  <2>2. wpc' = wpc
    BY <1>2 DEF workerVars
  <2>3. /\ pc'[Creator] = CASE command[Creator] = kWorkerWait -> "publish"
                            [] command[Creator] = kWorkerOnce -> "idle"
                            [] OTHER -> "leave"
        /\ command'[Creator] = IF command[Creator] = kWorkerWait THEN kWorkerOnce
                                                                 ELSE command[Creator]
    BY <1>1, <1>5 DEF WorkersReadyBarrier
  <2>4. executingBar = [th \in Threads |-> NoTask] /\ executingBar' = [th \in Threads |-> NoTask]
    <3>1. \A w \in Workers : wpc[w] # "task" /\ wpc'[w] # "task"
      BY <2>1, <2>2
    <3> QED BY <1>3, <3>1, BarsAtRest, BarsAtRestNext DEF Threads
  <2>5. CASE command[Creator] = kWorkerWait
    <3>1. pc'[Creator] = "publish" /\ command'[Creator] = kWorkerOnce
      BY <2>3, <2>5
    <3>2. AtWork'
      BY <3>1 DEF AtWork
    <3>3. phaseBar' = "running" /\ limitBar' = Max32(NumWorkers, 1) /\ pendingBar' = NotYetCalled'
      BY <3>1, <3>2, BarsOnceNext
    <3>4. NotYetCalled' = Workers
      BY <2>1, <2>2, <3>1 DEF NotYetCalled
    <3>5. Workers \in (SUBSET UInt) \ {{}}
      <4>1. 0 \in Workers
        BY <1>3
      <4>2. Workers \subseteq UInt
        OBVIOUS
      <4> QED BY <4>1, <4>2
    <3>6. phaseBar = "idle"
      BY <1>2, <2>5, BarsOutside DEF Running
    <3>7. pendingBar' \in (SUBSET UInt) \ {{}} /\ limitBar' \in Nat \ {0}
      BY <3>3, <3>4, <3>5, LimitFacts
    <3>8. ret'[Creator] = ret[Creator]
      BY <1>2
    <3> QED BY <2>4, <3>3, <3>6, <3>7, <3>8, AbsCall
  <2>6. CASE command[Creator] = kWorkerOnce
    <3>1. pc'[Creator] = "idle"
      BY <2>3, <2>6
    <3>2. phaseBar = "running" /\ pendingBar = NotYetCalled
      BY <1>3, <2>6, BarsOnce
    <3>3. NotYetCalled = {}
      BY <1>2, <2>1 DEF NotYetCalled
    <3>4. phaseBar' = "idle" /\ limitBar' = 0 /\ pendingBar' = {}
      BY <3>1, BarsOutsideNext DEF Running
    <3>5. ret'[Creator] \in Int
      BY DEF RefInv, IInv, TypeOK
    <3>6. \A th \in Threads : executingBar[th] = NoTask
      BY <2>4
    <3> QED BY <2>4, <3>2, <3>3, <3>4, <3>5, <3>6, AbsReturn
  <2>7. CASE command[Creator] # kWorkerWait /\ command[Creator] # kWorkerOnce
    <3>1. pc'[Creator] = "leave" /\ command'[Creator] = command[Creator]
      BY <2>3, <2>7
    <3>2. /\ pc[Creator] \in {"barrier", "asleep", "leave"}
          /\ pc'[Creator] \in {"barrier", "asleep", "leave"}
          /\ command'[Creator] = command[Creator] /\ ret'[Creator] = ret[Creator]
      BY <1>2, <3>1
    <3> QED BY <1>2, <3>2, SamePhase
  <2> QED BY <2>5, <2>6, <2>7
<1> QED BY <1>4, <1>5

\* Runner() returns.
LEMMA LeaveRefines ==
  ASSUME RefInv, RefInv', Leave(Creator)
  PROVE  [Promise!Next]_(Promise!vars)
<1> DEFINE a == command[Creator][1]
           b == command[Creator][2]
<1>1. /\ pc \in [Callers -> CallerPC] /\ a \in UInt /\ b \in UInt /\ num_reserved_ \in UInt
  BY CreatorCommand
<1>2. /\ pc[Creator] = "leave" /\ pc' = [pc EXCEPT ![Creator] = "idle"] /\ UNCHANGED workerVars
  BY DEF Leave, ReturnWith
<1>3. pc'[Creator] = "idle"
  BY <1>1, <1>2
<1>4. \A w \in Workers : wpc[w] = "waiting" /\ wpc'[w] = "waiting"
  BY <1>2, AtRest DEF RefInv, workerVars
<1>5. AtWork /\ NumWorkers > 0
  BY <1>2, CreatorCommand DEF AtWork
<1>6. executingBar = [th \in Threads |-> NoTask] /\ executingBar' = [th \in Threads |-> NoTask]
  <2>1. \A w \in Workers : wpc[w] # "task" /\ wpc'[w] # "task"
    BY <1>4
  <2> QED BY <1>5, <2>1, BarsAtRest, BarsAtRestNext DEF Threads
<1>7. IsRange(command[Creator])
  BY <1>2 DEF RefInv, IInv, CallerInv, CallerAt
<1>8. num_reserved_ >= b - a
  BY <1>2, <1>7 DEF RefInv, RunInv, RunAt, NumTasks
<1>9. /\ phaseBar = "running" /\ \A t : t \in pendingBar <=> Unreserved(t) \/ InChunk(t)
  BY <1>5, <1>7, BarsRange
<1>10. \A t : Unreserved(t) => t \in a..b-1 /\ t >= a + num_reserved_
  BY <1>2 DEF Unreserved
<1>11. \A t : ~InChunk(t)
  BY <1>4 DEF InChunk
<1> HIDE DEF a, b
<1>12. \A t : ~Unreserved(t)
  BY <1>1, <1>8, <1>10
<1>13. pendingBar = {}
  BY <1>9, <1>11, <1>12
<1>14. phaseBar' = "idle" /\ limitBar' = 0 /\ pendingBar' = {}
  BY <1>3, BarsOutsideNext DEF Running
<1>15. ret'[Creator] \in Int
  BY DEF RefInv, IInv, TypeOK
<1>16. \A th \in Threads : executingBar[th] = NoTask
  BY <1>6
<1> QED BY <1>6, <1>9, <1>13, <1>14, <1>15, <1>16, AbsReturn

\* All steps of the creator.
LEMMA CreatorRefines ==
  ASSUME RefInv, RefInv',
         \/ CallRunner(Creator) \/ Destroy(Creator) \/ CallerStep(Creator)
         \/ CallerSpuriousWakeup(Creator)
  PROVE  [Promise!Next]_(Promise!vars)
<1>1. pc \in [Callers -> CallerPC] /\ DOMAIN command = Callers
  BY CreatorCommand
<1>2. CASE Destroy(Creator)
  <2>1. pc[Creator] = "idle" /\ command'[Creator] = kWorkerExit /\ pc'[Creator] \in {"join", "start"}
        /\ ret' = ret
    BY <1>1, <1>2 DEF Destroy
  <2>2. ~Running(Creator)
    BY <2>1 DEF Running
  <2>3. ~Running(Creator)'
    BY <2>1 DEF Running
  <2> QED BY <2>1, <2>2, <2>3, StutterOutside
<1>3. CASE Join(Creator)
  <2>1. pc[Creator] = "join" /\ pc'[Creator] = "destroyed" /\ ret' = ret
    BY <1>1, <1>3 DEF Join
  <2>2. ~Running(Creator)
    BY <2>1 DEF Running
  <2>3. ~Running(Creator)'
    BY <2>1 DEF Running
  <2> QED BY <2>1, <2>2, <2>3, StutterOutside
<1>4. CASE StartWorkers(Creator)
  <2>1. /\ pc[Creator] \in {"start", "notify"} /\ pc'[Creator] \in {"start", "notify"}
        /\ command' = command /\ ret' = ret /\ UNCHANGED <<num_reserved_, workerVars>>
    BY <1>1, <1>4 DEF StartWorkers
  <2> QED BY <2>1, SamePhase
<1>5. CASE CallerSpuriousWakeup(Creator)
  <2>1. /\ pc[Creator] \in {"barrier", "asleep", "leave"}
        /\ pc'[Creator] \in {"barrier", "asleep", "leave"}
        /\ command' = command /\ ret' = ret /\ UNCHANGED <<num_reserved_, workerVars>>
    BY <1>1, <1>5 DEF CallerSpuriousWakeup, shared
  <2> QED BY <2>1, SamePhase
<1> QED BY <1>2, <1>3, <1>4, <1>5, CallRefines, SequentialRefines, EnterRefines, PublishRefines,
           NotifyRefines, BarrierRefines, LeaveRefines DEF CallerStep
-----------------------------------------------------------------------------
(* Steps of the workers. *)

\* RunOnEachThread(): every worker is called with its own number.
LEMMA OnceRefines ==
  ASSUME RefInv, RefInv', NEW w \in Workers, WorkerStep(w),
         pc[Creator] \in {"barrier", "asleep"}, pc'[Creator] \in {"barrier", "asleep"},
         command[Creator] = kWorkerOnce, command' = command, ret' = ret,
         worker_start_command_ = kWorkerOnce
  PROVE  [Promise!Next]_(Promise!vars)
<1>1. /\ wpc \in [Workers -> WorkerPC] /\ my_task \in [Workers -> UInt]
      /\ wpc' \in [Workers -> WorkerPC] /\ my_task' \in [Workers -> UInt]
  BY DEF RefInv, IInv, TypeOK
<1>2. /\ phaseBar = "running" /\ limitBar = Max32(NumWorkers, 1)
      /\ executingBar = [v \in Workers |-> IF wpc[v] = "task" THEN my_task[v] ELSE NoTask]
      /\ pendingBar = {v \in Workers : wpc[v] = "woken"}
  BY BarsAtBarrier DEF RefInv
<1>3. /\ phaseBar' = "running" /\ limitBar' = Max32(NumWorkers, 1)
      /\ executingBar' = [v \in Workers |-> IF wpc'[v] = "task" THEN my_task'[v] ELSE NoTask]
      /\ pendingBar' = {v \in Workers : wpc'[v] = "woken"}
  BY BarsAtBarrierNext DEF RefInv
<1>4. \A v \in Workers : v # w => wpc'[v] = wpc[v] /\ my_task'[v] = my_task[v]
  BY <1>1 DEF WorkerStep, ReportReady, ReadCommand, LoadReserved, ReserveChunk, FinishTask,
              BeginTasks
<1>5. RunOnce
  BY DEF RefInv, RunInv, RunAt
<1>6. w \in Threads /\ w < Max32(NumWorkers, 1)
  <2>1. w \in Threads
    BY DEF Threads
  <2> QED BY <2>1, LimitFacts
<1>7. /\ wpc[w] # "task" => executingBar[w] = NoTask
      /\ wpc[w] = "task" => executingBar[w] # NoTask
      /\ wpc[w] # "task" /\ wpc'[w] # "task" => executingBar' = executingBar
      /\ wpc'[w] = "task" => executingBar' = [executingBar EXCEPT ![w] = my_task'[w]]
      /\ wpc'[w] # "task" => executingBar' = [executingBar EXCEPT ![w] = NoTask]
  <2>1. PICK q, g, E, F : q = wpc' /\ g = my_task' /\ E = executingBar /\ F = executingBar'
    OBVIOUS
  <2>2. q \in [Workers -> WorkerPC] /\ g \in [Workers -> UInt]
    BY <1>1, <2>1
  <2>3. \A v \in Workers : v # w => q[v] = wpc[v] /\ g[v] = my_task[v]
    BY <1>4, <2>1
  <2>4. /\ E = [v \in Workers |-> IF wpc[v] = "task" THEN my_task[v] ELSE NoTask]
        /\ F = [v \in Workers |-> IF q[v] = "task" THEN g[v] ELSE NoTask]
    BY <1>2, <1>3, <2>1
  <2>5. wpc \in [Workers -> WorkerPC] /\ my_task \in [Workers -> UInt]
    BY <1>1
  <2> HIDE CommandFacts, ModulusAssumption, NumWorkersAssumption DEF UInt, Workers
  <2>6. /\ wpc[w] # "task" => E[w] = NoTask
        /\ wpc[w] = "task" => E[w] # NoTask
        /\ wpc[w] # "task" /\ q[w] # "task" => F = E
        /\ q[w] = "task" => F = [E EXCEPT ![w] = g[w]]
        /\ q[w] # "task" => F = [E EXCEPT ![w] = NoTask]
    <3>1. wpc[w] # "task" => E[w] = NoTask
      BY <2>4
    <3>2. wpc[w] = "task" => E[w] # NoTask
      BY <2>4, <2>5 DEF UInt, NoTask
    <3>3. q[w] = "task" => F = [E EXCEPT ![w] = g[w]]
      BY <2>2, <2>3, <2>4, <2>5
    <3>4. q[w] # "task" => F = [E EXCEPT ![w] = NoTask]
      BY <2>2, <2>3, <2>4, <2>5
    <3>5. wpc[w] # "task" /\ q[w] # "task" => F = E
      BY <2>2, <2>3, <2>4, <2>5
    <3> QED BY <3>1, <3>2, <3>3, <3>4, <3>5
  <2> QED BY <2>1, <2>6
<1>8. CASE ReportReady(w)
  <2>1. wpc[w] = "lock" /\ wpc'[w] = "waiting"
    BY <1>1, <1>8 DEF ReportReady
  <2>2. pendingBar' = pendingBar
    BY <1>2, <1>3, <1>4, <2>1
  <2>3. executingBar' = executingBar
    BY <1>7, <2>1
  <2> QED BY <1>2, <1>3, <2>2, <2>3, AbsStutter
<1>9. CASE ReadCommand(w)
  <2>1. wpc[w] = "woken" /\ BeginTasks(w, w, w + 1)
    BY <1>9 DEF ReadCommand
  <2>2. wpc'[w] = "task" /\ my_task'[w] = w
    BY <1>1, <2>1 DEF BeginTasks
  <2>3. w \in pendingBar /\ pendingBar' = pendingBar \ {w}
    BY <1>2, <1>3, <1>4, <2>1, <2>2
  <2>4. executingBar[w] = NoTask /\ executingBar' = [executingBar EXCEPT ![w] = w]
    BY <1>7, <2>1, <2>2
  <2>5. w < limitBar /\ phaseBar' = phaseBar /\ limitBar' = limitBar
    BY <1>2, <1>3, <1>6
  <2> QED BY <1>2, <1>6, <2>3, <2>4, <2>5, AbsStart
<1>10. CASE FinishTask(w)
  <2>1. wpc[w] = "task" /\ my_task[w] = w /\ my_end[w] = w + 1 /\ wcommand[w] = kWorkerOnce
    BY <1>5, <1>10 DEF FinishTask, RunOnce
  <2>2. wpc' = [wpc EXCEPT ![w] = "lock"]
    <3>1. ~(my_task[w] + 1 < my_end[w])
      BY <2>1
    <3> QED BY <1>10, <2>1, <3>1 DEF FinishTask
  <2>3. wpc'[w] = "lock"
    BY <1>1, <2>2
  <2>4. pendingBar' = pendingBar
    BY <1>2, <1>3, <1>4, <2>1, <2>3
  <2>5. executingBar[w] # NoTask /\ executingBar' = [executingBar EXCEPT ![w] = NoTask]
    BY <1>7, <2>1, <2>3
  <2>6. phaseBar' = phaseBar /\ limitBar' = limitBar
    BY <1>2, <1>3
  <2> QED BY <1>6, <2>4, <2>5, <2>6, AbsFinish
<1>11. CASE LoadReserved(w) \/ ReserveChunk(w)
  BY <1>5, <1>11 DEF LoadReserved, ReserveChunk, RunOnce
<1> QED BY <1>8, <1>9, <1>10, <1>11 DEF WorkerStep

\* RunRange(): every task of the range is started once.
LEMMA RangeRefines ==
  ASSUME RangesLeaveRoom, RefInv, RefInv', NEW w \in Workers, WorkerStep(w),
         pc[Creator] \in {"barrier", "asleep"}, pc'[Creator] \in {"barrier", "asleep"},
         NEW r, r = command[Creator], IsRange(r), command' = command, ret' = ret,
         worker_start_command_ = r
  PROVE  [Promise!Next]_(Promise!vars)
<1> DEFINE a == r[1]
           b == r[2]
           n == num_reserved_
           Free(t) == t \in a..b-1 /\ t >= a + n
           Left(v, t) == wpc[v] = "task" /\ t \in my_task[v]+1..my_end[v]-1
           Free2(t) == t \in a..b-1 /\ t >= a + num_reserved_'
           Left2(v, t) == wpc'[v] = "task" /\ t \in my_task'[v]+1..my_end'[v]-1
<1>1. /\ wpc \in [Workers -> WorkerPC] /\ my_task \in [Workers -> UInt]
      /\ wpc' \in [Workers -> WorkerPC] /\ my_task' \in [Workers -> UInt]
      /\ my_end \in [Workers -> UInt]
  BY DEF RefInv, IInv, TypeOK
<1>2. /\ r \in Ranges /\ RunInRange(r)
      /\ a \in UInt /\ b \in UInt /\ a < b /\ n \in UInt
  <2>1. r \in Ranges /\ RunInRange(r)
    BY DEF RefInv, RunInv, GivenInv, RunAt
  <2> QED BY <2>1, RangesAssumption DEF IsRange, RefInv, IInv, TypeOK
<1>3. /\ phaseBar = "running" /\ limitBar = Max32(NumWorkers, 1)
      /\ executingBar = [v \in Workers |-> IF wpc[v] = "task" THEN my_task[v] ELSE NoTask]
      /\ \A t : t \in pendingBar <=> Free(t) \/ \E v \in Workers : Left(v, t)
  <2>1. command[Creator] \notin {kWorkerWait, kWorkerExit}
    BY CommandFacts
  <2> QED BY <2>1, BarsAtBarrier DEF RefInv
<1>4. /\ phaseBar' = "running" /\ limitBar' = Max32(NumWorkers, 1)
      /\ executingBar' = [v \in Workers |-> IF wpc'[v] = "task" THEN my_task'[v] ELSE NoTask]
      /\ \A t : t \in pendingBar' <=> Free2(t) \/ \E v \in Workers : Left2(v, t)
  <2>1. command'[Creator] = r /\ command'[Creator] \notin {kWorkerWait, kWorkerExit}
    BY CommandFacts
  <2>2. IsRange(command[Creator])'
    BY <2>1 DEF IsRange
  <2> QED BY <2>1, <2>2, BarsAtBarrierNext DEF RefInv
<1>5. \A v \in Workers : v # w => /\ wpc'[v] = wpc[v] /\ my_task'[v] = my_task[v]
                                  /\ my_end'[v] = my_end[v]
  BY <1>1 DEF WorkerStep, ReportReady, ReadCommand, LoadReserved, ReserveChunk, FinishTask,
              BeginTasks
<1>6. w \in Threads /\ w < Max32(NumWorkers, 1)
  <2>1. w \in Threads
    BY DEF Threads
  <2> QED BY <2>1, LimitFacts
<1>7. /\ wpc[w] # "task" => executingBar[w] = NoTask
      /\ wpc[w] = "task" => executingBar[w] # NoTask
      /\ wpc[w] # "task" /\ wpc'[w] # "task" => executingBar' = executingBar
      /\ wpc'[w] = "task" => executingBar' = [executingBar EXCEPT ![w] = my_task'[w]]
      /\ wpc'[w] # "task" => executingBar' = [executingBar EXCEPT ![w] = NoTask]
  <2>1. PICK q, g, E, F : q = wpc' /\ g = my_task' /\ E = executingBar /\ F = executingBar'
    OBVIOUS
  <2>2. q \in [Workers -> WorkerPC] /\ g \in [Workers -> UInt]
    BY <1>1, <2>1
  <2>3. \A v \in Workers : v # w => q[v] = wpc[v] /\ g[v] = my_task[v]
    BY <1>5, <2>1
  <2>4. /\ E = [v \in Workers |-> IF wpc[v] = "task" THEN my_task[v] ELSE NoTask]
        /\ F = [v \in Workers |-> IF q[v] = "task" THEN g[v] ELSE NoTask]
    BY <1>3, <1>4, <2>1
  <2>5. wpc \in [Workers -> WorkerPC] /\ my_task \in [Workers -> UInt]
    BY <1>1
  <2> HIDE CommandFacts, ModulusAssumption, NumWorkersAssumption DEF UInt, Workers
  <2>6. /\ wpc[w] # "task" => E[w] = NoTask
        /\ wpc[w] = "task" => E[w] # NoTask
        /\ wpc[w] # "task" /\ q[w] # "task" => F = E
        /\ q[w] = "task" => F = [E EXCEPT ![w] = g[w]]
        /\ q[w] # "task" => F = [E EXCEPT ![w] = NoTask]
    <3>1. wpc[w] # "task" => E[w] = NoTask
      BY <2>4
    <3>2. wpc[w] = "task" => E[w] # NoTask
      BY <2>4, <2>5 DEF UInt, NoTask
    <3>3. q[w] = "task" => F = [E EXCEPT ![w] = g[w]]
      BY <2>2, <2>3, <2>4, <2>5
    <3>4. q[w] # "task" => F = [E EXCEPT ![w] = NoTask]
      BY <2>2, <2>3, <2>4, <2>5
    <3>5. wpc[w] # "task" /\ q[w] # "task" => F = E
      BY <2>2, <2>3, <2>4, <2>5
    <3> QED BY <3>1, <3>2, <3>3, <3>4, <3>5
  <2> QED BY <2>1, <2>6
<1>8. \A v \in Workers : v # w => \A t : Left2(v, t) <=> Left(v, t)
  BY <1>5
<1>9. \A v \in Workers : WorkerInRange(v, r)
  BY <1>2 DEF RunInRange
<1>10. \A v \in Workers : wpc[v] = "task" =>
         /\ a <= my_task[v] /\ my_task[v] < my_end[v] /\ my_end[v] <= b /\ my_end[v] <= a + n
         /\ my_task[v] \in UInt /\ my_end[v] \in UInt
  BY <1>1, <1>9 DEF WorkerInRange
<1>11. r \notin Special
  BY CommandFacts
\* A step that starts and ends outside of data_func_ and reserves no task.
<1>12. ASSUME wpc[w] # "task", wpc'[w] # "task", \A t : Free2(t) <=> Free(t)
       PROVE  UNCHANGED Promise!vars
  <2>1. \A t : ~Left(w, t) /\ ~Left2(w, t)
    BY <1>12
  <2> HIDE DEF Free, Free2, Left, Left2
  <2>2. \A t : t \in pendingBar' <=> t \in pendingBar
    BY <1>3, <1>4, <1>8, <1>12, <2>1
  <2>3. pendingBar' = pendingBar
    BY <2>2, SameElements
  <2>4. executingBar' = executingBar
    BY <1>7, <1>12
  <2> QED BY <1>3, <1>4, <2>3, <2>4, AbsStutter
<1>13. CASE ReportReady(w) \/ ReadCommand(w) \/ LoadReserved(w)
  <2>1. wpc[w] # "task" /\ wpc'[w] # "task" /\ num_reserved_' = num_reserved_
    <3>1. CASE ReportReady(w)
      BY <1>1, <3>1 DEF ReportReady
    <3>2. CASE ReadCommand(w)
      <4>1. wpc[w] = "woken" /\ wpc' = [wpc EXCEPT ![w] = "load"] /\ UNCHANGED num_reserved_
        BY <1>11, <3>2 DEF ReadCommand, Special, shared
      <4> QED BY <1>1, <4>1
    <3>3. CASE LoadReserved(w)
      BY <1>1, <3>3 DEF LoadReserved, shared
    <3> QED BY <1>13, <3>1, <3>2, <3>3
  <2> QED BY <1>12, <2>1
<1>14. CASE ReserveChunk(w)
  <2> DEFINE size == my_size[w]
             begin == a + n
             end == Min32(begin + size, b)
  <2>1. wpc[w] = "reserve" /\ wcommand[w] = r
    BY <1>9, <1>14 DEF ReserveChunk, WorkerInRange
  <2>2. /\ begin + size < Modulus /\ n + size < Modulus
        /\ size \in UInt /\ 1 <= size
    BY <1>2, <2>1, NoWrap DEF RefInv
  <2>3. /\ Add32(a, n) = begin /\ Add32(begin, size) = begin + size
        /\ Add32(n, size) = n + size /\ begin \in UInt
    BY <1>2, <2>2 DEF Add32
  <2>4. /\ num_reserved_' = n + size
        /\ \/ begin >= end /\ wpc' = [wpc EXCEPT ![w] = "lock"]
           \/ begin < end /\ BeginTasks(w, begin, end)
    BY <1>14, <2>1, <2>3 DEF ReserveChunk
  <2>5. end \in UInt /\ end <= b /\ end <= begin + size /\ (end = b \/ end = begin + size)
    BY <1>2, <2>2, <2>3 DEF Min32
  <2>6. CASE begin >= end
    <3>1. wpc' = [wpc EXCEPT ![w] = "lock"]
      <4>1. ~(begin < end)
        BY <2>3, <2>5, <2>6
      <4> HIDE DEF begin, end
      <4> QED BY <2>4, <4>1
    <3>2. wpc'[w] = "lock"
      BY <1>1, <3>1
    <3>3. b <= begin
      BY <1>2, <2>2, <2>3, <2>5, <2>6
    <3>4. \A t : ~Free(t) /\ ~Free2(t)
      BY <1>2, <2>2, <2>4, <3>3
    <3>5. wpc[w] # "task" /\ wpc'[w] # "task"
      BY <2>1, <3>2
    <3> HIDE DEF Free, Free2
    <3> QED BY <1>12, <3>4, <3>5
  <2>7. CASE begin < end
    <3>1. /\ wpc' = [wpc EXCEPT ![w] = "task"]
          /\ my_task' = [my_task EXCEPT ![w] = begin]
          /\ my_end' = [my_end EXCEPT ![w] = end]
      <4>1. ~(begin >= end)
        BY <2>3, <2>5, <2>7
      <4> HIDE DEF begin, end
      <4> QED BY <2>4, <4>1 DEF BeginTasks
    <3>2. wpc'[w] = "task" /\ my_task'[w] = begin /\ my_end'[w] = end
      BY <1>1, <3>1
    <3>3. \A t : Left2(w, t) <=> t \in begin+1..end-1
      BY <3>2
    <3>4. \A t : ~Left(w, t)
      BY <2>1
    <3>5. \A t : Free2(t) \/ t \in begin+1..end-1 <=> Free(t) /\ t # begin
      BY <1>2, <2>2, <2>3, <2>4, <2>5, <2>7
    <3>6. \A v \in Workers : v # w => ~Left(v, begin)
      BY <1>2, <1>10
    <3>7. Free(begin)
      BY <1>2, <2>3, <2>5, <2>7
    <3>8. executingBar[w] = NoTask /\ executingBar' = [executingBar EXCEPT ![w] = begin]
      BY <1>7, <2>1, <3>2
    <3> HIDE DEF Free, Free2, Left, Left2, begin, end
    <3>9. \A t : t \in pendingBar' <=> t \in pendingBar /\ t # begin
      BY <1>3, <1>4, <1>8, <3>3, <3>4, <3>5, <3>6
    <3>10. begin \in pendingBar
      BY <1>3, <3>7
    <3>11. pendingBar' = pendingBar \ {begin}
      <4>1. \A t : t \in pendingBar' <=> t \in pendingBar \ {begin}
        BY <3>9
      <4> QED BY <4>1, SameElements
    <3>12. w < limitBar /\ phaseBar' = phaseBar /\ limitBar' = limitBar
      BY <1>3, <1>4, <1>6
    <3> QED BY <1>3, <1>6, <3>8, <3>10, <3>11, <3>12, AbsStart
  <2> QED BY <2>3, <2>5, <2>6, <2>7
<1>15. CASE FinishTask(w)
  <2>1. /\ wpc[w] = "task" /\ wcommand[w] = r /\ UNCHANGED num_reserved_
    BY <1>9, <1>15 DEF FinishTask, WorkerInRange, shared
  <2>2. PICK m, e : m = my_task[w] /\ e = my_end[w]
    OBVIOUS
  <2>3. /\ m \in UInt /\ e \in UInt /\ a <= m /\ m < e /\ e <= b /\ e <= a + n
    BY <1>10, <2>1, <2>2
  <2>4. \A t : Left(w, t) <=> t \in m+1..e-1
    BY <2>1, <2>2
  <2>5. \A t : Free2(t) <=> Free(t)
    BY <2>1
  <2>6. executingBar[w] # NoTask /\ phaseBar' = phaseBar /\ limitBar' = limitBar
    BY <1>3, <1>4, <1>7, <2>1
  <2>7. CASE m + 1 < e
    <3>1. /\ wpc' = [wpc EXCEPT ![w] = "task"]
          /\ my_task' = [my_task EXCEPT ![w] = m + 1]
          /\ my_end' = [my_end EXCEPT ![w] = e]
      BY <1>15, <2>2, <2>3, <2>7 DEF FinishTask, BeginTasks
    <3>2. wpc'[w] = "task" /\ my_task'[w] = m + 1 /\ my_end'[w] = e
      BY <1>1, <3>1
    <3>3. \A t : Left2(w, t) <=> t \in m+2..e-1
      BY <2>3, <3>2
    <3>4. \A t : t \in m+2..e-1 <=> t \in m+1..e-1 /\ t # m+1
      BY <2>3
    <3>5. m+1 \in m+1..e-1 /\ ~Free(m+1)
      BY <1>2, <2>3, <2>7
    <3>6. \A v \in Workers : v # w => ~Left(v, m+1)
      <4> SUFFICES ASSUME NEW v \in Workers, v # w, wpc[v] = "task"
                   PROVE  ~(m+1 \in my_task[v]+1..my_end[v]-1)
        OBVIOUS
      <4>1. my_end[v] <= m \/ e <= my_task[v]
        BY <1>2, <2>1, <2>2 DEF RunInRange, ChunksDisjoint
      <4>2. my_task[v] \in UInt /\ my_end[v] \in UInt
        BY <1>10
      <4> QED BY <2>3, <2>7, <4>1, <4>2
    <3>7. executingBar' = [executingBar EXCEPT ![w] = m + 1]
      BY <1>7, <3>2
    <3> DEFINE x == m + 1
    <3> HIDE DEF Free, Free2, Left, Left2
    <3>8. \A t : t \in pendingBar' <=> t \in pendingBar /\ t # x
      BY <1>3, <1>4, <1>8, <2>4, <2>5, <3>3, <3>4, <3>5, <3>6
    <3>9. x \in pendingBar
      BY <1>3, <2>4, <3>5
    <3> HIDE DEF x
    <3>10. pendingBar' = pendingBar \ {x}
      <4>1. \A t : t \in pendingBar' <=> t \in pendingBar \ {x}
        BY <3>8
      <4> QED BY <4>1, SameElements
    <3>11. executingBar' = [executingBar EXCEPT ![w] = x]
      BY <3>7 DEF x
    <3> QED BY <1>6, <2>6, <3>9, <3>10, <3>11, AbsFinish
  <2>8. CASE ~(m + 1 < e)
    <3>1. wpc' = [wpc EXCEPT ![w] = "load"]
      <4>1. wcommand[w] # kWorkerOnce
        BY <1>11, <2>1 DEF Special
      <4> QED BY <1>15, <2>2, <2>8, <4>1 DEF FinishTask
    <3>2. wpc'[w] = "load"
      BY <1>1, <3>1
    <3>3. \A t : ~Left2(w, t)
      BY <3>2
    <3>4. \A t : t \notin m+1..e-1
      BY <2>3, <2>8
    <3>5. executingBar' = [executingBar EXCEPT ![w] = NoTask]
      BY <1>7, <3>2
    <3> HIDE DEF Free, Free2, Left, Left2
    <3>6. \A t : t \in pendingBar' <=> t \in pendingBar
      BY <1>3, <1>4, <1>8, <2>4, <2>5, <3>3, <3>4
    <3>7. pendingBar' = pendingBar
      BY <3>6, SameElements
    <3> QED BY <1>6, <2>6, <3>5, <3>7, AbsFinish
  <2> QED BY <2>7, <2>8
<1> QED BY <1>13, <1>14, <1>15 DEF WorkerStep

\* All steps of the workers.
LEMMA WorkerRefines ==
  ASSUME RangesLeaveRoom, RefInv, RefInv', NEW w \in Workers, WorkerStep(w)
  PROVE  [Promise!Next]_(Promise!vars)
<1>1. pc \in [Callers -> CallerPC]
  BY DEF RefInv, IInv, TypeOK
<1>2. command' = command /\ ret' = ret /\ wpc[w] # "waiting"
  BY DEF WorkerStep, ReportReady, ReadCommand, LoadReserved, ReserveChunk, FinishTask,
         callerVars
<1>3. \A c \in Callers : pc'[c] = pc[c] \/ (pc[c] = "asleep" /\ pc'[c] = "barrier")
  BY <1>1 DEF WorkerStep, ReportReady, ReadCommand, LoadReserved, ReserveChunk, FinishTask,
              callerVars, NotifyBarrier
<1>4. CASE ~Running(Creator)
  <2>1. ~Running(Creator)'
    BY <1>2, <1>3, <1>4 DEF Running
  <2> QED BY <1>2, <1>4, <2>1, StutterOutside
<1>5. CASE Running(Creator)
  <2>1. PICK c \in Callers :
           /\ Driver(c) /\ Started(c)
           /\ \A d \in Callers : d # c => ~Driver(d)
           /\ \/ pc[c] \in {"barrier", "asleep"} /\ Gathering(c)
              \/ pc[c] \in {"join", "destroyed"} /\ Quitting
    BY <1>2, ActiveWorker DEF RefInv
  <2>2. NumWorkers # 0
    OBVIOUS
  <2>3. pc[Creator] \notin {"seq", "seqTask"}
    BY <2>2 DEF RefInv, SequentialInv
  <2>4. Driver(Creator)
    BY <1>5, <2>3 DEF Running, Driver
  <2>5. c = Creator
    BY <2>1, <2>4
  <2>6. /\ pc[Creator] \in {"barrier", "asleep"} /\ Gathering(Creator)
        /\ command[Creator] \notin {kWorkerWait, kWorkerExit}
    BY <1>5, <2>1, <2>3, <2>5 DEF Running
  <2>7. pc'[Creator] \in {"barrier", "asleep"}
    BY <1>3, <2>6
  <2>8. worker_start_command_ = command[Creator]
    BY <2>6 DEF Gathering
  <2>9. IsRange(command[Creator]) \/ command[Creator] = kWorkerOnce
    BY <2>6, CreatorCommand DEF AtWork
  <2>10. CASE command[Creator] = kWorkerOnce
    BY <1>2, <2>6, <2>7, <2>8, <2>10, OnceRefines
  <2>11. CASE IsRange(command[Creator])
    <3>1. PICK r : r = command[Creator]
      OBVIOUS
    <3>2. IsRange(r) /\ worker_start_command_ = r
      BY <2>8, <2>11, <3>1
    <3> QED BY <1>2, <2>6, <2>7, <3>1, <3>2, RangeRefines
  <2> QED BY <2>9, <2>10, <2>11
<1> QED BY <1>4, <1>5
-----------------------------------------------------------------------------
\* The invariant of the refinement.
LEMMA InitRef == Init => RefInv
<1>1. Init => SequentialInv
  BY DEF Init, SequentialInv
<1> QED BY <1>1, InitInv, InitOpaque, InitRun DEF RefInv

LEMMA NextRef ==
  ASSUME RangesLeaveRoom, RefInv, [Next]_vars
  PROVE  RefInv'
<1>1. IInv /\ OpaqueInv /\ RunInv /\ SequentialInv
  BY DEF RefInv
<1>2. IInv'
  BY <1>1, NextInv
<1>3. OpaqueInv'
  BY <1>1, OpaqueNext
<1>4. RunInv'
  BY <1>1, NextRun
<1>5. SequentialInv'
  BY <1>1, SequentialNext
<1> QED BY <1>2, <1>3, <1>4, <1>5 DEF RefInv

LEMMA NextRefines ==
  ASSUME RangesLeaveRoom, RefInv, RefInv', [Next]_vars
  PROVE  [Promise!Next]_(Promise!vars)
<1>1. ASSUME NEW c \in Callers,
             CallRunner(c) \/ Destroy(c) \/ CallerStep(c) \/ CallerSpuriousWakeup(c)
      PROVE  [Promise!Next]_(Promise!vars)
  BY <1>1, OtherCaller, CreatorRefines
<1>2. CASE UNCHANGED vars
  <2>1. UNCHANGED <<pc, command, task, ret, num_reserved_, workerVars>>
    BY <1>2 DEF vars, shared, callerVars
  <2> QED BY <2>1, BarsUnchanged
<1>3. CASE Destroyed
  BY <1>2, <1>3 DEF Destroyed
<1> QED BY <1>1, <1>2, <1>3, WorkerRefines DEF Next

\* The runner keeps the contract of parallel_runner.h towards the thread that
\* created it, however many other threads call it: every task of an accepted
\* range is started exactly once, on a thread id below the announced number,
\* and Runner() returns after the last of them has returned.  The ranges have
\* to leave room below 2^32 for the reservations past their ends.
THEOREM Refinement ==
  ASSUME RangesLeaveRoom
  PROVE  Spec => RefinesParallelRun
<1>1. RefInv /\ [Next]_vars => RefInv'
  BY NextRef
<1>2. RefInv /\ RefInv' /\ [Next]_vars => [Promise!Next]_(Promise!vars)
  BY NextRefines
<1> QED BY <1>1, <1>2, InitRef, InitRefines, PTL DEF Spec, RefinesParallelRun, Promise!Spec
=============================================================================
