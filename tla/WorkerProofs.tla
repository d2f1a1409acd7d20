---------------------------- MODULE WorkerProofs ----------------------------
(***************************************************************************)
(* What the worker keeps, for any number of workers, scans, crashes,       *)
(* failed commands and lapsed heartbeats: no entry is acknowledged without *)
(* an outcome, and the queue keeps the promise of AtLeastOnce.             *)
(*                                                                         *)
(* The second half is about the parts of an outcome that come together     *)
(* and, where the heartbeat does its work (Calm), about the one handler    *)
(* that owns a scan and what it may rely on.                               *)
(***************************************************************************)
EXTENDS Worker, FiniteSetTheorems, TLAPS

-----------------------------------------------------------------------------
(* The handler places.                                                     *)

\* There are finitely many slots, so the handlers that die are counted.
LEMMA SlotsFinite == \A S \in SUBSET Slots : Cardinality(S) \in Nat
  <1>1. IsFiniteSet(1 .. Concurrency)
    BY FS_Interval, ConcurrencyAssumption
  <1>2. IsFiniteSet(Slots)
    BY <1>1, FS_Product, WorkersAssumption DEF Slots
  <1> QED
    BY <1>2, FS_Subset, FS_CardinalityType

LEMMA IdleTaskType == IdleTask \in Tasks /\ IdleTask.pc = "idle" /\ ~IdleTask.beating
  BY DEF IdleTask, NewTask, Tasks, Places, Outcomes

\* Replacing one handler's record by a well-typed one keeps the type of `task`.
LEMMA PutTask ==
  ASSUME TaskTypeOK, NEW s \in Slots, NEW t \in Tasks,
         t.pc # "idle" \/ t.beating => t.job \in Jobs,
         t.pc = "dlq" => t.out \in Reasons,
         task' = [task EXCEPT ![s] = t]
  PROVE  TaskTypeOK'
  BY DEF TaskTypeOK

LEMMA StartTaskType ==
  ASSUME TaskTypeOK, NEW w, NEW j \in Jobs, NEW place \in Places,
         NEW out \in Outcomes, StartTask(w, j, place, out),
         place # "dlq"
  PROVE  TaskTypeOK'
  <1>1. PICK s \in Slots : task' = [task EXCEPT ![s] = NewTask(j, place, out)]
    BY DEF StartTask, FreeSlots
  <1>2. /\ NewTask(j, place, out) \in Tasks
        /\ NewTask(j, place, out).job = j /\ NewTask(j, place, out).pc = place
    BY DEF NewTask, Tasks
  <1> QED
    BY <1>1, <1>2, PutTask

\* What every step of a running handler needs to know of it.
LEMMA RunningTask ==
  ASSUME TaskTypeOK, NEW s \in Slots, task[s].pc # "idle"
  PROVE  /\ task[s] \in Tasks
         /\ task[s].job \in Jobs
         /\ task[s].pc \in Places
         /\ task[s].out \in Outcomes
         /\ task[s].attempt \in Nat
         /\ task[s].beating \in BOOLEAN
  BY DEF TaskTypeOK, Tasks

LEMMA StatusOfType ==
  \A out : StatusOf(out) \in Statuses \ {"none"}
  BY DEF StatusOf, Statuses

\* A handler's record changes field by field.
LEMMA GotoType ==
  ASSUME TaskTypeOK, NEW s \in Slots, task[s].pc # "idle",
         NEW place \in Places, Goto(s, place),
         place = "dlq" => task[s].out \in Reasons
  PROVE  TaskTypeOK'
  <1> DEFINE t == [task[s] EXCEPT !.pc = place]
  <1>1. t \in Tasks /\ t.job = task[s].job /\ t.pc = place /\ t.out = task[s].out
    BY RunningTask DEF Tasks
  <1>2. task' = [task EXCEPT ![s] = t]
    BY DEF Goto, TaskTypeOK
  <1> HIDE DEF t
  <1> QED
    BY <1>1, <1>2, PutTask, RunningTask

LEMMA GotoWithType ==
  ASSUME TaskTypeOK, NEW s \in Slots, task[s].pc # "idle",
         NEW place \in Places, NEW out \in Outcomes, GotoWith(s, place, out),
         place # "dlq"
  PROVE  TaskTypeOK'
  <1> DEFINE t == [task[s] EXCEPT !.pc = place, !.out = out]
  <1>1. t \in Tasks /\ t.job = task[s].job /\ t.pc = place /\ t.out = out
    BY RunningTask DEF Tasks
  <1>2. task' = [task EXCEPT ![s] = t]
    BY DEF GotoWith, TaskTypeOK
  <1> HIDE DEF t
  <1> QED
    BY <1>1, <1>2, PutTask, RunningTask

LEMMA EndType ==
  ASSUME TaskTypeOK, NEW s \in Slots, End(s)
  PROVE  TaskTypeOK'
  BY IdleTaskType, PutTask DEF End

-----------------------------------------------------------------------------
(* Type correctness.                                                       *)

LEMMA TypeInit == Init => TypeOK
  <1> SUFFICES ASSUME Init PROVE TypeOK
    OBVIOUS
  <1>1. RedisTypeOK
    BY DEF Init, RedisTypeOK, Entries, Attempts, NoAttempt, Statuses
  <1>2. LoopTypeOK
    BY DEF Init, LoopTypeOK, Sweeps, NoSweep
  <1>3. TaskTypeOK
    BY IdleTaskType DEF Init, TaskTypeOK
  <1>4. GhostTypeOK
    BY DEF Init, GhostTypeOK
  <1> QED
    BY <1>1, <1>2, <1>3, <1>4 DEF TypeOK

\* Replacing one sweep by a well-typed one keeps the type of `sweep`.
LEMMA PutSweep ==
  ASSUME LoopTypeOK, NEW w \in Workers, NEW r \in Sweeps,
         sweep' = [sweep EXCEPT ![w] = r],
         UNCHANGED up, fetched' \in [Workers -> Jobs \cup {NoJob}]
  PROVE  LoopTypeOK'
  BY DEF LoopTypeOK

LEMMA SweepFields ==
  ASSUME LoopTypeOK, NEW w \in Workers
  PROVE  /\ sweep[w] \in Sweeps
         /\ sweep[w].todo \in SUBSET Jobs /\ sweep[w].orphans \in SUBSET Jobs
         /\ sweep[w].spent \in SUBSET Jobs /\ sweep[w].reclaimed \in SUBSET Jobs
         /\ sweep[w].abandoned \in SUBSET Jobs
  BY DEF LoopTypeOK, Sweeps

LEMMA NoSweepType == NoSweep \in Sweeps
  BY DEF NoSweep, Sweeps

LEMMA TypeSweep ==
  ASSUME TypeOK, NEW w \in Workers, SpawnFetched(w) \/ Sweeping(w)
  PROVE  TypeOK'
  <1> USE DEF TypeOK
  <1>a. \/ SpawnFetched(w)
        \/ SweepPending(w)
        \/ SweepClaim(w)
        \/ \E j \in Jobs : \/ SweepCheck(w, j)
                           \/ SpawnReclaimed(w, j)
                           \/ SpawnAbandoned(w, j)
    BY DEF Sweeping
  <1>b. GhostTypeOK'
    BY <1>a
    DEF SpawnFetched, SweepPending, SweepClaim, SweepCheck, SpawnReclaimed,
        SpawnAbandoned, GhostTypeOK, budgets
  <1>1. CASE SpawnFetched(w)
    <2>1. fetched[w] \in Jobs /\ "beat" \in Places /\ "none" \in Outcomes
      BY <1>1 DEF SpawnFetched, LoopTypeOK, Places, Outcomes
    <2>2. TaskTypeOK'
      BY <1>1, <2>1, StartTaskType DEF SpawnFetched
    <2> QED
      BY <1>1, <1>b, <2>2 DEF SpawnFetched, RedisTypeOK, LoopTypeOK, redis
  <1>2. CASE SweepPending(w)
    <2> DEFINE r == [NoSweep EXCEPT !.todo = Pending \cap aged,
                                    !.spent = {j \in Pending \cap aged :
                                                  delivered[j] > MaxDeliveries}]
    <2>1. r \in Sweeps
      BY DEF NoSweep, Sweeps, Pending
    <2>2. LoopTypeOK'
      <3> HIDE DEF r
      <3>1. sweep' = [sweep EXCEPT ![w] = r] /\ UNCHANGED <<up, fetched>>
        BY <1>2 DEF SweepPending, r
      <3> QED
        BY <2>1, <3>1, PutSweep DEF LoopTypeOK
    <2> QED
      BY <1>2, <1>b, <2>2 DEF SweepPending, RedisTypeOK, TaskTypeOK, redis
  <1>3. ASSUME NEW j \in Jobs, SweepCheck(w, j) PROVE TypeOK'
    <2> DEFINE r == Checked(sweep[w], j)
    <2>1. r \in Sweeps
      BY SweepFields DEF Sweeps, Checked
    <2>2. LoopTypeOK'
      <3>1. sweep' = [sweep EXCEPT ![w] = r] /\ UNCHANGED <<up, fetched>>
        BY <1>3 DEF SweepCheck, LoopTypeOK
      <3> HIDE DEF r
      <3> QED
        BY <2>1, <3>1, PutSweep DEF LoopTypeOK
    <2> QED
      BY <1>3, <1>b, <2>2 DEF SweepCheck, RedisTypeOK, TaskTypeOK, redis
  <1>4. CASE SweepClaim(w)
    <2> DEFINE mine == Claimable(w)
               r == [NoSweep EXCEPT !.reclaimed = mine \ sweep[w].spent,
                                    !.abandoned = mine \cap sweep[w].spent]
    <2>1. mine \in SUBSET Jobs
      BY SweepFields DEF Claimable
    <2>2. r \in Sweeps
      BY <2>1 DEF NoSweep, Sweeps
    <2>3. LoopTypeOK'
      <3>1. sweep' = [sweep EXCEPT ![w] = r] /\ UNCHANGED <<up, fetched>>
        BY <1>4 DEF SweepClaim
      <3> HIDE DEF r
      <3> QED
        BY <2>2, <3>1, PutSweep DEF LoopTypeOK
    <2>4. RedisTypeOK'
      BY <1>4 DEF SweepClaim, RedisTypeOK
    <2> QED
      BY <1>4, <1>b, <2>3, <2>4 DEF SweepClaim, TaskTypeOK
  <1>5. ASSUME NEW j \in Jobs, SpawnReclaimed(w, j) PROVE TypeOK'
    <2> DEFINE r == Spawned(sweep[w], j)
    <2>1. r \in Sweeps
      BY SweepFields DEF Sweeps, Spawned
    <2>2. LoopTypeOK'
      <3>1. sweep' = [sweep EXCEPT ![w] = r] /\ UNCHANGED <<up, fetched>>
        BY <1>5 DEF SpawnReclaimed, LoopTypeOK
      <3> HIDE DEF r
      <3> QED
        BY <2>1, <3>1, PutSweep DEF LoopTypeOK
    <2>3. TaskTypeOK'
      <3>1. "beat" \in Places /\ "none" \in Outcomes
        BY DEF Places, Outcomes
      <3> QED
        BY <1>5, <3>1, StartTaskType DEF SpawnReclaimed
    <2> QED
      BY <1>5, <1>b, <2>2, <2>3 DEF SpawnReclaimed, RedisTypeOK, redis
  <1>6. ASSUME NEW j \in Jobs, SpawnAbandoned(w, j) PROVE TypeOK'
    <2> DEFINE r == Spawned(sweep[w], j)
    <2>1. r \in Sweeps
      BY SweepFields DEF Sweeps, Spawned
    <2>2. LoopTypeOK'
      <3>1. sweep' = [sweep EXCEPT ![w] = r] /\ UNCHANGED <<up, fetched>>
        BY <1>6 DEF SpawnAbandoned, LoopTypeOK
      <3> HIDE DEF r
      <3> QED
        BY <2>1, <3>1, PutSweep DEF LoopTypeOK
    <2>3. TaskTypeOK'
      <3>1. "finish" \in Places /\ "JOB_ABANDONED" \in Outcomes
        BY DEF Places, Outcomes, Reasons
      <3> QED
        BY <1>6, <3>1, StartTaskType DEF SpawnAbandoned
    <2> QED
      BY <1>6, <1>b, <2>2, <2>3 DEF SpawnAbandoned, RedisTypeOK, redis
  <1> QED
    BY <1>a, <1>1, <1>2, <1>3, <1>4, <1>5, <1>6

\* Only the handler's record and Redis change in a handler step.
LEMMA TypeHandler ==
  ASSUME TypeOK, NEW s \in Slots, HandlerStep(s)
  PROVE  TypeOK'
  <1> USE DEF TypeOK, At
  <1>a. task[s].pc # "idle"
    BY DEF HandlerStep, Beat, Check, Load, Begin, Mark, PipelineEnds, Finish,
           DeadLetter, Record, PublishStatus, Settle, ReleaseSlot, Notify,
           Clear, Ack
  <1>b. /\ task[s].job \in Jobs /\ task[s].out \in Outcomes
        /\ task[s].attempt \in Nat
        /\ StatusOf(task[s].out) \in Statuses
    BY <1>a, RunningTask, StatusOfType
  <1>c. /\ LoopTypeOK' /\ GhostTypeOK'
    BY <1>b
    DEF LoopTypeOK, GhostTypeOK, budgets, HandlerStep, Beat, Check, Load, Begin,
        Mark, PipelineEnds, Finish, DeadLetter, Record, PublishStatus, Settle,
        ReleaseSlot, Notify, Clear, Ack
  <1>d. RedisTypeOK'
    <2>1. CASE Beat(s) \/ Check(s) \/ Load(s) \/ Settle(s) \/ ReleaseSlot(s)
               \/ Notify(s) \/ Clear(s) \/ \E out \in Outcomes : PipelineEnds(s, out)
      BY <1>b, <2>1
      DEF RedisTypeOK, redis, Beat, Check, Load, Settle, ReleaseSlot, Notify,
          Clear, PipelineEnds
    <2>2. CASE Begin(s) \/ Mark(s) \/ Finish(s)
      <3>1. \A a \in Nat : [attempt |-> a, stage |-> "fetch"] \in Attempts
                          /\ [attempt |-> a, stage |-> "risky"] \in Attempts
        BY DEF Attempts
      <3>2. NoAttempt \in Attempts
        BY DEF Attempts, NoAttempt
      <3>3. journal' \in [Jobs -> Attempts]
        BY <1>b, <2>2, <3>1, <3>2 DEF RedisTypeOK, Begin, Mark, Finish, Journal
      <3> QED
        BY <2>2, <3>3 DEF RedisTypeOK, Begin, Mark, Finish
    <2>3. CASE DeadLetter(s)
      <3>1. task[s].out \in Reasons
        BY <2>3 DEF DeadLetter, TaskTypeOK
      <3> QED
        BY <1>b, <2>3, <3>1 DEF RedisTypeOK, DeadLetter
    <2>4. CASE Record(s) \/ PublishStatus(s)
      BY <1>b, <2>4 DEF RedisTypeOK, Record, PublishStatus
    <2>5. CASE Ack(s)
      BY <1>b, <2>5 DEF RedisTypeOK, Ack, Entries
    <2> QED
      BY <2>1, <2>2, <2>3, <2>4, <2>5 DEF HandlerStep
  <1>e. TaskTypeOK'
    <2>1. CASE Beat(s)
      <3> DEFINE t == [task[s] EXCEPT !.pc = "check", !.beating = TRUE]
      <3>1. t \in Tasks /\ t.job = task[s].job /\ t.pc = "check"
        BY <1>a, RunningTask DEF Tasks, Places
      <3>2. task' = [task EXCEPT ![s] = t]
        BY <2>1 DEF Beat
      <3> HIDE DEF t
      <3> QED
        BY <1>b, <3>1, <3>2, PutTask
    <2>2. CASE Load(s)
      <3>1. CASE CrashedOnContent(journal[task[s].job])
        BY <1>a, <2>2, <3>1, GotoWithType DEF Load, Places, Outcomes, Reasons
      <3>2. CASE ~CrashedOnContent(journal[task[s].job])
        <4> DEFINE n == journal[task[s].job].attempt + 1
                   t == [task[s] EXCEPT !.pc = "begin", !.attempt = n]
        <4>1. n \in Nat
          BY <1>b DEF RedisTypeOK, Attempts
        <4>2. t \in Tasks /\ t.job = task[s].job /\ t.pc = "begin"
          <5> HIDE DEF n
          <5> QED
            BY <1>a, <4>1, RunningTask DEF Tasks, Places
        <4>3. task' = [task EXCEPT ![s] = t]
          BY <2>2, <3>2 DEF Load
        <4> HIDE DEF t
        <4> QED
          BY <1>b, <4>2, <4>3, PutTask
      <3> QED
        BY <3>1, <3>2
    <2>3. CASE Clear(s)
      <3>1. CASE AcksInsideKeep(task[s].out)
        BY <2>3, <3>1, EndType DEF Clear
      <3>2. CASE ~AcksInsideKeep(task[s].out)
        <4> DEFINE t == [task[s] EXCEPT !.pc = "ack", !.beating = FALSE]
        <4>1. t \in Tasks /\ t.job = task[s].job /\ t.pc = "ack"
          BY <1>a, RunningTask DEF Tasks, Places
        <4>2. task' = [task EXCEPT ![s] = t]
          BY <2>3, <3>2 DEF Clear
        <4> HIDE DEF t
        <4> QED
          BY <1>b, <4>1, <4>2, PutTask
      <3> QED
        BY <3>1, <3>2
    <2>4. CASE Check(s)
      <3>1. \/ GotoWith(s, "publish", "replay done")
            \/ GotoWith(s, "publish", "replay manual")
            \/ Goto(s, "load")
        BY <2>4 DEF Check, ReplayOf
      <3> QED
        BY <1>a, <3>1, GotoType, GotoWithType DEF Places, Outcomes
    <2>5. ASSUME NEW out \in Outcomes, PipelineEnds(s, out) PROVE TaskTypeOK'
      BY <1>a, <2>5, GotoWithType DEF PipelineEnds, Places
    <2>6. CASE Finish(s)
      <3>1. /\ AfterFinish(task[s].out) \in Places
            /\ AfterFinish(task[s].out) = "dlq" => task[s].out \in Reasons
        BY DEF AfterFinish, Places
      <3> QED
        BY <1>a, <2>6, <3>1, GotoType DEF Finish
    <2>7. CASE Ack(s)
      <3>1. Goto(s, "clear") \/ End(s)
        BY <2>7 DEF Ack
      <3> QED
        BY <1>a, <3>1, GotoType, EndType DEF Places
    <2>8. CASE \/ Begin(s) \/ Mark(s) \/ DeadLetter(s) \/ Record(s)
               \/ PublishStatus(s) \/ Settle(s) \/ ReleaseSlot(s) \/ Notify(s)
      <3>1. \E place \in Places \ {"dlq"} : Goto(s, place)
        BY <2>8
        DEF Begin, Mark, DeadLetter, Record, PublishStatus, AfterPublish, Settle,
            ReleaseSlot, Notify, Places
      <3> QED
        BY <1>a, <3>1, GotoType
    <2> QED
      BY <2>1, <2>2, <2>3, <2>4, <2>5, <2>6, <2>7, <2>8 DEF HandlerStep
  <1> QED
    BY <1>c, <1>d, <1>e

\* Crashes, failed commands, lapses, expiry and time.
LEMMA TypeEnvironment ==
  ASSUME TypeOK, Environment
  PROVE  TypeOK'
  <1> USE DEF TypeOK, At
  <1>1. ASSUME NEW w \in Workers, Restart(w) PROVE TypeOK'
    BY <1>1
    DEF Restart, RedisTypeOK, LoopTypeOK, TaskTypeOK, GhostTypeOK, redis, budgets
  <1>2. ASSUME NEW j \in Jobs, BeatExpires(j) \/ Age(j) PROVE TypeOK'
    BY <1>2
    DEF BeatExpires, Age, RedisTypeOK, LoopTypeOK, TaskTypeOK, GhostTypeOK,
        processes, budgets
  <1>3. ASSUME NEW s \in Slots, Refresh(s) PROVE TypeOK'
    <2>1. task[s].job \in Jobs
      BY <1>3 DEF Refresh, TaskTypeOK
    <2> QED
      BY <1>3, <2>1
      DEF Refresh, RedisTypeOK, LoopTypeOK, TaskTypeOK, GhostTypeOK, processes,
          budgets
  <1>4. ASSUME NEW w \in Workers, Die(w), UNCHANGED redis,
               crashes' \in Nat, UNCHANGED <<faults, lapses>>
        PROVE  TypeOK'
    <2>1. TaskTypeOK'
      BY <1>4, IdleTaskType DEF Die, TaskTypeOK
    <2>2. died' \in [Jobs -> Nat]
      <3>1. \A j \in Jobs : Cardinality({s \in Slots : /\ s[1] = w
                                                      /\ AttemptIsOpen(s)
                                                      /\ task[s].job = j}) \in Nat
        BY SlotsFinite
      <3> QED
        BY <1>4, <3>1 DEF Die, GhostTypeOK
    <2>3. LoopTypeOK'
      BY <1>4, NoSweepType DEF Die, LoopTypeOK
    <2> QED
      BY <1>4, <2>1, <2>2, <2>3 DEF RedisTypeOK, GhostTypeOK, redis
  <1>5. ASSUME NEW w \in Workers, Crash(w) PROVE TypeOK'
    BY <1>4, <1>5 DEF Crash, GhostTypeOK
  <1>6. ASSUME NEW s \in Slots, ParserDies(s) PROVE TypeOK'
    <2>1. s[1] \in Workers
      BY DEF Slots
    <2> QED
      BY <1>4, <1>6, <2>1 DEF ParserDies, GhostTypeOK, budgets
  <1>7. ASSUME NEW s \in Slots, CommandFails(s) PROVE TypeOK'
    <2>1. TaskTypeOK'
      <3>1. task[s].pc # "idle"
        BY <1>7 DEF CommandFails
      <3>2. \/ \E place \in {"publish", "ack", "clear"} : Goto(s, place)
            \/ \E place \in {"finish", "clear"} : GotoWith(s, place, "infra")
            \/ End(s)
        BY <1>7 DEF CommandFails
      <3> QED
        BY <3>1, <3>2, GotoType, GotoWithType, EndType DEF Places, Outcomes
    <2> QED
      BY <1>7, <2>1 DEF CommandFails, RedisTypeOK, LoopTypeOK, GhostTypeOK, redis
  <1>8. ASSUME NEW s \in Slots, RefresherDies(s) PROVE TypeOK'
    <2> DEFINE t == [task[s] EXCEPT !.beating = FALSE]
    <2>1. /\ t \in Tasks /\ t.job = task[s].job /\ t.pc = task[s].pc
          /\ t.out = task[s].out /\ ~t.beating
      BY DEF TaskTypeOK, Tasks
    <2>2. task' = [task EXCEPT ![s] = t]
      BY <1>8 DEF RefresherDies
    <2>3. TaskTypeOK'
      <3> HIDE DEF t
      <3> QED
        BY <2>1, <2>2, PutTask DEF TaskTypeOK
    <2> QED
      BY <1>8, <2>3 DEF RefresherDies, RedisTypeOK, LoopTypeOK, GhostTypeOK, redis
  <1> QED
    BY <1>1, <1>2, <1>3, <1>5, <1>6, <1>7, <1>8 DEF Environment

LEMMA TypeNext == TypeOK /\ [Next]_vars => TypeOK'
  <1> SUFFICES ASSUME TypeOK, [Next]_vars PROVE TypeOK'
    OBVIOUS
  <1>1. CASE UNCHANGED vars
    BY <1>1
    DEF vars, redis, processes, budgets, TypeOK, RedisTypeOK, LoopTypeOK,
        TaskTypeOK, GhostTypeOK
  <1>2. ASSUME NEW j \in Jobs, Publish(j) PROVE TypeOK'
    BY <1>2
    DEF Publish, TypeOK, RedisTypeOK, LoopTypeOK, TaskTypeOK, GhostTypeOK,
        Entries, processes, budgets
  <1>3. ASSUME NEW w \in Workers, NEW j \in Jobs, Consume(w, j) PROVE TypeOK'
    BY <1>3
    DEF Consume, TypeOK, RedisTypeOK, LoopTypeOK, TaskTypeOK, GhostTypeOK,
        Entries, budgets
  <1> QED
    BY <1>1, <1>2, <1>3, TypeSweep, TypeHandler, TypeEnvironment DEF Next

\* Every state of the worker, under any of its faults, has the declared types.
THEOREM TypeCorrect == Spec => []TypeOK
  BY TypeInit, TypeNext, PTL DEF Spec

-----------------------------------------------------------------------------
(* Nothing is acknowledged without an outcome.                             *)

\* What no step takes back: a delivered entry stays delivered, a scan with a
\* status keeps having one, and dead letters are never removed.
Grows ==
    \A j \in Jobs : /\ j \in Delivered => j \in Delivered'
                    /\ status[j] # "none" => status'[j] # "none"
                    /\ dlq[j] # {} => dlq'[j] # {}

LEMMA StepGrows ==
  ASSUME TypeOK, [Next]_vars
  PROVE  Grows
  <1> USE DEF Delivered
  <1>1. CASE UNCHANGED redis
    BY <1>1 DEF redis, Grows
  <1>2. ASSUME NEW j \in Jobs, Publish(j) PROVE Grows
    BY <1>2 DEF Publish, Grows, TypeOK, RedisTypeOK
  <1>3. ASSUME NEW w \in Workers, NEW j \in Jobs, Consume(w, j) PROVE Grows
    BY <1>3 DEF Consume, Grows, TypeOK, RedisTypeOK
  <1>4. ASSUME NEW w \in Workers, SpawnFetched(w) \/ Sweeping(w) PROVE Grows
    BY <1>4
    DEF SpawnFetched, Sweeping, SweepPending, SweepCheck, SweepClaim,
        SpawnReclaimed, SpawnAbandoned, Grows, redis
  <1>5. ASSUME NEW s \in Slots, HandlerStep(s) PROVE Grows
    <2>1. CASE PublishStatus(s)
      BY <2>1, StatusOfType DEF PublishStatus, Grows, TypeOK, RedisTypeOK
    <2>2. CASE DeadLetter(s)
      BY <2>2 DEF DeadLetter, Grows, TypeOK, RedisTypeOK
    <2>3. CASE Ack(s)
      BY <2>3 DEF Ack, Grows, TypeOK, RedisTypeOK
    <2>4. CASE UNCHANGED <<stream, status, dlq>>
      BY <2>4 DEF Grows
    <2> QED
      BY <1>5, <2>1, <2>2, <2>3, <2>4
      DEF HandlerStep, Beat, Check, Load, Begin, Mark, PipelineEnds, Finish,
          Record, Settle, ReleaseSlot, Notify, Clear, redis
  <1>6. CASE Environment
    BY <1>6
    DEF Environment, Crash, Restart, CommandFails, ParserDies, RefresherDies,
        Refresh, BeatExpires, Age, Grows, redis
  <1> QED
    BY <1>1, <1>2, <1>3, <1>4, <1>5, <1>6 DEF Next, vars

\* A handler that does not move keeps what it has.
LEMMA FitsIsKept ==
  ASSUME Grows, NEW r \in Slots, TaskTypeOK, TaskFits(task[r]),
         task'[r] = task[r]
  PROVE  TaskFits(task[r])'
  <1>1. CASE task[r].pc = "idle"
    BY <1>1 DEF TaskFits
  <1>2. CASE task[r].pc # "idle"
    <2>1. task[r].job \in Jobs
      BY <1>2 DEF TaskTypeOK
    <2>2. /\ task[r].job \in Delivered'
          /\ task[r].pc = "finish"
               => task[r].out \in {"done", "failed", "infra"} \cup Reasons
      BY <1>2, <2>1 DEF Grows, TaskFits
    <2>3. task[r].pc \in {"record", "publish"} => Publishable(task[r])'
      BY <1>2, <2>1 DEF Grows, TaskFits, Publishable
    <2>4. PastPublish(task[r])' => status'[task[r].job] # "none"
      BY <1>2, <2>1 DEF Grows, TaskFits, PastPublish
    <2> QED
      BY <2>2, <2>3, <2>4 DEF TaskFits
  <1> QED
    BY <1>1, <1>2

\* So a step of one handler has to be looked at for that handler only.
LEMMA OneTaskMoves ==
  ASSUME Grows, TaskTypeOK, \A r \in Slots : TaskFits(task[r]),
         NEW s \in Slots, NEW t, task' = [task EXCEPT ![s] = t], TaskFits(t)'
  PROVE  \A r \in Slots : TaskFits(task[r])'
  <1> SUFFICES ASSUME NEW r \in Slots PROVE TaskFits(task[r])'
    OBVIOUS
  <1>1. CASE r = s
    <2>1. task'[r] = t
      BY <1>1 DEF TaskTypeOK
    <2> QED
      BY <2>1 DEF TaskFits, Publishable, PastPublish
  <1>2. CASE r # s
    <2>1. task'[r] = task[r]
      BY <1>2 DEF TaskTypeOK
    <2> QED
      BY <2>1, FitsIsKept
  <1> QED
    BY <1>1, <1>2


\* A handler starts with an entry that was delivered, and _abandon with a reason.
LEMMA StartFits ==
  ASSUME Grows, TypeOK, \A r \in Slots : TaskFits(task[r]),
         NEW w, NEW j \in Jobs, NEW place, NEW out, StartTask(w, j, place, out),
         j \in Delivered,
         place = "beat" \/ (place = "finish" /\ out = "JOB_ABANDONED")
  PROVE  \A r \in Slots : TaskFits(task[r])'
  <1> DEFINE t == NewTask(j, place, out)
  <1>1. PICK s \in Slots : task' = [task EXCEPT ![s] = t]
    BY DEF StartTask, FreeSlots
  <1>2. t.pc = place /\ t.job = j /\ t.out = out
    BY DEF NewTask
  <1>3. j \in Delivered'
    BY DEF Grows
  <1> HIDE DEF t
  <1>4. TaskFits(t)'
    BY <1>2, <1>3 DEF TaskFits, PastPublish, Reasons
  <1> QED
    BY <1>1, <1>4, OneTaskMoves DEF TypeOK

LEMMA HandlerFits ==
  ASSUME Grows, TypeOK, \A r \in Slots : TaskFits(task[r]), ManualHasLetter,
         NEW s \in Slots, HandlerStep(s)
  PROVE  \A r \in Slots : TaskFits(task[r])'
  <1> USE DEF At
  <1> DEFINE j == task[s].job
  <1>a. task[s].pc # "idle"
    BY DEF HandlerStep, Beat, Check, Load, Begin, Mark, PipelineEnds, Finish,
           DeadLetter, Record, PublishStatus, Settle, ReleaseSlot, Notify,
           Clear, Ack
  <1>b. j \in Jobs /\ task[s] \in Tasks /\ task \in [Slots -> Tasks]
    BY <1>a, RunningTask DEF TypeOK, TaskTypeOK
  <1>c. j \in Delivered /\ j \in Delivered'
    BY <1>a, <1>b DEF TaskFits, Grows
  <1>d. status[j] # "none" => status'[j] # "none"
    BY <1>b DEF Grows
  <1>e. dlq[j] # {} => dlq'[j] # {}
    BY <1>b DEF Grows
  \* It is enough that the moved record fits.
  <1>f. ASSUME NEW t, task' = [task EXCEPT ![s] = t], TaskFits(t)'
        PROVE  \A r \in Slots : TaskFits(task[r])'
    BY <1>f, OneTaskMoves DEF TypeOK
  <1>1. CASE Beat(s)
    <2>0. PICK t : t = [task[s] EXCEPT !.pc = "check", !.beating = TRUE]
      OBVIOUS
    <2>1. t.pc = "check" /\ t.job = j
      BY <1>b, <2>0 DEF Tasks
    <2>2. task' = [task EXCEPT ![s] = t]
      BY <1>1, <2>0 DEF Beat
    <2>3. TaskFits(t)'
      BY <1>c, <2>1 DEF TaskFits, PastPublish
    <2> QED
      BY <1>f, <2>2, <2>3
  <1>2. CASE Load(s) /\ ~CrashedOnContent(journal[j])
    <2>0. PICK t : t = [task[s] EXCEPT !.pc = "begin",
                                !.attempt = journal[j].attempt + 1]
      OBVIOUS
    <2>1. t.pc = "begin" /\ t.job = j
      BY <1>b, <2>0 DEF Tasks
    <2>2. task' = [task EXCEPT ![s] = t]
      BY <1>2, <2>0 DEF Load
    <2>3. TaskFits(t)'
      BY <1>c, <2>1 DEF TaskFits, PastPublish
    <2> QED
      BY <1>f, <2>2, <2>3
  <1>3. CASE Clear(s) /\ ~AcksInsideKeep(task[s].out)
    <2>0. PICK t : t = [task[s] EXCEPT !.pc = "ack", !.beating = FALSE]
      OBVIOUS
    <2>1. t.pc = "ack" /\ t.job = j
      BY <1>b, <2>0 DEF Tasks
    <2>2. task' = [task EXCEPT ![s] = t]
      BY <1>3, <2>0 DEF Clear
    <2>3. status[j] # "none"
      BY <1>3 DEF TaskFits, PastPublish, Clear
    <2>4. TaskFits(t)'
      BY <1>c, <1>d, <2>1, <2>3 DEF TaskFits, PastPublish
    <2> QED
      BY <1>f, <2>2, <2>4
  \* The steps that end a handler.
  <1>4. CASE End(s)
    <2>1. TaskFits(IdleTask)'
      BY IdleTaskType DEF TaskFits
    <2> QED
      BY <1>4, <1>f, <2>1 DEF End
  \* The steps that choose an outcome.
  <1>5. ASSUME NEW place, NEW out, GotoWith(s, place, out),
               \/ /\ place = "finish"
                  /\ out \in {"done", "failed", "infra"} \cup Reasons
               \/ place = "publish" /\ out = "replay done"
               \/ place = "publish" /\ out = "replay manual" /\ dlq[j] # {}
        PROVE  \A r \in Slots : TaskFits(task[r])'
    <2>0. PICK t : t = [task[s] EXCEPT !.pc = place, !.out = out]
      OBVIOUS
    <2>1. t.pc = place /\ t.job = j /\ t.out = out
      BY <1>b, <2>0 DEF Tasks
    <2>2. task' = [task EXCEPT ![s] = t]
      BY <1>5, <2>0 DEF GotoWith
    <2>3. TaskFits(t)'
      BY <1>c, <1>e, <1>5, <2>1 DEF TaskFits, PastPublish, Publishable, Reasons
    <2> QED
      BY <1>f, <2>2, <2>3
  \* The steps to another place with the outcome as it is.
  <1>6. ASSUME NEW place, Goto(s, place), place # "finish",
               place \in {"record", "publish"} =>
                  \/ task[s].out \in {"done", "failed", "replay done"}
                  \/ task[s].out \in Reasons \cup {"replay manual"} /\ dlq'[j] # {},
               place \in {"settle", "release", "notify", "ack"}
                  => status'[j] # "none",
               place = "clear" /\ ~AcksInsideKeep(task[s].out)
                  => status'[j] # "none"
        PROVE  \A r \in Slots : TaskFits(task[r])'
    <2>0. PICK t : t = [task[s] EXCEPT !.pc = place]
      OBVIOUS
    <2>1. t.pc = place /\ t.job = j /\ t.out = task[s].out
      BY <1>b, <2>0 DEF Tasks
    <2>2. task' = [task EXCEPT ![s] = t]
      BY <1>6, <2>0 DEF Goto
    <2>3. TaskFits(t)'
      BY <1>c, <1>6, <2>1 DEF TaskFits, PastPublish, Publishable
    <2> QED
      BY <1>f, <2>2, <2>3
  <1>7. CASE Check(s)
    <2>1. CASE status[j] \in Terminal
      BY <1>5, <1>7, <1>b, <2>1
      DEF Check, ReplayOf, Terminal, ManualHasLetter
    <2>2. CASE status[j] \notin Terminal
      BY <1>6, <1>7, <2>2 DEF Check
    <2> QED
      BY <2>1, <2>2
  <1>8. CASE Load(s) /\ CrashedOnContent(journal[j])
    BY <1>5, <1>8 DEF Load, Reasons
  <1>9. CASE Begin(s) \/ Mark(s)
    BY <1>6, <1>9 DEF Begin, Mark
  <1>10. ASSUME NEW out \in Outcomes, PipelineEnds(s, out)
         PROVE  \A r \in Slots : TaskFits(task[r])'
    BY <1>5, <1>10 DEF PipelineEnds, Reasons
  <1>11. CASE Finish(s)
    <2>1. task[s].out \in {"done", "failed", "infra"} \cup Reasons
      BY <1>11 DEF Finish, TaskFits
    <2> QED
      BY <1>6, <1>11, <2>1 DEF Finish, AfterFinish, AcksInsideKeep, Reasons
  <1>12. CASE DeadLetter(s)
    <2>1. task[s].out \in Reasons /\ dlq'[j] # {}
      BY <1>12, <1>b DEF DeadLetter, TypeOK, TaskTypeOK, RedisTypeOK
    <2> QED
      BY <1>6, <1>12, <2>1 DEF DeadLetter
  <1>13. CASE Record(s)
    <2>1. Publishable(task[s])
      BY <1>13 DEF Record, TaskFits
    <2> QED
      BY <1>6, <1>13, <1>e, <2>1 DEF Record, Publishable
  <1>14. CASE PublishStatus(s)
    <2>1. status'[j] # "none"
      BY <1>14, <1>b, StatusOfType DEF PublishStatus, TypeOK, RedisTypeOK
    <2> QED
      BY <1>6, <1>14, <2>1 DEF PublishStatus, AfterPublish
  <1>15. CASE Settle(s) \/ ReleaseSlot(s) \/ Notify(s)
    <2>1. status'[j] # "none"
      BY <1>15, <1>a, <1>d
      DEF Settle, ReleaseSlot, Notify, TaskFits, PastPublish
    <2> QED
      BY <1>6, <1>15, <2>1 DEF Settle, ReleaseSlot, Notify
  <1>16. CASE Ack(s)
    <2>1. status'[j] # "none"
      BY <1>16, <1>d DEF Ack, TaskFits, PastPublish
    <2> QED
      BY <1>4, <1>6, <1>16, <2>1 DEF Ack
  <1>17. CASE Clear(s) /\ AcksInsideKeep(task[s].out)
    BY <1>4, <1>17 DEF Clear
  <1> QED
    BY <1>1, <1>2, <1>3, <1>7, <1>8, <1>9, <1>10, <1>11, <1>12, <1>13, <1>14,
       <1>15, <1>16, <1>17 DEF HandlerStep

LEMMA TasksFitNext ==
  ASSUME Inv, [Next]_vars
  PROVE  \A r \in Slots : TaskFits(task[r])'
  <1>a. /\ TypeOK /\ ManualHasLetter /\ \A r \in Slots : TaskFits(task[r])
        /\ TaskTypeOK /\ LoopTypeOK
        /\ \A w \in Workers : HeldBy(w) \subseteq Delivered
    BY DEF Inv, TypeOK
  <1>b. Grows
    BY <1>a, StepGrows
  <1>1. CASE UNCHANGED task
    BY <1>1, <1>a, <1>b, FitsIsKept
  <1>2. ASSUME NEW w \in Workers, SpawnFetched(w)
        PROVE  \A r \in Slots : TaskFits(task[r])'
    <2>1. fetched[w] \in Jobs /\ fetched[w] \in Delivered
      BY <1>2, <1>a DEF SpawnFetched, LoopTypeOK, HeldBy
    <2> QED
      BY <1>2, <1>a, <1>b, <2>1, StartFits DEF SpawnFetched
  <1>3. ASSUME NEW w \in Workers, NEW j \in Jobs,
               SpawnReclaimed(w, j) \/ SpawnAbandoned(w, j)
        PROVE  \A r \in Slots : TaskFits(task[r])'
    <2>1. j \in Delivered
      BY <1>3, <1>a DEF SpawnReclaimed, SpawnAbandoned, HeldBy
    <2> QED
      BY <1>3, <1>a, <1>b, <2>1, StartFits DEF SpawnReclaimed, SpawnAbandoned
  <1>4. ASSUME NEW w \in Workers, Sweeping(w)
        PROVE  \A r \in Slots : TaskFits(task[r])'
    BY <1>1, <1>3, <1>4 DEF Sweeping, SweepPending, SweepCheck, SweepClaim
  <1>5. ASSUME NEW s \in Slots, HandlerStep(s)
        PROVE  \A r \in Slots : TaskFits(task[r])'
    BY <1>5, <1>a, <1>b, HandlerFits
  <1>6. ASSUME NEW w, Die(w)
        PROVE  \A r \in Slots : TaskFits(task[r])'
    <2> SUFFICES ASSUME NEW r \in Slots PROVE TaskFits(task[r])'
      OBVIOUS
    <2>1. CASE r[1] = w
      BY <1>6, <2>1, IdleTaskType DEF Die, TaskFits
    <2>2. CASE r[1] # w
      <3>1. task'[r] = task[r]
        BY <1>6, <2>2 DEF Die
      <3> QED
        BY <3>1, <1>a, <1>b, FitsIsKept
    <2> QED
      BY <2>1, <2>2
  <1>7. ASSUME NEW s \in Slots, CommandFails(s)
        PROVE  \A r \in Slots : TaskFits(task[r])'
    <2>a. /\ task[s].pc # "idle" /\ task[s].job \in Jobs
          /\ task[s] \in Tasks /\ task \in [Slots -> Tasks]
      BY <1>7, <1>a, RunningTask DEF CommandFails, At, TaskTypeOK
    <2>b. /\ task[s].job \in Delivered' /\ TaskFits(task[s])
          /\ status[task[s].job] # "none" => status'[task[s].job] # "none"
          /\ dlq[task[s].job] # {} => dlq'[task[s].job] # {}
      BY <2>a, <1>a, <1>b DEF TaskFits, Grows
    <2>c. ASSUME NEW t, task' = [task EXCEPT ![s] = t], TaskFits(t)'
          PROVE  \A r \in Slots : TaskFits(task[r])'
      BY <2>c, <1>a, <1>b, OneTaskMoves
    <2>1. CASE End(s)
      <3>1. TaskFits(IdleTask)'
        BY IdleTaskType DEF TaskFits
      <3> QED
        BY <2>1, <2>c, <3>1 DEF End
    <2>2. ASSUME NEW place \in {"finish", "clear"}, GotoWith(s, place, "infra")
          PROVE  \A r \in Slots : TaskFits(task[r])'
      <3>0. PICK t : t = [task[s] EXCEPT !.pc = place, !.out = "infra"]
        OBVIOUS
      <3>1. t.pc = place /\ t.out = "infra" /\ t.job = task[s].job
        BY <2>a, <3>0 DEF Tasks
      <3>2. TaskFits(t)'
        BY <2>b, <3>1 DEF TaskFits, PastPublish, AcksInsideKeep
      <3> QED
        BY <2>2, <2>c, <3>0, <3>2 DEF GotoWith
    <2>3. CASE task[s].pc = "record" /\ Goto(s, "publish")
      <3>0. PICK t : t = [task[s] EXCEPT !.pc = "publish"]
        OBVIOUS
      <3>1. t.pc = "publish" /\ t.out = task[s].out /\ t.job = task[s].job
        BY <2>a, <3>0 DEF Tasks
      <3>2. TaskFits(t)'
        BY <2>3, <2>b, <3>1 DEF TaskFits, PastPublish, Publishable
      <3> QED
        BY <2>3, <2>c, <3>0, <3>2 DEF Goto
    <2>4. CASE task[s].pc = "notify" /\ (Goto(s, "ack") \/ Goto(s, "clear"))
      <3>0. PICK t : /\ \/ t = [task[s] EXCEPT !.pc = "ack"]
                        \/ t = [task[s] EXCEPT !.pc = "clear"]
                     /\ task' = [task EXCEPT ![s] = t]
        BY <2>4 DEF Goto
      <3>1. t.pc \in {"ack", "clear"} /\ t.out = task[s].out /\ t.job = task[s].job
        BY <2>a, <3>0 DEF Tasks
      <3>2. TaskFits(t)'
        BY <2>4, <2>b, <3>1 DEF TaskFits, PastPublish
      <3> QED
        BY <2>c, <3>0, <3>2
    <2> QED
      BY <1>7, <2>1, <2>2, <2>3, <2>4 DEF CommandFails, At
  <1>8. ASSUME NEW s \in Slots, RefresherDies(s)
        PROVE  \A r \in Slots : TaskFits(task[r])'
    <2>0. PICK t : t = [task[s] EXCEPT !.beating = FALSE]
      OBVIOUS
    <2>1. /\ t.pc = task[s].pc /\ t.out = task[s].out /\ t.job = task[s].job
          /\ task' = [task EXCEPT ![s] = t]
      BY <1>8, <1>a, <2>0 DEF RefresherDies, TaskTypeOK, Tasks
    <2>2. UNCHANGED <<stream, status, dlq>>
      BY <1>8 DEF RefresherDies, redis
    <2>3. TaskFits(t)'
      BY <2>1, <2>2, <1>a
      DEF TaskFits, PastPublish, Publishable, Delivered
    <2> QED
      BY <2>1, <2>3, <1>a, <1>b, OneTaskMoves
  <1>9. CASE Environment
    BY <1>1, <1>6, <1>7, <1>8, <1>9
    DEF Environment, Crash, ParserDies, Restart, Refresh, BeatExpires, Age,
        processes
  <1> QED
    BY <1>1, <1>2, <1>4, <1>5, <1>9
    DEF Next, Publish, Consume, vars, processes


LEMMA HeldNext ==
  ASSUME Inv, [Next]_vars, NEW w \in Workers
  PROVE  HeldBy(w)' \subseteq Delivered'
  <1>a. TypeOK /\ LoopTypeOK /\ HeldBy(w) \subseteq Delivered
    BY DEF Inv, TypeOK
  <1>b. \A j \in Jobs : j \in Delivered => j \in Delivered'
    BY <1>a, StepGrows DEF Grows
  <1>c. HeldBy(w) \subseteq Delivered' /\ HeldBy(w) \subseteq Jobs
    BY <1>a, <1>b DEF Delivered
  <1>1. CASE HeldBy(w)' \subseteq HeldBy(w)
    BY <1>1, <1>c
  <1>2. CASE UNCHANGED <<fetched, sweep>>
    BY <1>1, <1>2 DEF HeldBy
  <1>3. ASSUME NEW v \in Workers, NEW j \in Jobs, Consume(v, j)
        PROVE  HeldBy(w)' \subseteq Delivered'
    <2>1. j \in Delivered'
      BY <1>3 DEF Consume, Delivered, TypeOK, RedisTypeOK, Inv
    <2>2. HeldBy(w)' \subseteq HeldBy(w) \cup {j}
      BY <1>3, <1>a DEF Consume, HeldBy, LoopTypeOK
    <2> QED
      BY <2>1, <2>2, <1>c
  <1>4. ASSUME NEW v \in Workers, SpawnFetched(v)
        PROVE  HeldBy(w)' \subseteq Delivered'
    <2>1. HeldBy(w)' \subseteq HeldBy(w)
      BY <1>4, <1>a DEF SpawnFetched, HeldBy, LoopTypeOK
    <2> QED
      BY <1>1, <2>1
  <1>5. ASSUME NEW v \in Workers, Sweeping(v)
        PROVE  HeldBy(w)' \subseteq Delivered'
    <2>0. CASE v # w
      <3>1. HeldBy(w)' = HeldBy(w)
        BY <1>5, <1>a, <2>0
        DEF Sweeping, SweepPending, SweepCheck, SweepClaim, SpawnReclaimed,
            SpawnAbandoned, HeldBy, LoopTypeOK
      <3> QED
        BY <1>1, <3>1
    <2>1. CASE v = w /\ SweepPending(w)
      <3>1. Pending \subseteq Delivered'
        BY <2>1 DEF SweepPending, redis, Pending, Delivered
      <3>2. HeldBy(w)' \subseteq Pending \cup HeldBy(w)
        BY <2>1, <1>a DEF SweepPending, HeldBy, LoopTypeOK, NoSweep
      <3> QED
        BY <3>1, <3>2, <1>c
    <2>2. CASE v = w /\ SweepClaim(w)
      <3>1. sweep'[w].reclaimed \cup sweep'[w].abandoned \subseteq sweep[w].orphans
        BY <2>2, <1>a DEF SweepClaim, Claimable, LoopTypeOK, NoSweep
      <3>2. HeldBy(w)' \subseteq HeldBy(w)
        BY <2>2, <3>1, <1>a DEF SweepClaim, HeldBy, LoopTypeOK, NoSweep
      <3> QED
        BY <1>1, <3>2
    <2>3. ASSUME v = w, NEW j \in Jobs, SweepCheck(w, j)
          PROVE  HeldBy(w)' \subseteq Delivered'
      <3>1. sweep'[w] = Checked(sweep[w], j) /\ fetched' = fetched
        BY <2>3, <1>a DEF SweepCheck, LoopTypeOK
      <3>2. HeldBy(w)' \subseteq HeldBy(w)
        BY <2>3, <3>1, SweepFields, <1>a DEF SweepCheck, HeldBy, Checked, Sweeps
      <3> QED
        BY <1>1, <3>2
    <2>4. ASSUME v = w, NEW j \in Jobs, SpawnReclaimed(w, j) \/ SpawnAbandoned(w, j)
          PROVE  HeldBy(w)' \subseteq Delivered'
      <3>1. sweep'[w] = Spawned(sweep[w], j) /\ fetched' = fetched
        BY <2>4, <1>a DEF SpawnReclaimed, SpawnAbandoned, LoopTypeOK
      <3>2. HeldBy(w)' \subseteq HeldBy(w)
        BY <3>1, SweepFields, <1>a DEF HeldBy, Spawned, Sweeps
      <3> QED
        BY <1>1, <3>2
    <2> QED
      BY <1>5, <2>0, <2>1, <2>2, <2>3, <2>4 DEF Sweeping
  <1>6. ASSUME NEW v, Die(v)
        PROVE  HeldBy(w)' \subseteq Delivered'
    <2>1. HeldBy(w)' \subseteq HeldBy(w)
      BY <1>6, <1>a DEF Die, HeldBy, LoopTypeOK, NoSweep
    <2> QED
      BY <1>1, <2>1
  <1>7. CASE Environment
    BY <1>2, <1>6, <1>7
    DEF Environment, Crash, ParserDies, Restart, CommandFails, RefresherDies,
        Refresh, BeatExpires, Age, processes
  <1>8. ASSUME NEW s \in Slots, HandlerStep(s)
        PROVE  HeldBy(w)' \subseteq Delivered'
    BY <1>2, <1>8
    DEF HandlerStep, Beat, Check, Load, Begin, Mark, PipelineEnds, Finish,
        DeadLetter, Record, PublishStatus, Settle, ReleaseSlot, Notify, Clear,
        Ack
  <1> QED
    BY <1>2, <1>3, <1>4, <1>5, <1>7, <1>8 DEF Next, Publish, vars, processes

\* An entry is acknowledged only by a handler that has published.
LEMMA AckedNext ==
  ASSUME Inv, [Next]_vars
  PROVE  AckedHasOutcome'
  <1>a. TypeOK /\ TaskTypeOK /\ RedisTypeOK /\ AckedHasOutcome
    BY DEF Inv, TypeOK
  <1>b. Grows
    BY <1>a, StepGrows
  <1> SUFFICES ASSUME NEW j \in Jobs, stream'[j] = "acked"
               PROVE  status'[j] # "none"
    BY DEF AckedHasOutcome
  <1>1. CASE stream[j] = "acked"
    BY <1>1, <1>a, <1>b DEF AckedHasOutcome, Grows
  <1>2. CASE stream[j] # "acked"
    <2>1. PICK s \in Slots : Ack(s)
      BY ZenonT(40), <1>2, <1>a
      DEF Next, vars, redis, Publish, Consume, SpawnFetched, Sweeping, SweepPending,
          SweepCheck, SweepClaim, SpawnReclaimed, SpawnAbandoned, HandlerStep, Beat,
          Check, Load, Begin, Mark, PipelineEnds, Finish, DeadLetter, Record,
          PublishStatus, Settle, ReleaseSlot, Notify, Clear, Environment, Crash,
          ParserDies, Restart, CommandFails, RefresherDies, Refresh, BeatExpires,
          Age, RedisTypeOK
    <2>2. j = task[s].job
      BY <1>2, <2>1, <1>a DEF Ack, RedisTypeOK
    <2>3. status[j] # "none"
      BY <2>1, <2>2 DEF Inv, TaskFits, PastPublish, Ack, At
    <2> QED
      BY <2>3, <1>b DEF Grows
  <1> QED
    BY <1>1, <1>2

\* "manual" is published only after the dead letter.
LEMMA ManualNext ==
  ASSUME Inv, [Next]_vars
  PROVE  ManualHasLetter'
  <1>a. TypeOK /\ TaskTypeOK /\ RedisTypeOK /\ ManualHasLetter
    BY DEF Inv, TypeOK
  <1>b. Grows
    BY <1>a, StepGrows
  <1> SUFFICES ASSUME NEW j \in Jobs, status'[j] = "manual"
               PROVE  dlq'[j] # {}
    BY DEF ManualHasLetter
  <1>1. CASE status[j] = "manual"
    BY <1>1, <1>a, <1>b DEF ManualHasLetter, Grows
  <1>2. CASE status[j] # "manual"
    <2>1. PICK s \in Slots : PublishStatus(s)
      BY <1>2, <1>a
      DEF Next, vars, redis, Publish, Consume, SpawnFetched, Sweeping, SweepPending,
          SweepCheck, SweepClaim, SpawnReclaimed, SpawnAbandoned, HandlerStep, Beat,
          Check, Load, Begin, Mark, PipelineEnds, Finish, DeadLetter, Record,
          Settle, ReleaseSlot, Notify, Clear, Ack, Environment, Crash,
          ParserDies, Restart, CommandFails, RefresherDies, Refresh, BeatExpires,
          Age, RedisTypeOK
    <2>2. j = task[s].job /\ StatusOf(task[s].out) = "manual"
      BY <1>2, <2>1, <1>a DEF PublishStatus, RedisTypeOK
    <2>3. Publishable(task[s])
      BY <2>1 DEF Inv, TaskFits, PublishStatus, At
    <2>4. dlq[j] # {}
      BY <2>2, <2>3 DEF Publishable, StatusOf
    <2> QED
      BY <2>4, <1>b DEF Grows
  <1> QED
    BY <1>1, <1>2

LEMMA InvInit == Init => Inv
  <1> SUFFICES ASSUME Init PROVE Inv
    OBVIOUS
  <1>1. TypeOK
    BY TypeInit
  <1>2. \A w \in Workers : HeldBy(w) \subseteq Delivered
    BY DEF Init, HeldBy, NoSweep
  <1>3. \A s \in Slots : TaskFits(task[s])
    BY IdleTaskType DEF Init, TaskFits
  <1> QED
    BY <1>1, <1>2, <1>3 DEF Inv, Init, AckedHasOutcome, ManualHasLetter

LEMMA InvNext == Inv /\ [Next]_vars => Inv'
  BY TypeNext, HeldNext, TasksFitNext, AckedNext, ManualNext DEF Inv

\* The strengthening of the two properties holds in every reachable state.
THEOREM Invariance == Spec => []Inv
  BY InvInit, InvNext, PTL DEF Spec

\* No job is acknowledged without an outcome a client can read, whatever
\* crashes, fails or lapses.
THEOREM NothingIsLost == Spec => []AckedHasOutcome
  <1>1. Inv => AckedHasOutcome
    BY DEF Inv
  <1> QED
    BY <1>1, Invariance, PTL

\* Whoever reads that a scan waits for a human finds it in the dead-letter stream.
THEOREM ManualIsInTheLetters == Spec => []ManualHasLetter
  <1>1. Inv => ManualHasLetter
    BY DEF Inv
  <1> QED
    BY <1>1, Invariance, PTL

-----------------------------------------------------------------------------
(* Worker implements AtLeastOnce.                                          *)

LEMMA PromiseInit == Init => Promise!Init
  BY DEF Init, Promise!Init, OpenOrClosed

\* XADD accepts, a published status answers, the first XACK closes; every other
\* step leaves entries and statuses as the promise sees them.
LEMMA PromiseStep ==
  ASSUME Inv, [Next]_vars
  PROVE  [Promise!Next]_(Promise!vars)
  <1> DEFINE seen == [j \in Jobs |-> OpenOrClosed(stream[j])]
  <1>a. RedisTypeOK /\ TypeOK
    BY DEF Inv, TypeOK
  <1>1. ASSUME NEW j \in Jobs, Publish(j)
        PROVE  Promise!Next
    <2>1. stream' = [stream EXCEPT ![j] = "new"] /\ stream[j] = "absent"
          /\ status' = status
      BY <1>1 DEF Publish
    <2>2. seen[j] = "absent" /\ seen' = [seen EXCEPT ![j] = "open"]
      BY <2>1, <1>a DEF RedisTypeOK, OpenOrClosed
    <2> QED
      BY <2>1, <2>2 DEF Promise!Next, Promise!Accept
  <1>2. ASSUME NEW w \in Workers, NEW j \in Jobs, Consume(w, j)
        PROVE  UNCHANGED Promise!vars
    <2>1. stream' = [stream EXCEPT ![j] = "pending"] /\ stream[j] = "new"
          /\ status' = status
      BY <1>2 DEF Consume
    <2>2. seen' = seen
      BY <2>1, <1>a DEF RedisTypeOK, OpenOrClosed
    <2> QED
      BY <2>1, <2>2 DEF Promise!vars
  <1>3. ASSUME NEW s \in Slots, PublishStatus(s)
        PROVE  Promise!Next
    <2> DEFINE j == task[s].job
               o == StatusOf(task[s].out)
    <2>1. j \in Jobs /\ o \in Statuses \ {"none"} /\ stream[j] # "absent"
      <3>1. task[s].pc # "idle" /\ task[s].job \in Delivered
        BY <1>3 DEF PublishStatus, At, Inv, TaskFits
      <3> QED
        BY <3>1 DEF Delivered, StatusOf, Statuses
    <2>2. status' = [status EXCEPT ![j] = o] /\ stream' = stream
      BY <1>3 DEF PublishStatus
    <2>3. seen[j] # "absent" /\ seen' = seen
      BY <2>1, <2>2 DEF OpenOrClosed
    <2>4. Promise!Answer(j, o)
      BY <2>2, <2>3 DEF Promise!Answer
    <2> QED
      BY <2>1, <2>4 DEF Promise!Next
  <1>4. ASSUME NEW s \in Slots, Ack(s)
        PROVE  Promise!Next \/ UNCHANGED Promise!vars
    <2> DEFINE j == task[s].job
    <2>1. j \in Jobs /\ stream[j] \in {"pending", "acked"} /\ status[j] # "none"
      <3>1. task[s].pc = "ack" /\ TaskFits(task[s])
        BY <1>4 DEF Ack, At, Inv
      <3> QED
        BY <3>1 DEF TaskFits, PastPublish, Delivered
    <2>2. stream' = [stream EXCEPT ![j] = "acked"] /\ status' = status
      BY <1>4 DEF Ack
    <2>3. CASE stream[j] = "acked"
      <3>1. seen' = seen
        BY <2>1, <2>2, <2>3, <1>a DEF RedisTypeOK, OpenOrClosed
      <3> QED
        BY <2>2, <3>1 DEF Promise!vars
    <2>4. CASE stream[j] = "pending"
      <3>1. seen[j] = "open" /\ seen' = [seen EXCEPT ![j] = "closed"]
        BY <2>1, <2>2, <2>4, <1>a DEF RedisTypeOK, OpenOrClosed
      <3>2. Promise!Close(j)
        BY <2>1, <2>2, <3>1 DEF Promise!Close
      <3> QED
        BY <2>1, <3>2 DEF Promise!Next
    <2> QED
      BY <2>1, <2>3, <2>4
  <1>5. CASE UNCHANGED <<stream, status>>
    BY <1>5 DEF Promise!vars
  <1>6. \/ \E j \in Jobs : Publish(j)
        \/ \E w \in Workers, j \in Jobs : Consume(w, j)
        \/ \E s \in Slots : PublishStatus(s) \/ Ack(s)
        \/ UNCHANGED <<stream, status>>
    BY ZenonT(40) DEF Next, vars, redis, SpawnFetched, Sweeping, SweepPending, SweepCheck,
        SweepClaim, SpawnReclaimed, SpawnAbandoned, HandlerStep, Beat, Check, Load,
        Begin, Mark, PipelineEnds, Finish, DeadLetter, Record, Settle, ReleaseSlot,
        Notify, Clear, Environment, Crash, ParserDies, Restart, CommandFails,
        RefresherDies, Refresh, BeatExpires, Age
  <1> QED
    BY <1>1, <1>2, <1>3, <1>4, <1>5, <1>6

\* The worker service, with its redeliveries, crashes and sweeps, does nothing to
\* a scan that the promise of AtLeastOnce does not allow.
THEOREM PromiseIsKept == Spec => KeepsPromise
  <1>1. Init => Promise!Init
    BY PromiseInit
  <1>2. Inv /\ [Next]_vars => [Promise!Next]_(Promise!vars)
    BY PromiseStep
  <1> QED
    BY <1>1, <1>2, Invariance, PTL DEF Spec, KeepsPromise, Promise!Spec

-----------------------------------------------------------------------------
(* The parts of an outcome come together (OutcomeIsComplete): what is about *)
(* to be published is recorded, what is about to be acknowledged is queued. *)

OutcomeFits(t) ==
    /\ t.pc = "publish" => StatusOf(t.out) \in history[t.job]
    /\ t.pc = "ack" \/ (t.pc = "clear" /\ ~AcksInsideKeep(t.out))
         => t.job \in notified

CompleteInv ==
    faults = 0 => /\ AckedIsNotified /\ VisibleIsRecorded
                  /\ \A s \in Slots : task[s].pc # "idle" => OutcomeFits(task[s])

\* A handler has no outcome before the end of its attempt.
FreshHasNoOutcome ==
    \A s \in Slots :
        task[s].pc \in {"beat", "check", "load", "begin", "fetch", "parse"}
            => task[s].out = "none"

-----------------------------------------------------------------------------
(* Who owns a scan.                                                        *)

\* Inside the `async with` of keep, or in its `finally`.
Guarded(t) == /\ t.pc \notin {"idle", "beat"}
              /\ t.out # "JOB_ABANDONED"
              /\ t.pc = "ack" => AcksInsideKeep(t.out)

\* A handler without a heartbeat: before the first one, or in _abandon.
Bare(t) == t.pc = "beat" \/ (t.pc # "idle" /\ t.out = "JOB_ABANDONED")

\* Every handler but the one that has only to acknowledge a finished scan.
Owns(t) == Guarded(t) \/ Bare(t)

IdleHasNoJob == \A s \in Slots : task[s].pc = "idle" => task[s].job = NoJob

GuardIsSeen ==
    \A s \in Slots : Guarded(task[s]) => task[s].beating /\ task[s].job \in beat

OneOwner ==
    \A r, s \in Slots :
        Owns(task[r]) /\ Owns(task[s]) /\ task[r].job = task[s].job => r = s

\* A scan waits for the semaphore in one place only, and has no handler there.
WaitsAlone ==
    \A j \in Jobs, w \in Workers : Waits(w, j) =>
        /\ \A v \in Workers : Waits(v, j) => v = w
        /\ \A s \in Slots : Owns(task[s]) => task[s].job # j
        /\ fetched[w] = j => j \notin sweep[w].reclaimed \cup sweep[w].abandoned

\* The idle time of XPENDING tells what the heartbeat does not: an entry that is
\* old enough waits nowhere and is not about to get its first heartbeat.
AgedIsTaken ==
    \A j \in aged : /\ j \in Delivered
                    /\ \A w \in Workers : ~Waits(w, j)
                    /\ \A s \in Slots : Bare(task[s]) => task[s].job # j

\* So an orphan of a sweep that is still old enough when it is claimed is dead.
OrphanIsDead ==
    \A w \in Workers : \A j \in sweep[w].orphans \cap aged :
        \A s \in Slots : Owns(task[s]) => task[s].job # j

Alone == /\ IdleHasNoJob /\ GuardIsSeen /\ OneOwner
         /\ WaitsAlone /\ AgedIsTaken /\ OrphanIsDead

-----------------------------------------------------------------------------
(* What the owner of a scan may rely on, because it is the only one.        *)

\* The handlers that would give the scan a new outcome.
Works(t) == \/ t.pc \in {"load", "begin", "fetch", "parse"}
            \/ /\ t.pc \in {"finish", "dlq", "record", "publish"}
               /\ t.out # "JOB_ABANDONED" /\ ~Replays(t.out)

StatusIsFresh ==
    \A s \in Slots :
        /\ Works(task[s]) => status[task[s].job] \notin Terminal
        /\ task[s].pc \in {"record", "publish"} /\ Replays(task[s].out)
             => status[task[s].job] = StatusOf(task[s].out)

\* A mark of a risky stage is the mark of a handler at work or of a dead one.
MarkIsExplained ==
    /\ \A j \in Jobs : journal[j].stage = "risky" =>
          died[j] > 0 \/ \E s \in Slots : AttemptIsOpen(s) /\ task[s].job = j
    /\ \A s \in Slots : task[s].pc # "idle" /\ task[s].out = "PARSER_CRASH"
                          => died[task[s].job] > 0
    /\ \A j \in Jobs : "PARSER_CRASH" \in dlq[j] => died[j] > 0

\* The mark is the one of the handler that parses, and its attempt is counted.
MarkIsCounted ==
    /\ \A j \in Jobs : journal[j].stage = "risky" => journal[j].attempt > 0
    /\ \A s \in Slots :
          /\ task[s].pc \in {"begin", "fetch", "parse"} => task[s].attempt > 0
          /\ task[s].pc = "parse" => journal[task[s].job].stage = "risky"

\* A file that kills its parser has no outcome of its parsing.
PoisonHasNoVerdict ==
    \A s \in Slots : task[s].job \in Poison => task[s].out # "failed"

\* No attempt on the scan is under way or will be made.
Contained(j) ==
    \/ status[j] \in Terminal
    \/ /\ journal[j].stage = "risky"
       /\ \A s \in Slots : task[s].job = j =>
             task[s].pc \notin {"begin", "fetch"} /\ ~AttemptIsOpen(s)
    \/ \E s \in Slots : task[s].job = j /\ task[s].pc \in {"dlq", "record", "publish"}

\* As long as the file may kill again, every process it killed is paid for.
KillsArePaid ==
    \A j \in Poison : OthersAreHarmless(j) =>
        /\ died[j] <= 1 + crashes + faults
        /\ died[j] <= crashes + faults \/ Contained(j)

\* Between the status and the release of the slot there is a handler.
SlotIsFollowed ==
    \A j \in Poison : OthersAreHarmless(j) /\ status[j] # "none" /\ j \in slot =>
        \E s \in Slots : task[s].job = j /\ task[s].pc \in {"settle", "release"}

AbsentHasNothing == \A j \in Jobs : stream[j] = "absent" => status[j] = "none"

CalmInv ==
    Calm => /\ Alone /\ StatusIsFresh /\ MarkIsCounted
            /\ faults = 0 => MarkIsExplained
            /\ MaxCrashes = 1 => KillsArePaid
            /\ crashes = 0 /\ faults = 0 => SlotIsFollowed

WorkerIInv == /\ Inv /\ CompleteInv /\ FreshHasNoOutcome
              /\ AbsentHasNothing /\ PoisonHasNoVerdict /\ CalmInv

-----------------------------------------------------------------------------
(* What an action of a handler does to its record.                         *)

Put(s, place, out) ==
    /\ task'[s].pc = place /\ task'[s].out = out
    /\ task'[s].job = task[s].job
    /\ task'[s].attempt = task[s].attempt
    /\ task'[s].beating = task[s].beating

Ended(s) == task'[s] = IdleTask

Rest(s) == \A r \in Slots \ {s} : task'[r] = task[r]

LEMMA PutFacts ==
  ASSUME TypeOK, NEW s \in Slots
  PROVE  /\ \A place : Goto(s, place) => Put(s, place, task[s].out) /\ Rest(s)
         /\ \A place, out :
               GotoWith(s, place, out) => Put(s, place, out) /\ Rest(s)
         /\ End(s) => Ended(s) /\ Rest(s)
  <1>1. task \in [Slots -> Tasks] /\ task[s] \in Tasks
    BY DEF TypeOK, TaskTypeOK
  <1>2. \A place : Goto(s, place) => Put(s, place, task[s].out) /\ Rest(s)
    BY <1>1 DEF Goto, Put, Rest, Tasks
  <1>3. \A place, out : GotoWith(s, place, out) => Put(s, place, out) /\ Rest(s)
    BY <1>1 DEF GotoWith, Put, Rest, Tasks
  <1>4. End(s) => Ended(s) /\ Rest(s)
    BY <1>1 DEF End, Ended, Rest
  <1> QED
    BY <1>2, <1>3, <1>4

\* The handler, place by place.
LEMMA HandlerPuts ==
  ASSUME TypeOK, NEW s \in Slots
  PROVE  LET j == task[s].job
             o == task[s].out
         IN  /\ HandlerStep(s) \/ CommandFails(s)
                  => Rest(s) /\ task[s].pc # "idle"
             /\ Beat(s) => /\ task'[s].pc = "check" /\ task'[s].out = o
                           /\ task'[s].job = j /\ task'[s].beating
             /\ Check(s) => \/ /\ status[j] \in Terminal
                               /\ Put(s, "publish", ReplayOf(status[j]))
                            \/ status[j] \notin Terminal /\ Put(s, "load", o)
             /\ Load(s) => \/ /\ CrashedOnContent(journal[j])
                              /\ Put(s, "finish", "PARSER_CRASH")
                           \/ /\ ~CrashedOnContent(journal[j])
                              /\ task'[s].pc = "begin" /\ task'[s].out = o
                              /\ task'[s].job = j
                              /\ task'[s].beating = task[s].beating
                              /\ task'[s].attempt = journal[j].attempt + 1
             /\ Begin(s) => Put(s, "fetch", o)
             /\ Mark(s) => Put(s, "parse", o)
             /\ \A out : PipelineEnds(s, out) => Put(s, "finish", out)
             /\ Finish(s) => Put(s, AfterFinish(o), o)
             /\ DeadLetter(s) => Put(s, "record", o)
             /\ Record(s) => Put(s, "publish", o)
             /\ PublishStatus(s) => Put(s, AfterPublish(o), o)
             /\ Settle(s) => Put(s, "release", o)
             /\ ReleaseSlot(s) => Put(s, "notify", o)
             /\ Notify(s) => Put(s, IF AcksInsideKeep(o) THEN "ack" ELSE "clear", o)
             /\ Clear(s) => \/ AcksInsideKeep(o) /\ Ended(s)
                            \/ /\ ~AcksInsideKeep(o)
                               /\ task'[s].pc = "ack" /\ task'[s].out = o
                               /\ task'[s].job = j
             /\ Ack(s) => \/ /\ AcksInsideKeep(o) /\ o # "JOB_ABANDONED"
                             /\ Put(s, "clear", o)
                          \/ /\ ~AcksInsideKeep(o) \/ o = "JOB_ABANDONED"
                             /\ Ended(s)
             /\ CommandFails(s) =>
                   \/ At(s, "record") /\ Put(s, "publish", o)
                   \/ /\ At(s, "notify")
                      /\ Put(s, IF AcksInsideKeep(o) THEN "ack" ELSE "clear", o)
                   \/ (At(s, "fetch") \/ At(s, "parse")) /\ Put(s, "finish", "infra")
                   \/ /\ task[s].pc \notin {"idle", "fetch", "parse", "record", "notify"}
                      /\ \/ InKeep(s) /\ Put(s, "clear", "infra")
                         \/ ~InKeep(s) /\ Ended(s)
  <1> DEFINE j == task[s].job
             o == task[s].out
  <1>a. task \in [Slots -> Tasks] /\ task[s] \in Tasks
    BY DEF TypeOK, TaskTypeOK
  <1>1. Beat(s) => /\ task'[s].pc = "check" /\ task'[s].out = o
                   /\ task'[s].job = j /\ task'[s].beating /\ Rest(s)
    BY <1>a DEF Beat, Rest, Tasks
  <1>2. Load(s) => /\ \/ /\ CrashedOnContent(journal[j])
                         /\ Put(s, "finish", "PARSER_CRASH")
                      \/ /\ ~CrashedOnContent(journal[j])
                         /\ task'[s].pc = "begin" /\ task'[s].out = o
                         /\ task'[s].job = j
                         /\ task'[s].beating = task[s].beating
                         /\ task'[s].attempt = journal[j].attempt + 1
                   /\ Rest(s)
    <2>1. CASE CrashedOnContent(journal[j])
      BY <2>1, PutFacts DEF Load
    <2>2. CASE ~CrashedOnContent(journal[j])
      BY <2>2, <1>a DEF Load, Rest, Tasks
    <2> QED
      BY <2>1, <2>2
  <1>3. Clear(s) => /\ \/ AcksInsideKeep(o) /\ Ended(s)
                       \/ /\ ~AcksInsideKeep(o)
                          /\ task'[s].pc = "ack" /\ task'[s].out = o
                          /\ task'[s].job = j
                    /\ Rest(s)
    <2>1. CASE AcksInsideKeep(o)
      BY <2>1, PutFacts DEF Clear
    <2>2. CASE ~AcksInsideKeep(o)
      BY ZenonT(40), <2>2, <1>a DEF Clear, Rest, Tasks
    <2> QED
      BY <2>1, <2>2
  <1>4. Check(s) => /\ \/ /\ status[j] \in Terminal
                          /\ Put(s, "publish", ReplayOf(status[j]))
                       \/ status[j] \notin Terminal /\ Put(s, "load", o)
                    /\ Rest(s)
    BY PutFacts DEF Check
  <1>5. /\ Begin(s) => Put(s, "fetch", o) /\ Rest(s)
        /\ Mark(s) => Put(s, "parse", o) /\ Rest(s)
        /\ \A out : PipelineEnds(s, out) => Put(s, "finish", out) /\ Rest(s)
        /\ Finish(s) => Put(s, AfterFinish(o), o) /\ Rest(s)
        /\ DeadLetter(s) => Put(s, "record", o) /\ Rest(s)
        /\ Record(s) => Put(s, "publish", o) /\ Rest(s)
        /\ PublishStatus(s) => Put(s, AfterPublish(o), o) /\ Rest(s)
        /\ Settle(s) => Put(s, "release", o) /\ Rest(s)
        /\ ReleaseSlot(s) => Put(s, "notify", o) /\ Rest(s)
    BY PutFacts
    DEF Begin, Mark, PipelineEnds, Finish, DeadLetter, Record, PublishStatus,
        Settle, ReleaseSlot
  <1>6. Notify(s) => /\ Put(s, IF AcksInsideKeep(o) THEN "ack" ELSE "clear", o)
                     /\ Rest(s)
    BY PutFacts DEF Notify
  <1>7. Ack(s) => /\ \/ /\ AcksInsideKeep(o) /\ o # "JOB_ABANDONED"
                        /\ Put(s, "clear", o)
                     \/ /\ ~AcksInsideKeep(o) \/ o = "JOB_ABANDONED"
                        /\ Ended(s)
                  /\ Rest(s)
    BY PutFacts DEF Ack
  <1>8. CommandFails(s) =>
          /\ \/ At(s, "record") /\ Put(s, "publish", o)
             \/ /\ At(s, "notify")
                /\ Put(s, IF AcksInsideKeep(o) THEN "ack" ELSE "clear", o)
             \/ (At(s, "fetch") \/ At(s, "parse")) /\ Put(s, "finish", "infra")
             \/ /\ task[s].pc \notin {"idle", "fetch", "parse", "record", "notify"}
                /\ \/ InKeep(s) /\ Put(s, "clear", "infra")
                   \/ ~InKeep(s) /\ Ended(s)
          /\ Rest(s)
    <2> SUFFICES ASSUME CommandFails(s)
                 PROVE  /\ \/ At(s, "record") /\ Put(s, "publish", o)
                           \/ /\ At(s, "notify")
                              /\ Put(s, IF AcksInsideKeep(o) THEN "ack" ELSE "clear", o)
                           \/ /\ At(s, "fetch") \/ At(s, "parse")
                              /\ Put(s, "finish", "infra")
                           \/ /\ task[s].pc \notin {"idle", "fetch", "parse", "record",
                                                   "notify"}
                              /\ \/ InKeep(s) /\ Put(s, "clear", "infra")
                                 \/ ~InKeep(s) /\ Ended(s)
                        /\ Rest(s)
      OBVIOUS
    <2>1. CASE At(s, "record") /\ Goto(s, "publish")
      BY <2>1, PutFacts
    <2>2. CASE At(s, "notify") /\ Goto(s, IF AcksInsideKeep(o) THEN "ack" ELSE "clear")
      BY <2>2, PutFacts
    <2>3. CASE (At(s, "fetch") \/ At(s, "parse")) /\ GotoWith(s, "finish", "infra")
      BY <2>3, PutFacts
    <2>4. CASE /\ task[s].pc \notin {"idle", "fetch", "parse", "record", "notify"}
               /\ IF InKeep(s) THEN GotoWith(s, "clear", "infra") ELSE End(s)
      BY <2>4, PutFacts
    <2> QED
      BY <2>1, <2>2, <2>3, <2>4 DEF CommandFails
  <1>9. HandlerStep(s) \/ CommandFails(s) => task[s].pc # "idle"
    BY DEF HandlerStep, Beat, Check, Load, Begin, Mark, PipelineEnds, Finish,
           DeadLetter, Record, PublishStatus, Settle, ReleaseSlot, Notify, Clear,
           Ack, CommandFails, At
  <1>10. HandlerStep(s) \/ CommandFails(s) => Rest(s)
    BY <1>1, <1>2, <1>3, <1>4, <1>5, <1>6, <1>7, <1>8 DEF HandlerStep
  <1> QED
    BY <1>1, <1>2, <1>3, <1>4, <1>5, <1>6, <1>7, <1>8, <1>9, <1>10

\* Who else writes the record of a handler: the loops, a death, a lapse.
Started(s, j, place, out) ==
    /\ task[s].pc = "idle" /\ Rest(s)
    /\ task'[s] = NewTask(j, place, out)

LEMMA StartedFacts ==
  ASSUME TypeOK, NEW w \in Workers, NEW j, NEW place, NEW out,
         StartTask(w, j, place, out)
  PROVE  \E s \in Slots : Started(s, j, place, out)
  BY DEF StartTask, FreeSlots, Started, Rest, TypeOK, TaskTypeOK

LEMMA TaskSteps ==
  ASSUME TypeOK, [Next]_vars
  PROVE  \/ \E s \in Slots : HandlerStep(s)
         \/ \E s \in Slots : CommandFails(s)
         \/ /\ UNCHANGED <<journal, status, history, dlq, notified, faults>>
            /\ \/ /\ UNCHANGED <<died, crashes>>
                  /\ \/ UNCHANGED task
                     \/ \E s \in Slots, j \in Jobs :
                           \/ Started(s, j, "beat", "none")
                           \/ Started(s, j, "finish", "JOB_ABANDONED")
                     \/ \E s \in Slots : RefresherDies(s)
               \/ \E w \in Workers :
                     /\ Die(w)
                     /\ Crash(w) \/ \E s \in Slots : s[1] = w /\ ParserDies(s)
  <1> DEFINE Quiet == UNCHANGED <<journal, status, history, dlq, notified, faults>>
             Calmly == UNCHANGED <<died, crashes>>
             Starts == \E s \in Slots, j \in Jobs :
                          \/ Started(s, j, "beat", "none")
                          \/ Started(s, j, "finish", "JOB_ABANDONED")
             Dies == \E w \in Workers :
                        /\ Die(w)
                        /\ Crash(w) \/ \E s \in Slots : s[1] = w /\ ParserDies(s)
  <1>1. CASE UNCHANGED vars
    BY <1>1 DEF vars, redis, processes, budgets
  <1>2. ASSUME NEW j \in Jobs, Publish(j) \/ BeatExpires(j) \/ Age(j)
        PROVE  Quiet /\ Calmly /\ UNCHANGED task
    BY <1>2 DEF Publish, BeatExpires, Age, processes, budgets
  <1>3. ASSUME NEW w \in Workers, NEW j \in Jobs, Consume(w, j)
        PROVE  Quiet /\ Calmly /\ UNCHANGED task
    BY <1>3 DEF Consume, budgets
  <1>4. ASSUME NEW w \in Workers, SpawnFetched(w)
        PROVE  Quiet /\ Calmly /\ Starts
    <2>1. fetched[w] \in Jobs
      BY <1>4 DEF SpawnFetched, TypeOK, LoopTypeOK
    <2>2. Quiet /\ Calmly /\ StartTask(w, fetched[w], "beat", "none")
      BY <1>4 DEF SpawnFetched, redis, budgets
    <2> QED
      BY <2>1, <2>2, StartedFacts
  <1>5. ASSUME NEW w \in Workers, Sweeping(w)
        PROVE  Quiet /\ Calmly /\ (UNCHANGED task \/ Starts)
    <2>1. CASE SweepPending(w) \/ SweepClaim(w) \/ \E j \in Jobs : SweepCheck(w, j)
      BY <2>1 DEF SweepPending, SweepClaim, SweepCheck, redis, budgets
    <2>2. ASSUME NEW j \in Jobs, SpawnReclaimed(w, j)
          PROVE  Quiet /\ Calmly /\ Starts
      BY <2>2, StartedFacts DEF SpawnReclaimed, redis, budgets
    <2>3. ASSUME NEW j \in Jobs, SpawnAbandoned(w, j)
          PROVE  Quiet /\ Calmly /\ Starts
      BY <2>3, StartedFacts DEF SpawnAbandoned, redis, budgets
    <2> QED
      BY <1>5, <2>1, <2>2, <2>3 DEF Sweeping
  <1>6. ASSUME NEW w \in Workers, Crash(w) PROVE Quiet /\ Dies
    BY <1>6 DEF Crash, redis, budgets
  <1>7. ASSUME NEW w \in Workers, Restart(w)
        PROVE  Quiet /\ Calmly /\ UNCHANGED task
    BY <1>7 DEF Restart, redis, budgets
  <1>8. ASSUME NEW s \in Slots, ParserDies(s) PROVE Quiet /\ Dies
    BY <1>8 DEF ParserDies, redis, budgets, Slots
  <1>9. ASSUME NEW s \in Slots, RefresherDies(s) PROVE Quiet /\ Calmly
    BY <1>9 DEF RefresherDies, redis
  <1>10. ASSUME NEW s \in Slots, Refresh(s) PROVE Quiet /\ Calmly /\ UNCHANGED task
    BY <1>10 DEF Refresh, processes, budgets
  <1> HIDE DEF Quiet, Calmly, Starts, Dies
  <1>11. CASE Environment
    BY <1>2, <1>6, <1>7, <1>8, <1>9, <1>10, <1>11
    DEF Environment, Quiet, Calmly, Starts, Dies
  <1> QED
    BY <1>1, <1>2, <1>3, <1>4, <1>5, <1>11 DEF Next, Quiet, Calmly, Starts, Dies

\* What is left of the records when a process dies, and when a refresher does.
LEMMA DieFacts ==
  ASSUME TypeOK, NEW w, Die(w), NEW r \in Slots
  PROVE  task'[r] = IdleTask \/ task'[r] = task[r]
  BY DEF Die

LEMMA LapseFacts ==
  ASSUME TypeOK, NEW s \in Slots, RefresherDies(s)
  PROVE  /\ Rest(s) /\ lapses' # 0
         /\ task'[s].pc = task[s].pc /\ task'[s].out = task[s].out
         /\ task'[s].job = task[s].job /\ task'[s].attempt = task[s].attempt
  BY DEF RefresherDies, Rest, TypeOK, TaskTypeOK, GhostTypeOK, Tasks

LEMMA IdleFacts == /\ IdleTask.pc = "idle" /\ IdleTask.out = "none"
                   /\ IdleTask.job = NoJob
  BY DEF IdleTask, NewTask

LEMMA NewFacts ==
  \A j, place, out : /\ NewTask(j, place, out).pc = place
                     /\ NewTask(j, place, out).out = out
                     /\ NewTask(j, place, out).job = j
  BY DEF NewTask

LEMMA FreshNext ==
  ASSUME TypeOK, FreshHasNoOutcome, [Next]_vars
  PROVE  FreshHasNoOutcome'
  <1> DEFINE Early == {"beat", "check", "load", "begin", "fetch", "parse"}
  <1> SUFFICES ASSUME NEW r \in Slots, task'[r].pc \in Early
               PROVE  task'[r].out = "none"
    BY DEF FreshHasNoOutcome
  <1>0. task[r].pc \in Early => task[r].out = "none"
    BY DEF FreshHasNoOutcome
  <1>1. CASE task'[r] = task[r]
    BY <1>0, <1>1
  <1>2. ASSUME NEW s \in Slots, HandlerStep(s) PROVE task'[r].out = "none"
    <2>1. CASE r # s
      BY <1>1, <1>2, <2>1, HandlerPuts DEF Rest
    <2>2. CASE r = s /\ (Beat(s) \/ Check(s) \/ Load(s) \/ Begin(s) \/ Mark(s))
      BY <1>0, <2>2, HandlerPuts
      DEF Beat, Check, Load, Begin, Mark, At, Put
    <2>3. CASE r = s /\ (\/ \E out \in Outcomes : PipelineEnds(s, out)
                         \/ Finish(s) \/ DeadLetter(s) \/ Record(s)
                         \/ PublishStatus(s) \/ Settle(s) \/ ReleaseSlot(s)
                         \/ Notify(s) \/ Clear(s) \/ Ack(s))
      BY <2>3, HandlerPuts, IdleFacts DEF Put, Ended, AfterFinish, AfterPublish
    <2> QED
      BY <1>2, <2>1, <2>2, <2>3 DEF HandlerStep
  <1>3. ASSUME NEW s \in Slots, CommandFails(s) PROVE task'[r].out = "none"
    <2>1. CASE r # s
      BY <1>1, <1>3, <2>1, HandlerPuts DEF Rest
    <2>2. CASE r = s
      BY <1>3, <2>2, HandlerPuts, IdleFacts DEF Put, Ended
    <2> QED
      BY <2>1, <2>2
  <1>4. ASSUME NEW s \in Slots, NEW j \in Jobs,
               \/ Started(s, j, "beat", "none")
               \/ Started(s, j, "finish", "JOB_ABANDONED")
        PROVE  task'[r].out = "none"
    BY <1>1, <1>4, NewFacts DEF Started, Rest
  <1>5. ASSUME NEW w \in Workers, Die(w) PROVE task'[r].out = "none"
    BY <1>1, <1>5, DieFacts, IdleFacts
  <1>6. ASSUME NEW s \in Slots, RefresherDies(s) PROVE task'[r].out = "none"
    BY <1>0, <1>1, <1>6, LapseFacts DEF Rest
  <1> QED
    BY <1>1, <1>2, <1>3, <1>4, <1>5, <1>6, TaskSteps

LEMMA HandlerKeepsCounts ==
  ASSUME NEW s \in Slots, HandlerStep(s)
  PROVE  UNCHANGED <<died, crashes, faults, lapses, up, fetched, sweep>>
  BY DEF HandlerStep, Beat, Check, Load, Begin, Mark, PipelineEnds, Finish,
         DeadLetter, Record, PublishStatus, Settle, ReleaseSlot, Notify, Clear, Ack,
         budgets

-----------------------------------------------------------------------------
(* The parts of an outcome come together.                                  *)

\* The records that this part is about only grow, but for the status, which is
\* replaced by an outcome that is in the history.
LEMMA CompleteNext ==
  ASSUME Inv, CompleteInv, [Next]_vars
  PROVE  CompleteInv'
  <1> SUFFICES ASSUME faults' = 0 PROVE CompleteInv'
    BY DEF CompleteInv
  <1>a. TypeOK /\ TypeOK'
    BY TypeNext DEF Inv
  <1>b. faults = 0 /\ ~\E s \in Slots : CommandFails(s)
    <2>1. \A s \in Slots : CommandFails(s) => faults' # 0
      BY <1>a DEF CommandFails, TypeOK, GhostTypeOK
    <2>2. \A s \in Slots : HandlerStep(s) => faults' = faults
      BY HandlerKeepsCounts
    <2> QED
      BY <1>a, <2>1, <2>2, TaskSteps
  <1>c. /\ AckedIsNotified /\ VisibleIsRecorded
        /\ \A s \in Slots : task[s].pc # "idle" => OutcomeFits(task[s])
    BY <1>b DEF CompleteInv
  <1>d. /\ \A j \in Jobs : history[j] \subseteq history'[j]
        /\ notified \subseteq notified'
    <2>1. ASSUME NEW s \in Slots, Record(s) PROVE <1>d!1 /\ <1>d!2
      BY <1>a, <2>1 DEF Record, TypeOK, RedisTypeOK
    <2>2. ASSUME NEW s \in Slots, HandlerStep(s), ~Record(s) PROVE <1>d!1 /\ <1>d!2
      BY <2>2
      DEF HandlerStep, Beat, Check, Load, Begin, Mark, PipelineEnds, Finish,
          DeadLetter, PublishStatus, Settle, ReleaseSlot, Notify, Clear, Ack, redis
    <2> QED
      BY <1>a, <1>b, <2>1, <2>2, TaskSteps
  <1>1. AckedIsNotified'
    <2>1. \A j \in Jobs : stream'[j] = "acked" =>
             stream[j] = "acked" \/ \E s \in Slots : Ack(s) /\ task[s].job = j
      <3>1. ASSUME NEW s \in Slots, Ack(s)
            PROVE  \A j \in Jobs : stream'[j] = "acked"
                                     => stream[j] = "acked" \/ task[s].job = j
        BY <1>a, <3>1 DEF Ack, TypeOK, RedisTypeOK
      <3>2. ASSUME NEW j \in Jobs, Publish(j)
            PROVE  \A i \in Jobs : stream'[i] = "acked" => stream[i] = "acked"
        BY <1>a, <3>2 DEF Publish, TypeOK, RedisTypeOK
      <3>3. ASSUME NEW w \in Workers, NEW j \in Jobs, Consume(w, j)
            PROVE  \A i \in Jobs : stream'[i] = "acked" => stream[i] = "acked"
        BY <1>a, <3>3 DEF Consume, TypeOK, RedisTypeOK
      <3>4. \/ \E s \in Slots : Ack(s)
            \/ \E j \in Jobs : Publish(j)
            \/ \E w \in Workers, j \in Jobs : Consume(w, j)
            \/ stream' = stream
        BY DEF Next, vars, redis, SpawnFetched, Sweeping, SweepPending, SweepCheck,
            SweepClaim, SpawnReclaimed, SpawnAbandoned, HandlerStep, Beat, Check,
            Load, Begin, Mark, PipelineEnds, Finish, DeadLetter, Record,
            PublishStatus, Settle, ReleaseSlot, Notify, Clear, Environment, Crash,
            ParserDies, Restart, CommandFails, RefresherDies, Refresh, BeatExpires,
            Age
      <3> QED
        BY <3>1, <3>2, <3>3, <3>4
    <2>2. \A s \in Slots : Ack(s) => task[s].job \in notified
      BY <1>c DEF Ack, At, OutcomeFits
    <2> QED
      BY <1>c, <1>d, <2>1, <2>2 DEF AckedIsNotified
  <1>2. VisibleIsRecorded'
    <2>1. ASSUME NEW s \in Slots, PublishStatus(s) PROVE VisibleIsRecorded'
      <3>1. /\ history' = history
            /\ status' = [status EXCEPT ![task[s].job] = StatusOf(task[s].out)]
            /\ StatusOf(task[s].out) \in history[task[s].job]
        BY <1>c, <2>1 DEF PublishStatus, At, OutcomeFits
      <3> QED
        BY <1>a, <1>c, <3>1 DEF VisibleIsRecorded, TypeOK, RedisTypeOK
    <2>2. CASE status' = status
      BY <1>c, <1>d, <2>2 DEF VisibleIsRecorded
    <2>3. status' = status \/ \E s \in Slots : PublishStatus(s)
      BY <1>a, <1>b, TaskSteps
      DEF HandlerStep, Beat, Check, Load, Begin, Mark, PipelineEnds, Finish,
          DeadLetter, Record, Settle, ReleaseSlot, Notify, Clear, Ack, redis
    <2> QED
      BY <2>1, <2>2, <2>3
  <1>3. ASSUME NEW r \in Slots, task'[r].pc # "idle" PROVE OutcomeFits(task[r])'
    <2>0. task[r].pc # "idle" => OutcomeFits(task[r])
      BY <1>c
    <2>1. ASSUME task'[r].pc = task[r].pc, task'[r].out = task[r].out,
                 task'[r].job = task[r].job
          PROVE  OutcomeFits(task[r])'
      <3>1. task[r].job \in Jobs
        BY <1>a, <1>3, <2>1 DEF TypeOK, TaskTypeOK
      <3> QED
        BY <1>3, <1>d, <2>0, <2>1, <3>1 DEF OutcomeFits
    <2>2. ASSUME NEW s \in Slots, HandlerStep(s) PROVE OutcomeFits(task[r])'
      <3>a. r = s \/ task'[r] = task[r]
        BY <1>a, <2>2, HandlerPuts DEF Rest
      <3>b. CASE task'[r] = task[r]
        BY <2>1, <3>b
      <3> DEFINE j == task[r].job
                 o == task[r].out
      <3>c. r = s => j \in Jobs /\ o \in Outcomes
        BY <1>a, <2>2, HandlerPuts, RunningTask DEF TypeOK
      <3>1. CASE r = s /\ (Beat(s) \/ Load(s) \/ Begin(s) \/ Mark(s) \/ DeadLetter(s)
                            \/ PublishStatus(s) \/ Settle(s) \/ ReleaseSlot(s)
                            \/ \E out \in Outcomes : PipelineEnds(s, out))
        <4>1. task'[r].pc \notin {"publish", "ack", "clear"}
          BY <1>a, <3>1, HandlerPuts DEF Put, AfterPublish
        <4> QED
          BY <4>1 DEF OutcomeFits
      <3>2. CASE r = s /\ Check(s)
        <4>1. CASE status[j] \in Terminal
          <5>1. Put(s, "publish", ReplayOf(status[j]))
            BY <1>a, <3>2, <4>1, HandlerPuts DEF Put
          <5>2. StatusOf(ReplayOf(status[j])) = status[j] /\ status[j] # "none"
            BY <4>1 DEF StatusOf, ReplayOf, Terminal, Reasons
          <5>3. status[j] \in history'[j]
            BY <1>c, <1>d, <3>2, <3>c, <5>2 DEF VisibleIsRecorded
          <5> QED
            BY <3>2, <5>1, <5>2, <5>3 DEF Put, OutcomeFits
        <4>2. CASE status[j] \notin Terminal
          BY <1>a, <3>2, <4>2, HandlerPuts DEF Put, OutcomeFits
        <4> QED
          BY <4>1, <4>2
      <3>3. CASE r = s /\ Finish(s)
        <4>1. task'[r].pc \in {"dlq", "clear", "record"} /\ task'[r].out = o
              /\ (task'[r].pc = "clear" => o = "infra")
          BY <1>a, <3>3, HandlerPuts DEF Put, AfterFinish
        <4> QED
          BY <4>1 DEF OutcomeFits, AcksInsideKeep
      <3>4. CASE r = s /\ Record(s)
        <4>1. Put(s, "publish", o) /\ StatusOf(o) \in history'[j]
          BY <1>a, <3>4, <3>c, HandlerPuts DEF Record, TypeOK, RedisTypeOK
        <4> QED
          BY <3>4, <4>1 DEF Put, OutcomeFits
      <3>5. CASE r = s /\ Notify(s)
        BY <1>a, <3>5, HandlerPuts DEF Notify, Put, OutcomeFits
      <3>6. CASE r = s /\ Clear(s)
        <4>1. /\ At(s, "clear") /\ ~AcksInsideKeep(o)
              /\ task'[r].pc = "ack" /\ task'[r].job = j
          BY <1>a, <1>3, <3>6, HandlerPuts, IdleFacts DEF Clear, Ended
        <4>2. j \in notified
          BY <2>0, <3>6, <4>1 DEF At, OutcomeFits
        <4> QED
          BY <1>d, <4>1, <4>2 DEF OutcomeFits
      <3>7. CASE r = s /\ Ack(s)
        <4>1. AcksInsideKeep(o) /\ Put(s, "clear", o)
          BY <1>a, <1>3, <3>7, HandlerPuts, IdleFacts DEF Ended
        <4> QED
          BY <3>7, <4>1 DEF Put, OutcomeFits
      <3> QED
        BY <2>2, <3>a, <3>b, <3>1, <3>2, <3>3, <3>4, <3>5, <3>6, <3>7
        DEF HandlerStep
    <2>3. ASSUME NEW s \in Slots, NEW j \in Jobs,
                 \/ Started(s, j, "beat", "none")
                 \/ Started(s, j, "finish", "JOB_ABANDONED")
          PROVE  OutcomeFits(task[r])'
      <3>1. CASE r = s
        <4>1. task'[r].pc \in {"beat", "finish"}
          BY <2>3, <3>1, NewFacts DEF Started
        <4> QED
          BY <4>1 DEF OutcomeFits
      <3> QED
        BY <2>1, <2>3, <3>1 DEF Started, Rest
    <2>4. ASSUME NEW w \in Workers, Die(w) PROVE OutcomeFits(task[r])'
      BY <1>3, <1>a, <2>1, <2>4, DieFacts, IdleFacts
    <2>5. ASSUME NEW s \in Slots, RefresherDies(s) PROVE OutcomeFits(task[r])'
      BY <1>a, <2>1, <2>5, LapseFacts DEF Rest
    <2> QED
      BY <1>a, <1>b, <2>1, <2>2, <2>3, <2>4, <2>5, TaskSteps
  <1> QED
    BY <1>1, <1>2, <1>3 DEF CompleteInv

-----------------------------------------------------------------------------
(* Nobody but the owner of a scan touches it.                              *)

LEMMA OwnsFacts ==
  /\ ~Owns(IdleTask) /\ ~Bare(IdleTask) /\ ~Guarded(IdleTask)
  /\ \A j : /\ Bare(NewTask(j, "beat", "none"))
            /\ Bare(NewTask(j, "finish", "JOB_ABANDONED"))
            /\ ~Guarded(NewTask(j, "beat", "none"))
            /\ ~Guarded(NewTask(j, "finish", "JOB_ABANDONED"))
  BY IdleFacts, NewFacts DEF Owns, Bare, Guarded

\* A handler that moves owns no more than before, and stays with its scan.
LEMMA HandlerOwns ==
  ASSUME TypeOK, FreshHasNoOutcome, NEW s \in Slots,
         HandlerStep(s) \/ CommandFails(s)
  PROVE  /\ Owns(task'[s]) => Owns(task[s]) /\ task'[s].job = task[s].job
         /\ Bare(task'[s]) => Bare(task[s])
         /\ Guarded(task'[s]) => \/ Beat(s)
                                 \/ /\ Guarded(task[s])
                                    /\ task'[s].beating = task[s].beating
         /\ task'[s].pc = "idle" => task'[s].job = NoJob
  <1> USE DEF Owns, Guarded, Bare
  <1> DEFINE Goal == /\ Owns(task'[s]) => Owns(task[s]) /\ task'[s].job = task[s].job
                     /\ Bare(task'[s]) => Bare(task[s])
                     /\ Guarded(task'[s]) =>
                           \/ Beat(s)
                           \/ /\ Guarded(task[s])
                              /\ task'[s].beating = task[s].beating
                     /\ task'[s].pc = "idle" => task'[s].job = NoJob
  <1>a. task[s].pc \in {"check", "load", "begin", "fetch", "parse"}
          => task[s].out = "none"
    BY DEF FreshHasNoOutcome
  <1>b. CASE Ended(s)
    BY <1>b, OwnsFacts, IdleFacts DEF Ended
  <1>1. CASE Beat(s)
    <2>1. /\ task'[s].pc = "check" /\ task'[s].out = task[s].out
          /\ task'[s].job = task[s].job /\ task[s].pc = "beat"
      BY <1>1, HandlerPuts DEF Beat, At
    <2> QED
      BY <1>1, <2>1
  <1>2. ASSUME NEW place \in {"publish", "load", "finish", "fetch", "parse"},
               NEW out \in Outcomes \ {"JOB_ABANDONED"}, Put(s, place, out),
               task[s].pc \in {"check", "load", "begin", "fetch", "parse"}
        PROVE  Goal
    BY <1>a, <1>2 DEF Put
  <1>3. CASE Check(s)
    <2>1. /\ {"replay done", "replay manual", "none"} \subseteq Outcomes \ {"JOB_ABANDONED"}
          /\ \A st : ReplayOf(st) \in {"replay done", "replay manual"}
      BY DEF Outcomes, ReplayOf
    <2>2. task[s].pc = "check" /\ task[s].out = "none"
      BY <1>a, <1>3 DEF Check, At
    <2>3. \/ Put(s, "publish", ReplayOf(status[task[s].job]))
          \/ Put(s, "load", "none")
      BY <1>3, <2>2, HandlerPuts
    <2> QED
      BY <1>2, <2>1, <2>2, <2>3
  <1>4. CASE Load(s)
    <2>1. task[s].pc = "load" /\ task[s].out = "none"
      BY <1>a, <1>4 DEF Load, At
    <2>2. CASE Put(s, "finish", "PARSER_CRASH")
      <3>1. "PARSER_CRASH" \in Outcomes \ {"JOB_ABANDONED"}
        BY DEF Outcomes, Reasons
      <3> QED
        BY <1>2, <2>1, <2>2, <3>1
    <2>3. CASE /\ task'[s].pc = "begin" /\ task'[s].out = task[s].out
               /\ task'[s].job = task[s].job
               /\ task'[s].beating = task[s].beating
      BY <2>1, <2>3
    <2> QED
      BY <1>4, <2>2, <2>3, HandlerPuts
  <1>5. CASE Begin(s) \/ Mark(s)
    <2>1. /\ task[s].pc \in {"begin", "fetch", "parse"}
          /\ task[s].out = "none" /\ "none" \in Outcomes \ {"JOB_ABANDONED"}
      BY <1>a, <1>5 DEF Begin, Mark, At, Outcomes
    <2>2. Put(s, "fetch", "none") \/ Put(s, "parse", "none")
      BY <1>5, <2>1, HandlerPuts
    <2> QED
      BY <1>2, <2>1, <2>2
  <1>6. ASSUME NEW out \in Outcomes, PipelineEnds(s, out) PROVE Goal
    <2>1. /\ task[s].pc \in {"fetch", "parse"} /\ out \in Outcomes \ {"JOB_ABANDONED"}
          /\ Put(s, "finish", out)
      BY <1>6, HandlerPuts DEF PipelineEnds, At
    <2> QED
      BY <1>2, <2>1
  <1>7. ASSUME NEW place \in Places, Put(s, place, task[s].out),
               place \notin {"idle", "beat"}, task[s].pc \notin {"idle", "beat"},
               place = "ack" => AcksInsideKeep(task[s].out),
               task[s].pc = "ack" => AcksInsideKeep(task[s].out)
        PROVE  Goal
    BY <1>7 DEF Put
  <1>8. CASE \/ Finish(s) \/ DeadLetter(s) \/ Record(s) \/ PublishStatus(s)
             \/ Settle(s) \/ ReleaseSlot(s) \/ Notify(s)
    <2>1. \E place \in Places :
             /\ Put(s, place, task[s].out) /\ place \notin {"idle", "beat"}
             /\ place = "ack" => AcksInsideKeep(task[s].out)
      BY <1>8, HandlerPuts DEF AfterFinish, AfterPublish, Places
    <2>2. task[s].pc \notin {"idle", "beat", "ack"}
      BY <1>8
      DEF Finish, DeadLetter, Record, PublishStatus, Settle, ReleaseSlot, Notify, At
    <2> QED
      BY <1>7, <2>1, <2>2
  <1>9. CASE Clear(s)
    <2>1. CASE /\ ~AcksInsideKeep(task[s].out)
               /\ task'[s].pc = "ack" /\ task'[s].out = task[s].out
      BY <2>1 DEF AcksInsideKeep
    <2> QED
      BY <1>9, <1>b, <2>1, HandlerPuts
  <1>10. CASE Ack(s)
    <2>1. CASE AcksInsideKeep(task[s].out) /\ Put(s, "clear", task[s].out)
      <3>1. "clear" \in Places /\ task[s].pc = "ack"
        BY <1>10 DEF Places, Ack, At
      <3> QED
        BY <1>7, <2>1, <3>1
    <2> QED
      BY <1>10, <1>b, <2>1, HandlerPuts
  <1>11. CASE CommandFails(s)
    <2>1. CASE At(s, "record") /\ Put(s, "publish", task[s].out)
      BY <1>7, <2>1 DEF At, Places
    <2>2. CASE /\ At(s, "notify")
               /\ Put(s, IF AcksInsideKeep(task[s].out) THEN "ack" ELSE "clear",
                      task[s].out)
      BY <1>7, <2>2 DEF At, Places
    <2>3. CASE (At(s, "fetch") \/ At(s, "parse")) /\ Put(s, "finish", "infra")
      <3>1. "infra" \in Outcomes \ {"JOB_ABANDONED"}
        BY DEF Outcomes
      <3> QED
        BY <1>2, <2>3, <3>1 DEF At
    <2>4. CASE InKeep(s) /\ Put(s, "clear", "infra")
      BY <2>4 DEF InKeep, At, Put
    <2> QED
      BY <1>11, <1>b, <2>1, <2>2, <2>3, <2>4, HandlerPuts
  <1> QED
    BY <1>1, <1>3, <1>4, <1>5, <1>6, <1>8, <1>9, <1>10, <1>11 DEF HandlerStep


LEMMA IdleNext ==
  ASSUME TypeOK, FreshHasNoOutcome, IdleHasNoJob, [Next]_vars
  PROVE  IdleHasNoJob'
  <1> SUFFICES ASSUME NEW r \in Slots, task'[r].pc = "idle"
               PROVE  task'[r].job = NoJob
    BY DEF IdleHasNoJob
  <1>1. CASE task'[r] = task[r]
    BY <1>1 DEF IdleHasNoJob
  <1>2. ASSUME NEW s \in Slots, HandlerStep(s) \/ CommandFails(s)
        PROVE  task'[r].job = NoJob
    BY <1>1, <1>2, HandlerPuts, HandlerOwns DEF Rest
  <1>3. ASSUME NEW s \in Slots, NEW j \in Jobs,
               \/ Started(s, j, "beat", "none")
               \/ Started(s, j, "finish", "JOB_ABANDONED")
        PROVE  task'[r].job = NoJob
    BY <1>1, <1>3, NewFacts DEF Started, Rest
  <1>4. ASSUME NEW w \in Workers, Die(w) PROVE task'[r].job = NoJob
    BY <1>1, <1>4, DieFacts, IdleFacts
  <1>5. ASSUME NEW s \in Slots, RefresherDies(s) PROVE task'[r].job = NoJob
    BY <1>1, <1>5, LapseFacts DEF Rest, IdleHasNoJob
  <1> QED
    BY <1>1, <1>2, <1>3, <1>4, <1>5, TaskSteps

LEMMA BeatSteps ==
  ASSUME TypeOK, [Next]_vars
  PROVE  \/ beat \subseteq beat'
         \/ \E s \in Slots : Clear(s) /\ beat' = beat \ {task[s].job}
         \/ \E j \in Jobs : BeatExpires(j)
  <1>1. ASSUME NEW s \in Slots, HandlerStep(s)
        PROVE  beat \subseteq beat' \/ Clear(s)
    BY <1>1
    DEF HandlerStep, Beat, Check, Load, Begin, Mark, PipelineEnds, Finish,
        DeadLetter, Record, PublishStatus, Settle, ReleaseSlot, Notify, Ack, redis
  <1>2. ASSUME NEW s \in Slots, Clear(s) PROVE beat' = beat \ {task[s].job}
    BY <1>2 DEF Clear
  <1>3. CASE Environment
    BY <1>3
    DEF Environment, Crash, Restart, CommandFails, ParserDies, RefresherDies,
        Refresh, Age, redis
  <1>4. ASSUME NEW w \in Workers, SpawnFetched(w) \/ Sweeping(w) PROVE beat' = beat
    BY <1>4
    DEF SpawnFetched, Sweeping, SweepPending, SweepCheck, SweepClaim,
        SpawnReclaimed, SpawnAbandoned, redis
  <1>5. ASSUME NEW j \in Jobs, \/ Publish(j)
                               \/ \E w \in Workers : Consume(w, j)
        PROVE  beat' = beat
    BY <1>5 DEF Publish, Consume
  <1> QED
    BY <1>1, <1>2, <1>3, <1>4, <1>5 DEF Next, vars, redis

\* A refresher that runs keeps the key from expiring, and nobody else deletes it.
LEMMA GuardNext ==
  ASSUME TypeOK, FreshHasNoOutcome, GuardIsSeen, OneOwner, [Next]_vars,
         lapses' = 0
  PROVE  GuardIsSeen'
  <1> SUFFICES ASSUME NEW r \in Slots, Guarded(task'[r])
               PROVE  task'[r].beating /\ task'[r].job \in beat'
    BY DEF GuardIsSeen
  <1>1. ASSUME task'[r] = task[r]
        PROVE  task'[r].beating /\ task'[r].job \in beat'
    <2>1. task[r].beating /\ task[r].job \in beat
      BY <1>1 DEF GuardIsSeen
    <2>2. ASSUME NEW s \in Slots, Clear(s), beat' = beat \ {task[s].job}
          PROVE  task[r].job \in beat'
      <3>1. task'[s] # task[s]
        BY <2>2, HandlerPuts, IdleFacts DEF Clear, At, Ended
      <3>2. Owns(task[s]) /\ Owns(task[r])
        BY <1>1, <2>2 DEF Clear, At, Owns, Guarded, Bare
      <3>3. task[s].job # task[r].job
        BY <1>1, <3>1, <3>2 DEF OneOwner
      <3> QED
        BY <2>1, <2>2, <3>3
    <2>3. ASSUME NEW j \in Jobs, BeatExpires(j) PROVE task[r].job \in beat'
      BY <2>1, <2>3 DEF BeatExpires
    <2> QED
      BY <1>1, <2>1, <2>2, <2>3, BeatSteps
  <1>2. ASSUME NEW s \in Slots, HandlerStep(s) \/ CommandFails(s), r = s
        PROVE  task'[r].beating /\ task'[r].job \in beat'
    <2>1. CASE Beat(s)
      <3>1. task'[s].job = task[s].job /\ task'[s].beating
        BY <2>1, HandlerPuts
      <3>2. task[s].job \in beat'
        BY <2>1 DEF Beat
      <3> QED
        BY <1>2, <3>1, <3>2
    <2>2. CASE ~Beat(s)
      <3>1. /\ Guarded(task[s]) /\ task'[s].beating = task[s].beating
            /\ task'[s].job = task[s].job
        BY <1>2, <2>2, HandlerOwns DEF Owns
      <3>2. task[s].beating /\ task[s].job \in beat
        BY <3>1 DEF GuardIsSeen
      <3>3. ~Clear(s)
        BY <1>2, HandlerPuts, OwnsFacts DEF Ended, Guarded
      <3>4. beat \subseteq beat'
        BY <1>2, <3>3
        DEF HandlerStep, Beat, Check, Load, Begin, Mark, PipelineEnds, Finish,
            DeadLetter, Record, PublishStatus, Settle, ReleaseSlot, Notify, Ack,
            CommandFails, redis
      <3> QED
        BY <1>2, <3>1, <3>2, <3>4
    <2> QED
      BY <2>1, <2>2
  <1>3. ASSUME NEW s \in Slots, NEW j \in Jobs,
               \/ Started(s, j, "beat", "none")
               \/ Started(s, j, "finish", "JOB_ABANDONED")
        PROVE  task'[r] = task[r]
    BY <1>3, OwnsFacts DEF Started, Rest
  <1>4. ASSUME NEW w \in Workers, Die(w) PROVE task'[r] = task[r]
    BY <1>4, DieFacts, OwnsFacts
  <1>5. ASSUME NEW s \in Slots, RefresherDies(s) PROVE FALSE
    BY <1>5, LapseFacts
  <1>6. ASSUME NEW s \in Slots, HandlerStep(s) \/ CommandFails(s), r # s
        PROVE  task'[r] = task[r]
    BY <1>6, HandlerPuts DEF Rest
  <1> QED
    BY <1>1, <1>2, <1>3, <1>4, <1>5, <1>6, TaskSteps

\* A step after which nobody owns or waits for more than before.
LEMMA NoNewOwner ==
  ASSUME TypeOK, OneOwner, WaitsAlone, AgedIsTaken, OrphanIsDead,
         \A r \in Slots : /\ Owns(task'[r]) => /\ Owns(task[r])
                                               /\ task'[r].job = task[r].job
                          /\ Bare(task'[r]) => Bare(task[r]),
         \A w \in Workers : \/ /\ fetched'[w] = fetched[w]
                               /\ sweep'[w].reclaimed = sweep[w].reclaimed
                               /\ sweep'[w].abandoned = sweep[w].abandoned
                            \/ \A j \in Jobs : ~Waits(w, j)',
         \A w \in Workers : sweep'[w].orphans \subseteq sweep[w].orphans,
         aged' \subseteq aged, Delivered \subseteq Delivered'
  PROVE  OneOwner' /\ WaitsAlone' /\ AgedIsTaken' /\ OrphanIsDead'
  <1>1. OneOwner'
    BY DEF OneOwner
  <1>2. \A w \in Workers, j \in Jobs : Waits(w, j)' => Waits(w, j)
    BY DEF Waits
  <1>3. WaitsAlone'
    <2> SUFFICES ASSUME NEW j \in Jobs, NEW w \in Workers, Waits(w, j)'
                 PROVE  /\ \A v \in Workers : Waits(v, j)' => v = w
                        /\ \A s \in Slots : Owns(task'[s]) => task'[s].job # j
                        /\ fetched'[w] = j
                             => j \notin sweep'[w].reclaimed \cup sweep'[w].abandoned
      BY DEF WaitsAlone
    <2>1. Waits(w, j)
      BY <1>2
    <2> QED
      BY <1>2, <2>1 DEF WaitsAlone
  <1>4. aged \subseteq Jobs
    BY DEF TypeOK, RedisTypeOK
  <1>5. AgedIsTaken'
    BY <1>2, <1>4 DEF AgedIsTaken, Owns
  <1>6. OrphanIsDead'
    BY DEF OrphanIsDead
  <1> QED
    BY <1>1, <1>3, <1>5, <1>6

\* A scan that waited gets its handler.
LEMMA WaitsStart ==
  ASSUME TypeOK, OneOwner, WaitsAlone, AgedIsTaken, OrphanIsDead,
         NEW w \in Workers, NEW j \in Jobs, Waits(w, j), ~Waits(w, j)',
         NEW s \in Slots, \/ Started(s, j, "beat", "none")
                          \/ Started(s, j, "finish", "JOB_ABANDONED"),
         \A v \in Workers, i \in Jobs : Waits(v, i)' => Waits(v, i),
         \A v \in Workers : /\ fetched'[v] \in {fetched[v], NoJob}
                            /\ sweep'[v].reclaimed \subseteq sweep[v].reclaimed
                            /\ sweep'[v].abandoned \subseteq sweep[v].abandoned
                            /\ sweep'[v].orphans = sweep[v].orphans,
         UNCHANGED <<aged, stream>>
  PROVE  OneOwner' /\ WaitsAlone' /\ AgedIsTaken' /\ OrphanIsDead'
  <1>a. /\ task'[s].job = j /\ Rest(s)
        /\ \A r \in Slots \ {s} : task'[r] = task[r]
    BY NewFacts DEF Started, Rest
  <1>b. aged \subseteq Jobs /\ j \notin aged
    BY DEF TypeOK, RedisTypeOK, AgedIsTaken
  <1>c. \A r \in Slots : Owns(task[r]) => task[r].job # j
    BY DEF WaitsAlone
  <1>1. OneOwner'
    BY <1>a, <1>c DEF OneOwner
  <1>2. \A v \in Workers : ~Waits(v, j)'
    BY DEF WaitsAlone
  <1>3. WaitsAlone'
    <2> SUFFICES ASSUME NEW i \in Jobs, NEW v \in Workers, Waits(v, i)'
                 PROVE  /\ \A u \in Workers : Waits(u, i)' => u = v
                        /\ \A r \in Slots : Owns(task'[r]) => task'[r].job # i
                        /\ fetched'[v] = i
                             => i \notin sweep'[v].reclaimed \cup sweep'[v].abandoned
      BY DEF WaitsAlone
    <2>1. Waits(v, i) /\ i # j
      BY <1>2
    <2>2. /\ \A u \in Workers : Waits(u, i)' => u = v
          /\ \A r \in Slots : Owns(task[r]) => task[r].job # i
          /\ fetched[v] = i => i \notin sweep[v].reclaimed \cup sweep[v].abandoned
      BY <2>1 DEF WaitsAlone
    <2>3. \A r \in Slots : Owns(task'[r]) => task'[r].job # i
      BY <1>a, <2>1, <2>2
    <2>4. fetched'[v] = i => i \notin sweep'[v].reclaimed \cup sweep'[v].abandoned
      BY <2>2, NoJobAssumption
    <2> QED
      BY <2>2, <2>3, <2>4
  <1>4. AgedIsTaken'
    BY <1>a, <1>b DEF AgedIsTaken, Delivered
  <1>5. OrphanIsDead'
    BY <1>a, <1>b DEF OrphanIsDead
  <1> QED
    BY <1>1, <1>3, <1>4, <1>5

\* Where no scan can crowd out another, a scan that waits finds a free handler,
\* or one that is about to be free.
LEMMA NobodyIsCrowdedOut ==
  ASSUME TypeOK, OneOwner, Calm, NEW w \in Workers, NEW j \in Jobs,
         \A s \in Slots : Owns(task[s]) => task[s].job # j
  PROVE  \E s \in Slots : s[1] = w /\ task[s].pc \in {"idle", "ack"}
  <1> SUFFICES ASSUME \A s \in Slots : s[1] = w => task[s].pc \notin {"idle", "ack"}
               PROVE  FALSE
    OBVIOUS
  <1> DEFINE f == [c \in 1 .. Concurrency |-> task[<<w, c>>].job]
  <1>1. /\ IsFiniteSet(1 .. Concurrency) /\ Cardinality(1 .. Concurrency) = Concurrency
        /\ Concurrency \in Nat \ {0}
    BY FS_Interval, ConcurrencyAssumption
  <1>2. /\ IsFiniteSet(Jobs \ {j}) /\ Cardinality(Jobs \ {j}) = Cardinality(Jobs) - 1
        /\ Cardinality(Jobs) \in Nat
    BY FS_RemoveElement, FS_CardinalityType DEF Calm
  <1>3. Cardinality(Jobs \ {j}) < Cardinality(1 .. Concurrency)
    BY <1>1, <1>2 DEF Calm
  <1>4. \A c \in 1 .. Concurrency :
           /\ <<w, c>> \in Slots /\ Owns(task[<<w, c>>])
           /\ task[<<w, c>>].job \in Jobs \ {j}
    <2> TAKE c \in 1 .. Concurrency
    <2>1. <<w, c>> \in Slots /\ <<w, c>>[1] = w
      BY DEF Slots
    <2>2. task[<<w, c>>].pc \notin {"idle", "ack"}
      BY <2>1
    <2>3. Owns(task[<<w, c>>])
      BY <2>2 DEF Owns, Guarded, Bare
    <2>4. task[<<w, c>>].job \in Jobs
      BY <2>1, <2>2 DEF TypeOK, TaskTypeOK
    <2> QED
      BY <2>1, <2>3, <2>4
  <1>5. f \in [1 .. Concurrency -> Jobs \ {j}]
    BY <1>4
  <1>6. PICK c, d \in 1 .. Concurrency : c # d /\ f[c] = f[d]
    <2> HIDE DEF f
    <2> QED
      BY <1>1, <1>2, <1>3, <1>5, FS_PigeonHole
  <1>7. task[<<w, c>>].job = task[<<w, d>>].job
    BY <1>6
  <1>8. <<w, c>> = <<w, d>>
    BY <1>4, <1>7 DEF OneOwner
  <1> QED
    BY <1>6, <1>8

\* The steps of the consume loop, the sweep and the clock.
LEMMA AloneInLoops ==
  ASSUME Inv, Alone, Calm, NEW w \in Workers, NEW j \in Jobs,
         Consume(w, j) \/ SpawnFetched(w) \/ SweepPending(w) \/ SweepCheck(w, j)
           \/ SweepClaim(w) \/ SpawnReclaimed(w, j) \/ SpawnAbandoned(w, j) \/ Age(j)
  PROVE  OneOwner' /\ WaitsAlone' /\ AgedIsTaken' /\ OrphanIsDead'
  <1> DEFINE Goal == OneOwner' /\ WaitsAlone' /\ AgedIsTaken' /\ OrphanIsDead'
  <1>a. /\ TypeOK /\ OneOwner /\ WaitsAlone /\ AgedIsTaken /\ OrphanIsDead
        /\ GuardIsSeen
    BY DEF Inv, Alone
  <1>b. /\ sweep \in [Workers -> Sweeps] /\ fetched \in [Workers -> Jobs \cup {NoJob}]
        /\ aged \subseteq Jobs /\ stream \in [Jobs -> Entries] /\ NoJob \notin Jobs
    BY <1>a, NoJobAssumption DEF TypeOK, LoopTypeOK, RedisTypeOK
  <1>1. CASE Consume(w, j)
    <2>1. /\ stream' = [stream EXCEPT ![j] = "pending"] /\ stream[j] = "new"
          /\ fetched' = [fetched EXCEPT ![w] = j] /\ fetched[w] = NoJob
          /\ UNCHANGED <<sweep, task, aged>>
      BY <1>1 DEF Consume
    <2>2. j \notin Delivered /\ Delivered \subseteq Delivered'
      BY <1>b, <2>1 DEF Delivered
    <2>3. \A v \in Workers : ~Waits(v, j)
      BY <1>b, <2>2 DEF Inv, HeldBy, Waits
    <2>4. \A s \in Slots : Owns(task[s]) => task[s].job # j
      BY <2>2 DEF Inv, TaskFits, Owns, Guarded, Bare
    <2>5. j \notin aged
      BY <1>a, <2>2 DEF AgedIsTaken
    <2>6. \A v \in Workers, i \in Jobs \ {j} : Waits(v, i)' => Waits(v, i)
      BY <1>b, <2>1 DEF Waits
    <2>7. OneOwner'
      BY <1>a, <2>1 DEF OneOwner
    <2>8. WaitsAlone'
      <3> SUFFICES ASSUME NEW i \in Jobs, NEW v \in Workers, Waits(v, i)'
                   PROVE  /\ \A u \in Workers : Waits(u, i)' => u = v
                          /\ \A r \in Slots : Owns(task'[r]) => task'[r].job # i
                          /\ fetched'[v] = i
                               => i \notin sweep'[v].reclaimed \cup sweep'[v].abandoned
        BY DEF WaitsAlone
      <3>1. CASE i = j
        <4>1. \A u \in Workers : /\ Waits(u, j)' => u = w
                                 /\ j \notin sweep[u].reclaimed \cup sweep[u].abandoned
          BY <1>b, <2>1, <2>3 DEF Waits
        <4> QED
          BY <2>1, <2>4, <3>1, <4>1
      <3>2. CASE i # j
        <4>1. Waits(v, i)
          BY <2>6, <3>2
        <4>2. /\ \A u \in Workers : Waits(u, i) => u = v
              /\ \A r \in Slots : Owns(task[r]) => task[r].job # i
              /\ fetched[v] = i => i \notin sweep[v].reclaimed \cup sweep[v].abandoned
          BY <1>a, <4>1 DEF WaitsAlone
        <4>3. fetched'[v] = i => fetched[v] = i
          BY <1>b, <2>1, <3>2
        <4> QED
          BY <2>1, <2>6, <3>2, <4>2, <4>3
      <3> QED
        BY <3>1, <3>2
    <2>9. AgedIsTaken'
      BY <1>a, <1>b, <2>1, <2>2, <2>5, <2>6 DEF AgedIsTaken
    <2>10. OrphanIsDead'
      BY <1>a, <2>1 DEF OrphanIsDead
    <2> QED
      BY <2>7, <2>8, <2>9, <2>10
  <1>2. CASE SpawnFetched(w)
    <2>0. PICK i \in Jobs : i = fetched[w]
      BY <1>2, <1>b DEF SpawnFetched
    <2>1. /\ StartTask(w, i, "beat", "none")
          /\ fetched' = [fetched EXCEPT ![w] = NoJob]
          /\ UNCHANGED <<sweep, aged, stream>>
      BY <1>2, <2>0 DEF SpawnFetched, redis
    <2>2. PICK s \in Slots : Started(s, i, "beat", "none")
      BY <1>a, <2>1, StartedFacts
    <2>3. Waits(w, i)
      BY <2>0 DEF Waits
    <2>4. ~Waits(w, i)'
      <3>1. i \notin sweep[w].reclaimed \cup sweep[w].abandoned
        BY <1>a, <2>0, <2>3 DEF WaitsAlone
      <3>2. fetched'[w] = NoJob /\ sweep'[w] = sweep[w]
        BY <1>b, <2>1
      <3> QED
        BY <1>b, <3>1, <3>2 DEF Waits
    <2>5. \A v \in Workers, k \in Jobs : Waits(v, k)' => Waits(v, k)
      BY <1>b, <2>1 DEF Waits
    <2>6. \A v \in Workers : /\ fetched'[v] \in {fetched[v], NoJob}
                             /\ sweep'[v].reclaimed \subseteq sweep[v].reclaimed
                             /\ sweep'[v].abandoned \subseteq sweep[v].abandoned
                             /\ sweep'[v].orphans = sweep[v].orphans
      BY <1>b, <2>1
    <2> QED
      BY <1>a, <2>1, <2>2, <2>3, <2>4, <2>5, <2>6, WaitsStart
  <1>3. CASE SweepPending(w)
    <2>1. /\ sweep[w] = NoSweep
          /\ UNCHANGED <<task, fetched, aged, stream>>
      BY <1>3 DEF SweepPending, redis
    <2>2. \A v \in Workers : /\ sweep'[v].reclaimed = sweep[v].reclaimed
                             /\ sweep'[v].abandoned = sweep[v].abandoned
                             /\ sweep'[v].orphans = sweep[v].orphans
      BY <1>3, <1>b, <2>1 DEF SweepPending, NoSweep
    <2> QED
      BY <1>a, <2>1, <2>2, NoNewOwner DEF Delivered
  <1>4. CASE SweepCheck(w, j)
    <2>1. /\ j \in sweep[w].todo
          /\ sweep' = [sweep EXCEPT ![w] = Checked(sweep[w], j)]
          /\ UNCHANGED <<task, fetched, aged, stream>>
      BY <1>4 DEF SweepCheck, redis
    <2>2. \A v \in Workers : /\ sweep'[v].reclaimed = sweep[v].reclaimed
                             /\ sweep'[v].abandoned = sweep[v].abandoned
                             /\ \/ sweep'[v].orphans = sweep[v].orphans
                                \/ /\ sweep'[v].orphans = sweep[v].orphans \cup {j}
                                   /\ j \notin beat
      BY <1>b, <2>1 DEF Checked, IsOrphaned, Sweeps
    <2>3. ASSUME j \in aged, j \notin beat
          PROVE  \A s \in Slots : Owns(task[s]) => task[s].job # j
      BY <1>a, <2>3 DEF AgedIsTaken, GuardIsSeen, Owns
    <2>4. OrphanIsDead'
      BY <1>a, <2>1, <2>2, <2>3 DEF OrphanIsDead
    <2>5. \A v \in Workers, k \in Jobs : Waits(v, k)' <=> Waits(v, k)
      BY <2>1, <2>2 DEF Waits
    <2>6. OneOwner' /\ AgedIsTaken'
      BY <1>a, <1>b, <2>1, <2>5 DEF OneOwner, AgedIsTaken, Delivered
    <2>7. WaitsAlone'
      BY <1>a, <2>1, <2>2, <2>5 DEF WaitsAlone
    <2> QED
      BY <2>4, <2>6, <2>7
  <1>5. CASE SweepClaim(w)
    <2> DEFINE mine == Claimable(w)
    <2>1. /\ UNCHANGED <<task, fetched, stream>> /\ aged' = aged \ mine
          /\ sweep' = [sweep EXCEPT ![w] =
                         [NoSweep EXCEPT !.reclaimed = mine \ sweep[w].spent,
                                         !.abandoned = mine \cap sweep[w].spent]]
      BY <1>5 DEF SweepClaim
    <2>2. mine \subseteq sweep[w].orphans \cap aged
      BY DEF Claimable
    <2>3. \A i \in mine : /\ i \in Jobs
                          /\ \A v \in Workers : ~Waits(v, i)
                          /\ \A s \in Slots : Owns(task[s]) => task[s].job # i
      BY <1>a, <1>b, <2>2 DEF AgedIsTaken, OrphanIsDead
    <2>4. /\ sweep'[w].reclaimed \cup sweep'[w].abandoned = mine
          /\ sweep'[w].orphans = {}
          /\ \A v \in Workers \ {w} : sweep'[v] = sweep[v]
      <3> HIDE DEF mine
      <3> QED
        BY <1>b, <2>1 DEF NoSweep
    <2> HIDE DEF mine
    <2>5. \A v \in Workers, i \in Jobs :
             Waits(v, i)' => (v = w /\ i \in mine) \/ (i \notin mine /\ Waits(v, i))
      BY <2>1, <2>3, <2>4 DEF Waits
    <2>6. OneOwner'
      BY <1>a, <2>1 DEF OneOwner
    <2>7. WaitsAlone'
      <3> SUFFICES ASSUME NEW i \in Jobs, NEW v \in Workers, Waits(v, i)'
                   PROVE  /\ \A u \in Workers : Waits(u, i)' => u = v
                          /\ \A r \in Slots : Owns(task'[r]) => task'[r].job # i
                          /\ fetched'[v] = i
                               => i \notin sweep'[v].reclaimed \cup sweep'[v].abandoned
        BY DEF WaitsAlone
      <3>1. CASE i \in mine
        <4>1. /\ v = w /\ \A u \in Workers : Waits(u, i)' => u = w
              /\ fetched'[v] # i
          BY <2>1, <2>3, <2>5, <3>1 DEF Waits
        <4> QED
          BY <2>1, <2>3, <3>1, <4>1
      <3>2. CASE i \notin mine
        <4>1. /\ Waits(v, i) /\ \A u \in Workers : Waits(u, i)' => Waits(u, i)
          BY <2>5, <3>2
        <4>2. v = w => i \notin sweep'[v].reclaimed \cup sweep'[v].abandoned
          BY <2>4, <3>2
        <4> QED
          BY <1>a, <2>1, <2>4, <4>1, <4>2 DEF WaitsAlone
      <3> QED
        BY <3>1, <3>2
    <2>8. AgedIsTaken'
      BY <1>a, <1>b, <2>1, <2>5 DEF AgedIsTaken, Delivered
    <2>9. OrphanIsDead'
      BY <1>a, <2>1, <2>4 DEF OrphanIsDead
    <2> QED
      BY <2>6, <2>7, <2>8, <2>9
  <1>6. CASE SpawnReclaimed(w, j) \/ SpawnAbandoned(w, j)
    <2>1. /\ j \in sweep[w].reclaimed \cup sweep[w].abandoned
          /\ sweep' = [sweep EXCEPT ![w] = Spawned(sweep[w], j)]
          /\ UNCHANGED <<fetched, aged, stream>>
      BY <1>6 DEF SpawnReclaimed, SpawnAbandoned, redis
    <2>2. PICK s \in Slots : \/ Started(s, j, "beat", "none")
                             \/ Started(s, j, "finish", "JOB_ABANDONED")
      BY <1>a, <1>6, StartedFacts DEF SpawnReclaimed, SpawnAbandoned
    <2>3. /\ \A v \in Workers : /\ sweep'[v].reclaimed \subseteq sweep[v].reclaimed
                                /\ sweep'[v].abandoned \subseteq sweep[v].abandoned
                                /\ sweep'[v].orphans = sweep[v].orphans
          /\ j \notin sweep'[w].reclaimed \cup sweep'[w].abandoned
      BY <1>b, <2>1 DEF Spawned, Sweeps
    <2>4. Waits(w, j)
      BY <2>1 DEF Waits
    <2>5. ~Waits(w, j)'
      BY <1>a, <2>1, <2>3, <2>4 DEF Waits, WaitsAlone
    <2>6. \A v \in Workers, k \in Jobs : Waits(v, k)' => Waits(v, k)
      BY <2>1, <2>3 DEF Waits
    <2> QED
      BY <1>a, <2>1, <2>2, <2>3, <2>4, <2>5, <2>6, WaitsStart
  <1>7. CASE Age(j)
    <2>1. /\ j \in Pending /\ ~Prompt(j) /\ aged' = aged \cup {j}
          /\ UNCHANGED <<task, fetched, sweep, stream>>
      BY <1>7 DEF Age, processes
    <2>2. \A v \in Workers : ~Waits(v, j)
      <3> SUFFICES ASSUME NEW v \in Workers, Waits(v, j) PROVE FALSE
        OBVIOUS
      <3>1. \A s \in Slots : Owns(task[s]) => task[s].job # j
        BY <1>a DEF WaitsAlone
      <3>2. \E s \in Slots : s[1] = v /\ task[s].pc \in {"idle", "ack"}
        BY <1>a, <3>1, NobodyIsCrowdedOut
      <3> QED
        BY <2>1, <3>2 DEF Prompt
    <2>3. \A s \in Slots : Bare(task[s]) => task[s].job # j
      BY <2>1 DEF Prompt, Bare, At
    <2>4. \A v \in Workers : j \notin sweep[v].orphans
      BY <2>1 DEF Prompt
    <2>5. j \in Delivered'
      BY <2>1 DEF Pending, Delivered
    <2>6. OneOwner' /\ WaitsAlone'
      BY <1>a, <2>1 DEF OneOwner, WaitsAlone, Waits
    <2>7. AgedIsTaken'
      BY <1>a, <2>1, <2>2, <2>3, <2>5 DEF AgedIsTaken, Waits, Delivered
    <2>8. OrphanIsDead'
      BY <1>a, <2>1, <2>4 DEF OrphanIsDead
    <2> QED
      BY <2>6, <2>7, <2>8
  <1> QED
    BY <1>1, <1>2, <1>3, <1>4, <1>5, <1>6, <1>7

\* Everybody else leaves the owners and the waiting scans as they are, or has one
\* fewer of them.
LEMMA AloneElsewhere ==
  ASSUME Inv, FreshHasNoOutcome, Alone, Grows,
         \/ \E j \in Jobs : Publish(j) \/ BeatExpires(j)
         \/ \E s \in Slots : HandlerStep(s) \/ CommandFails(s) \/ ParserDies(s)
                             \/ Refresh(s)
         \/ \E w \in Workers : Crash(w) \/ Restart(w)
         \/ UNCHANGED vars
  PROVE  OneOwner' /\ WaitsAlone' /\ AgedIsTaken' /\ OrphanIsDead'
  <1>a. TypeOK /\ OneOwner /\ WaitsAlone /\ AgedIsTaken /\ OrphanIsDead
    BY DEF Inv, Alone
  <1>b. Delivered \subseteq Delivered'
    BY DEF Grows, Delivered
  <1>1. ASSUME UNCHANGED <<task, fetched, sweep, aged>>
        PROVE  OneOwner' /\ WaitsAlone' /\ AgedIsTaken' /\ OrphanIsDead'
    BY <1>a, <1>b, <1>1, NoNewOwner
  <1>2. ASSUME NEW j \in Jobs, Publish(j) \/ BeatExpires(j)
        PROVE  UNCHANGED <<task, fetched, sweep, aged>>
    BY <1>2 DEF Publish, BeatExpires, processes
  <1>3. ASSUME NEW s \in Slots, Refresh(s)
        PROVE  UNCHANGED <<task, fetched, sweep, aged>>
    BY <1>3 DEF Refresh, processes
  <1>4. ASSUME NEW s \in Slots, HandlerStep(s) \/ CommandFails(s)
        PROVE  OneOwner' /\ WaitsAlone' /\ AgedIsTaken' /\ OrphanIsDead'
    <2>1. UNCHANGED <<fetched, sweep, aged>>
      BY <1>4
      DEF HandlerStep, CommandFails, Beat, Check, Load, Begin, Mark, PipelineEnds,
          Finish, DeadLetter, Record, PublishStatus, Settle, ReleaseSlot, Notify,
          Clear, Ack, redis
    <2>2. \A r \in Slots : /\ Owns(task'[r]) => /\ Owns(task[r])
                                                /\ task'[r].job = task[r].job
                           /\ Bare(task'[r]) => Bare(task[r])
      BY <1>a, <1>4, HandlerPuts, HandlerOwns DEF Rest
    <2> QED
      BY <1>a, <1>b, <2>1, <2>2, NoNewOwner
  <1>5. ASSUME NEW w \in Workers, Die(w), UNCHANGED redis
        PROVE  OneOwner' /\ WaitsAlone' /\ AgedIsTaken' /\ OrphanIsDead'
    <2>1. \A r \in Slots : /\ Owns(task'[r]) => /\ Owns(task[r])
                                                /\ task'[r].job = task[r].job
                           /\ Bare(task'[r]) => Bare(task[r])
      BY <1>a, <1>5, DieFacts, OwnsFacts
    <2>2. /\ aged' = aged
          /\ \A v \in Workers \ {w} : fetched'[v] = fetched[v] /\ sweep'[v] = sweep[v]
          /\ fetched'[w] = NoJob /\ sweep'[w] = NoSweep
      BY <1>a, <1>5 DEF Die, TypeOK, LoopTypeOK, redis
    <2>3. \A j \in Jobs : ~Waits(w, j)'
      BY <2>2, NoJobAssumption DEF Waits, NoSweep
    <2>4. \A v \in Workers : sweep'[v].orphans \subseteq sweep[v].orphans
      BY <2>2 DEF NoSweep
    <2> QED
      BY <1>a, <1>b, <2>1, <2>2, <2>3, <2>4, NoNewOwner
  <1>6. ASSUME NEW w \in Workers, Crash(w) \/ Restart(w)
        PROVE  OneOwner' /\ WaitsAlone' /\ AgedIsTaken' /\ OrphanIsDead'
    <2>1. CASE Crash(w)
      BY <1>5, <2>1 DEF Crash
    <2>2. CASE Restart(w)
      BY <1>1, <2>2 DEF Restart, redis
    <2> QED
      BY <1>6, <2>1, <2>2
  <1>7. ASSUME NEW s \in Slots, ParserDies(s)
        PROVE  OneOwner' /\ WaitsAlone' /\ AgedIsTaken' /\ OrphanIsDead'
    BY <1>5, <1>7 DEF ParserDies, Slots
  <1>8. CASE UNCHANGED vars
    BY <1>1, <1>8 DEF vars, redis, processes
  <1> QED
    BY <1>1, <1>2, <1>3, <1>4, <1>6, <1>7, <1>8

LEMMA AloneNext ==
  ASSUME Inv, FreshHasNoOutcome, Alone, Calm, [Next]_vars, Calm'
  PROVE  Alone'
  <1>a. TypeOK /\ lapses' = 0 /\ Grows
    BY StepGrows DEF Inv, Calm
  <1>1. IdleHasNoJob' /\ GuardIsSeen'
    BY <1>a, IdleNext, GuardNext DEF Alone
  <1>2. ~\E s \in Slots : RefresherDies(s)
    BY <1>a, LapseFacts
  <1>3. OneOwner' /\ WaitsAlone' /\ AgedIsTaken' /\ OrphanIsDead'
    <2>1. CASE \/ \E j \in Jobs : Publish(j) \/ BeatExpires(j)
               \/ \E s \in Slots : HandlerStep(s) \/ CommandFails(s) \/ ParserDies(s)
                                   \/ Refresh(s)
               \/ \E w \in Workers : Crash(w) \/ Restart(w)
               \/ UNCHANGED vars
      BY <1>a, <2>1, AloneElsewhere
    <2>2. ASSUME NEW w \in Workers, SpawnFetched(w) \/ SweepPending(w) \/ SweepClaim(w)
          PROVE  OneOwner' /\ WaitsAlone' /\ AgedIsTaken' /\ OrphanIsDead'
      <3>1. \E j : j \in Jobs
        BY <1>a, <2>2
        DEF SpawnFetched, SweepPending, SweepClaim, Pending, TypeOK, LoopTypeOK, Sweeps
      <3> QED
        BY <2>2, <3>1, AloneInLoops
    <2>3. ASSUME NEW w \in Workers, NEW j \in Jobs,
                 Consume(w, j) \/ SweepCheck(w, j) \/ SpawnReclaimed(w, j)
                   \/ SpawnAbandoned(w, j)
          PROVE  OneOwner' /\ WaitsAlone' /\ AgedIsTaken' /\ OrphanIsDead'
      BY <2>3, AloneInLoops
    <2>4. ASSUME NEW j \in Jobs, Age(j)
          PROVE  OneOwner' /\ WaitsAlone' /\ AgedIsTaken' /\ OrphanIsDead'
      <3>1. CASE Workers # {}
        BY <2>4, <3>1, AloneInLoops
      <3>2. CASE Workers = {}
        <4>1. Slots = {}
          BY <3>2 DEF Slots
        <4> QED
          BY <1>a, <2>4, <3>2, <4>1
          DEF OneOwner, WaitsAlone, AgedIsTaken, OrphanIsDead, Alone, Age, Pending,
              Delivered
      <3> QED
        BY <3>1, <3>2
    <2> QED
      BY <1>2, <2>1, <2>2, <2>3, <2>4 DEF Next, Sweeping, Environment
  <1> QED
    BY <1>1, <1>3 DEF Alone

-----------------------------------------------------------------------------
(* What the owner may rely on.                                             *)

\* Who writes what.
LEMMA Writes ==
  ASSUME TypeOK, [Next]_vars
  PROVE  /\ status' = status \/ \E s \in Slots : PublishStatus(s)
         /\ journal' = journal \/ \E s \in Slots : Begin(s) \/ Mark(s) \/ Finish(s)
         /\ dlq' = dlq \/ \E s \in Slots : DeadLetter(s)
         /\ died' = died \/ \E w \in Workers : Die(w)
  <1> DEFINE Goal == /\ status' = status \/ \E s \in Slots : PublishStatus(s)
                     /\ journal' = journal
                          \/ \E s \in Slots : Begin(s) \/ Mark(s) \/ Finish(s)
                     /\ dlq' = dlq \/ \E s \in Slots : DeadLetter(s)
                     /\ died' = died \/ \E w \in Workers : Die(w)
  <1>1. ASSUME NEW s \in Slots, HandlerStep(s) PROVE Goal
    <2>1. died' = died
      BY <1>1, HandlerKeepsCounts
    <2>2. /\ status' = status \/ PublishStatus(s)
          /\ journal' = journal \/ Begin(s) \/ Mark(s) \/ Finish(s)
          /\ dlq' = dlq \/ DeadLetter(s)
      BY <1>1
      DEF HandlerStep, Beat, Check, Load, Begin, Mark, PipelineEnds, Finish,
          DeadLetter, Record, PublishStatus, Settle, ReleaseSlot, Notify, Clear, Ack,
          redis
    <2> QED
      BY <2>1, <2>2
  <1>2. ASSUME NEW s \in Slots, CommandFails(s) PROVE Goal
    BY <1>2 DEF CommandFails, redis
  <1>3. CASE UNCHANGED <<status, journal, dlq>>
    <2>1. died' = died \/ \E w \in Workers : Die(w)
      <3>1. \A s \in Slots : s[1] \in Workers
        BY DEF Slots
      <3>2. CASE Environment
        BY <3>1, <3>2
        DEF Environment, Crash, Restart, CommandFails, ParserDies, RefresherDies,
            Refresh, BeatExpires, Age
      <3>3. ASSUME NEW w \in Workers, SpawnFetched(w) \/ Sweeping(w)
            PROVE  died' = died
        BY <3>3
        DEF SpawnFetched, Sweeping, SweepPending, SweepCheck, SweepClaim,
            SpawnReclaimed, SpawnAbandoned
      <3>4. ASSUME NEW j \in Jobs, \/ Publish(j)
                                   \/ \E w \in Workers : Consume(w, j)
            PROVE  died' = died
        BY <3>4 DEF Publish, Consume
      <3> QED
        BY <3>2, <3>3, <3>4, HandlerKeepsCounts DEF Next, vars
    <2> QED
      BY <1>3, <2>1
  <1> QED
    BY <1>1, <1>2, <1>3, TaskSteps

\* Two owners of one scan are the same handler.
LEMMA SameOwner ==
  ASSUME OneOwner, NEW r \in Slots, NEW s \in Slots,
         task[r].job = task[s].job,
         task[r].pc \notin {"idle", "ack"}, task[s].pc \notin {"idle", "ack"}
  PROVE  r = s
  BY DEF OneOwner, Owns, Guarded, Bare

LEMMA FreshStatusNext ==
  ASSUME Inv, OneOwner, StatusIsFresh, [Next]_vars
  PROVE  StatusIsFresh'
  <1>a. TypeOK
    BY DEF Inv
  <1> DEFINE Fresh(t, st) == /\ Works(t) => st \notin Terminal
                             /\ t.pc \in {"record", "publish"} /\ Replays(t.out)
                                  => st = StatusOf(t.out)
  <1> SUFFICES ASSUME NEW r \in Slots
               PROVE  Fresh(task'[r], status'[task'[r].job])
    BY DEF StatusIsFresh
  <1>b. Fresh(task[r], status[task[r].job])
    BY DEF StatusIsFresh
  <1>c. \A t : /\ Works(t) => t.pc \in {"load", "begin", "fetch", "parse", "finish",
                                        "dlq", "record", "publish"}
               /\ t.pc = "beat" \/ t.out = "JOB_ABANDONED" => ~Works(t) \/ t.pc # "beat"
    BY DEF Works
  <1>1. ASSUME NEW s \in Slots, PublishStatus(s)
        PROVE  Fresh(task'[r], status'[task'[r].job])
    <2>1. /\ Put(s, AfterPublish(task[s].out), task[s].out) /\ Rest(s)
          /\ task[s].pc = "publish"
          /\ status' = [status EXCEPT ![task[s].job] = StatusOf(task[s].out)]
      BY <1>a, <1>1, HandlerPuts DEF HandlerStep, PublishStatus, At
    <2>2. CASE r = s
      <3>1. task'[r].pc \in {"settle", "notify"}
        BY <2>1, <2>2 DEF Put, AfterPublish
      <3> QED
        BY <3>1 DEF Works
    <2>3. CASE r # s
      <3>1. task'[r] = task[r]
        BY <2>1, <2>3 DEF Rest
      <3>2. CASE task[r].pc \notin {"load", "begin", "fetch", "parse", "finish",
                                    "dlq", "record", "publish"}
        BY <3>1, <3>2 DEF Works
      <3>3. CASE task[r].pc \in {"load", "begin", "fetch", "parse", "finish",
                                 "dlq", "record", "publish"}
        <4>1. task[r].job # task[s].job
          BY <2>1, <2>3, <3>3, SameOwner
        <4>2. task[r].job \in Jobs
          BY <1>a, <3>3 DEF TypeOK, TaskTypeOK
        <4>3. status'[task[r].job] = status[task[r].job]
          BY <1>a, <2>1, <4>1, <4>2 DEF TypeOK, RedisTypeOK
        <4> QED
          BY <1>b, <3>1, <4>3
      <3> QED
        BY <3>2, <3>3
    <2> QED
      BY <2>2, <2>3
  <1>2. CASE status' = status
    <2>1. CASE /\ task'[r].pc = task[r].pc /\ task'[r].out = task[r].out
               /\ task'[r].job = task[r].job
      BY <1>b, <1>2, <2>1 DEF Works
    <2>2. CASE task'[r].pc \notin {"load", "begin", "fetch", "parse", "finish",
                                   "dlq", "record", "publish"}
      BY <2>2 DEF Works
    <2>3. ASSUME NEW s \in Slots, HandlerStep(s), r = s
          PROVE  Fresh(task'[r], status'[task'[r].job])
      <3> DEFINE j == task[s].job
                 o == task[s].out
      <3>1. CASE Check(s)
        <4>1. \A st : st \in Terminal => /\ StatusOf(ReplayOf(st)) = st
                                         /\ Replays(ReplayOf(st))
          BY DEF Terminal, StatusOf, ReplayOf, Replays, Reasons
        <4> QED
          BY <1>a, <1>2, <2>3, <3>1, <4>1, HandlerPuts DEF Put, Works
      <3>2. CASE Load(s)
        <4>1. status[j] \notin Terminal
          BY <1>b, <2>3, <3>2 DEF Load, At, Works
        <4>2. task'[s].job = j /\ task'[s].pc \in {"begin", "finish"}
          BY <1>a, <3>2, HandlerPuts DEF Put
        <4> QED
          BY <1>2, <2>3, <4>1, <4>2
      <3>3. CASE Begin(s) \/ Mark(s) \/ \E out \in Outcomes : PipelineEnds(s, out)
        <4>1. status[j] \notin Terminal
          BY <1>b, <2>3, <3>3 DEF Begin, Mark, PipelineEnds, At, Works
        <4>2. task'[s].job = j /\ task'[s].pc \in {"fetch", "parse", "finish"}
          BY <1>a, <3>3, HandlerPuts DEF Put
        <4> QED
          BY <1>2, <2>3, <4>1, <4>2
      <3>4. CASE Finish(s)
        <4>1. Put(s, AfterFinish(o), o) /\ At(s, "finish") /\ ~Replays(o)
          BY <1>a, <3>4, HandlerPuts DEF Finish, At, Inv, TaskFits, Replays, Reasons
        <4> QED
          BY <1>b, <1>2, <2>3, <4>1 DEF Put, At, AfterFinish, Works
      <3>5. CASE DeadLetter(s)
        <4>1. Put(s, "record", o) /\ At(s, "dlq") /\ ~Replays(o)
          BY <1>a, <3>5, HandlerPuts
          DEF DeadLetter, At, TypeOK, TaskTypeOK, Replays, Reasons
        <4> QED
          BY <1>b, <1>2, <2>3, <4>1 DEF Put, At, Works
      <3>6. CASE Record(s)
        <4>1. Put(s, "publish", o) /\ At(s, "record")
          BY <1>a, <3>6, HandlerPuts DEF Record
        <4> QED
          BY <1>b, <1>2, <2>3, <4>1 DEF Put, At, Works
      <3>7. CASE \/ Beat(s) \/ PublishStatus(s) \/ Settle(s) \/ ReleaseSlot(s)
                 \/ Notify(s) \/ Clear(s) \/ Ack(s)
        <4>1. task'[s].pc \in {"check", "settle", "release", "notify", "ack", "clear",
                               "idle"}
          BY <1>a, <3>7, HandlerPuts, IdleFacts DEF Put, AfterPublish, Ended
        <4> QED
          BY <2>2, <2>3, <4>1
      <3> QED
        BY <2>3, <3>1, <3>2, <3>3, <3>4, <3>5, <3>6, <3>7 DEF HandlerStep
    <2>4. ASSUME NEW s \in Slots, CommandFails(s), r = s
          PROVE  Fresh(task'[r], status'[task'[r].job])
      <3>1. CASE At(s, "record") /\ Put(s, "publish", task[s].out)
        BY <1>b, <1>2, <2>4, <3>1 DEF Put, At, Works
      <3>2. CASE (At(s, "fetch") \/ At(s, "parse")) /\ Put(s, "finish", "infra")
        <4>1. status[task[s].job] \notin Terminal
          BY <1>b, <2>4, <3>2 DEF At, Works
        <4> QED
          BY <1>2, <2>4, <3>2, <4>1 DEF Put
      <3>3. CASE task'[s].pc \in {"ack", "clear", "idle"}
        BY <2>2, <2>4, <3>3
      <3> QED
        BY <1>a, <2>4, <3>1, <3>2, <3>3, HandlerPuts, IdleFacts DEF Put, Ended
    <2>5. ASSUME NEW s \in Slots, NEW j \in Jobs, r = s,
                 \/ Started(s, j, "beat", "none")
                 \/ Started(s, j, "finish", "JOB_ABANDONED")
          PROVE  Fresh(task'[r], status'[task'[r].job])
      <3>1. /\ task'[r].pc \notin {"record", "publish"}
            /\ task'[r].pc = "beat" \/ (task'[r].pc = "finish"
                                         /\ task'[r].out = "JOB_ABANDONED")
        BY <2>5, NewFacts DEF Started
      <3> QED
        BY <3>1 DEF Works
    <2>6. ASSUME NEW s \in Slots, r # s,
                 \/ HandlerStep(s) \/ CommandFails(s)
                 \/ \E j \in Jobs : \/ Started(s, j, "beat", "none")
                                    \/ Started(s, j, "finish", "JOB_ABANDONED")
          PROVE  task'[r] = task[r]
      BY <1>a, <2>6, HandlerPuts DEF Rest, Started
    <2>7. ASSUME NEW w \in Workers, Die(w)
          PROVE  task'[r] = task[r] \/ task'[r].pc = "idle"
      BY <1>a, <2>7, DieFacts, IdleFacts
    <2>8. ASSUME NEW s \in Slots, RefresherDies(s)
          PROVE  /\ task'[r].pc = task[r].pc /\ task'[r].out = task[r].out
                 /\ task'[r].job = task[r].job
      BY <1>a, <2>8, LapseFacts DEF Rest
    <2> HIDE DEF Fresh
    <2> QED
      BY <1>a, <2>1, <2>2, <2>3, <2>4, <2>5, <2>6, <2>7, <2>8, TaskSteps
  <1> QED
    BY <1>a, <1>1, <1>2, Writes

\* The mark of an attempt is written by its own handler only.
LEMMA MarkCountNext ==
  ASSUME Inv, OneOwner, MarkIsCounted, [Next]_vars
  PROVE  MarkIsCounted'
  <1>a. TypeOK /\ journal \in [Jobs -> Attempts]
    BY DEF Inv, TypeOK, RedisTypeOK
  <1>b. \A s \in Slots : Begin(s) \/ Mark(s) \/ Finish(s) =>
           /\ task[s].job \in Jobs /\ task[s].pc \notin {"idle", "ack"}
           /\ \A j \in Jobs \ {task[s].job} : journal'[j] = journal[j]
    BY <1>a DEF Begin, Mark, Finish, Journal, At, TypeOK, TaskTypeOK
  <1>1. \A j \in Jobs : journal'[j].stage = "risky" => journal'[j].attempt > 0
    <2> SUFFICES ASSUME NEW j \in Jobs, journal'[j].stage = "risky"
                 PROVE  journal'[j].attempt > 0
      OBVIOUS
    <2>1. ASSUME NEW s \in Slots, Begin(s) \/ Finish(s), task[s].job = j PROVE FALSE
      BY <1>a, <2>1 DEF Begin, Finish, Journal, NoAttempt
    <2>2. ASSUME NEW s \in Slots, Mark(s), task[s].job = j
          PROVE  journal'[j].attempt > 0
      <3>1. journal'[j].attempt = task[s].attempt /\ task[s].pc \in {"fetch", "parse"}
        BY <1>a, <2>2 DEF Mark, Journal, At
      <3> QED
        BY <3>1 DEF MarkIsCounted
    <2>3. journal'[j] = journal[j] => journal'[j].attempt > 0
      BY DEF MarkIsCounted
    <2> QED
      BY <1>a, <1>b, <2>1, <2>2, <2>3, Writes
  <1>2. ASSUME NEW r \in Slots
        PROVE  /\ task'[r].pc \in {"begin", "fetch", "parse"} => task'[r].attempt > 0
               /\ task'[r].pc = "parse" => journal'[task'[r].job].stage = "risky"
    <2>a. /\ task[r].pc \in {"begin", "fetch", "parse"} => task[r].attempt > 0
          /\ task[r].pc = "parse" => journal[task[r].job].stage = "risky"
      BY DEF MarkIsCounted
    <2>1. ASSUME task'[r].pc = task[r].pc, task'[r].job = task[r].job,
                 task'[r].attempt = task[r].attempt,
                 ~(Begin(r) \/ Mark(r) \/ Finish(r))
          PROVE  <1>2!2!1 /\ <1>2!2!2
      <3>1. task[r].pc = "parse" => journal'[task[r].job] = journal[task[r].job]
        <4> SUFFICES ASSUME task[r].pc = "parse"
                     PROVE  journal'[task[r].job] = journal[task[r].job]
          OBVIOUS
        <4>1. task[r].job \in Jobs
          BY <1>a DEF TypeOK, TaskTypeOK
        <4>2. ASSUME NEW s \in Slots, Begin(s) \/ Mark(s) \/ Finish(s)
              PROVE  task[s].job # task[r].job
          BY <1>b, <2>1, <4>2, SameOwner
        <4> QED
          BY <1>a, <1>b, <4>1, <4>2, Writes
      <3> QED
        BY <2>a, <2>1, <3>1
    <2>2. CASE task'[r].pc \notin {"begin", "fetch", "parse"}
      BY <2>2
    <2>3. ASSUME NEW s \in Slots, HandlerStep(s), r = s
          PROVE  <1>2!2!1 /\ <1>2!2!2
      <3>1. CASE Load(s)
        <4>1. CASE Put(s, "finish", "PARSER_CRASH")
          BY <2>2, <2>3, <4>1 DEF Put
        <4>2. CASE /\ task'[s].pc = "begin"
                   /\ task'[s].attempt = journal[task[s].job].attempt + 1
          <5>1. journal[task[s].job].attempt \in Nat
            BY <1>a, <3>1, RunningTask DEF Load, At, TypeOK, Attempts
          <5> QED
            BY <2>3, <4>2, <5>1
        <4> QED
          BY <1>a, <3>1, <4>1, <4>2, HandlerPuts
      <3>2. CASE Begin(s)
        BY <1>a, <2>a, <2>3, <3>2, HandlerPuts DEF Begin, At, Put
      <3>3. CASE Mark(s)
        <4>1. Put(s, "parse", task[s].out) /\ task[s].attempt > 0
          BY <1>a, <2>a, <2>3, <3>3, HandlerPuts DEF Mark, At
        <4>2. journal'[task[s].job].stage = "risky"
          BY <1>a, <1>b, <3>3 DEF Mark, Journal
        <4> QED
          BY <2>3, <4>1, <4>2 DEF Put
      <3>4. CASE \/ Beat(s) \/ Check(s) \/ \E out \in Outcomes : PipelineEnds(s, out)
                 \/ Finish(s) \/ DeadLetter(s) \/ Record(s) \/ PublishStatus(s)
                 \/ Settle(s) \/ ReleaseSlot(s) \/ Notify(s) \/ Clear(s) \/ Ack(s)
        <4>1. task'[s].pc \notin {"begin", "fetch", "parse"}
          BY <1>a, <3>4, HandlerPuts, IdleFacts
          DEF Put, AfterFinish, AfterPublish, Ended
        <4> QED
          BY <2>3, <4>1
      <3> QED
        BY <2>3, <3>1, <3>2, <3>3, <3>4 DEF HandlerStep
    <2>4. ASSUME NEW s \in Slots, CommandFails(s), r = s
          PROVE  task'[r].pc \notin {"begin", "fetch", "parse"}
      BY <1>a, <2>4, HandlerPuts, IdleFacts DEF Put, Ended
    <2>5. ASSUME NEW s \in Slots, NEW j \in Jobs, r = s,
                 \/ Started(s, j, "beat", "none")
                 \/ Started(s, j, "finish", "JOB_ABANDONED")
          PROVE  task'[r].pc \notin {"begin", "fetch", "parse"}
      BY <2>5, NewFacts DEF Started
    <2>6. ASSUME NEW s \in Slots, r # s,
                 \/ HandlerStep(s) \/ CommandFails(s)
                 \/ \E j \in Jobs : \/ Started(s, j, "beat", "none")
                                    \/ Started(s, j, "finish", "JOB_ABANDONED")
          PROVE  task'[r] = task[r]
      BY <1>a, <2>6, HandlerPuts DEF Rest, Started
    <2>7. ASSUME NEW w \in Workers, Die(w)
          PROVE  task'[r] = task[r] \/ task'[r].pc = "idle"
      BY <1>a, <2>7, DieFacts, IdleFacts
    <2>8. ASSUME NEW s \in Slots, RefresherDies(s)
          PROVE  /\ task'[r].pc = task[r].pc /\ task'[r].attempt = task[r].attempt
                 /\ task'[r].job = task[r].job
      BY <1>a, <2>8, LapseFacts DEF Rest
    <2>9. Begin(r) \/ Mark(r) \/ Finish(r) => HandlerStep(r)
      BY DEF HandlerStep
    <2> QED
      BY <1>a, <2>1, <2>2, <2>3, <2>4, <2>5, <2>6, <2>7, <2>8, <2>9, TaskSteps
  <1> QED
    BY <1>1, <1>2 DEF MarkIsCounted

LEMMA AbsentNext ==
  ASSUME Inv, AbsentHasNothing, [Next]_vars
  PROVE  AbsentHasNothing'
  <1>a. TypeOK /\ Grows
    BY StepGrows DEF Inv
  <1> SUFFICES ASSUME NEW j \in Jobs, stream'[j] = "absent" PROVE status'[j] = "none"
    BY DEF AbsentHasNothing
  <1>1. stream[j] = "absent"
    <2>1. stream' = stream \/ stream'[j] # "absent" \/ stream'[j] = stream[j]
      BY ZenonT(40), <1>a
      DEF TypeOK, RedisTypeOK, Next, vars, redis, Publish, Consume, SpawnFetched,
          Sweeping, SweepPending, SweepCheck, SweepClaim, SpawnReclaimed,
          SpawnAbandoned, HandlerStep, Beat, Check, Load, Begin, Mark, PipelineEnds,
          Finish, DeadLetter, Record, PublishStatus, Settle, ReleaseSlot, Notify,
          Clear, Ack, Environment, Crash, ParserDies, Restart, CommandFails,
          RefresherDies, Refresh, BeatExpires, Age
    <2> QED
      BY <2>1
  <1>2. ASSUME NEW s \in Slots, PublishStatus(s) PROVE status'[j] = status[j]
    <2>1. task[s].job \in Delivered
      BY <1>2 DEF PublishStatus, At, Inv, TaskFits
    <2>2. task[s].job # j
      BY <1>1, <2>1 DEF Delivered
    <2> QED
      BY <1>2, <1>a, <2>1, <2>2 DEF PublishStatus, TypeOK, RedisTypeOK, Delivered
  <1> QED
    BY <1>a, <1>1, <1>2, Writes DEF AbsentHasNothing

LEMMA PoisonNext ==
  ASSUME TypeOK, PoisonHasNoVerdict, [Next]_vars
  PROVE  PoisonHasNoVerdict'
  <1> SUFFICES ASSUME NEW r \in Slots, task'[r].job \in Poison
               PROVE  task'[r].out # "failed"
    BY DEF PoisonHasNoVerdict
  <1>a. task[r].job \in Poison => task[r].out # "failed"
    BY DEF PoisonHasNoVerdict
  <1>1. CASE task'[r].job = task[r].job /\ task'[r].out = task[r].out
    BY <1>a, <1>1
  <1>2. ASSUME NEW s \in Slots, HandlerStep(s), r = s PROVE task'[r].out # "failed"
    <2>1. ASSUME NEW out \in Outcomes, PipelineEnds(s, out)
          PROVE  task'[r].out # "failed"
      <3>1. Put(s, "finish", out) /\ (out = "failed" => task[s].job \notin Poison)
        BY <2>1, HandlerPuts DEF PipelineEnds, At
      <3> QED
        BY <1>2, <3>1 DEF Put
    <2>2. CASE Check(s) \/ Load(s)
      BY <1>1, <1>2, <2>2, HandlerPuts DEF Put, ReplayOf
    <2>3. CASE \/ Beat(s) \/ Begin(s) \/ Mark(s) \/ Finish(s) \/ DeadLetter(s)
               \/ Record(s) \/ PublishStatus(s) \/ Settle(s) \/ ReleaseSlot(s)
               \/ Notify(s) \/ Clear(s) \/ Ack(s)
      BY <1>1, <1>2, <2>3, HandlerPuts, IdleFacts DEF Put, Ended
    <2> QED
      BY <1>2, <2>1, <2>2, <2>3 DEF HandlerStep
  <1>3. ASSUME NEW s \in Slots, CommandFails(s), r = s PROVE task'[r].out # "failed"
    BY <1>1, <1>3, HandlerPuts, IdleFacts DEF Put, Ended
  <1>4. ASSUME NEW s \in Slots, NEW j \in Jobs, r = s,
               \/ Started(s, j, "beat", "none")
               \/ Started(s, j, "finish", "JOB_ABANDONED")
        PROVE  task'[r].out # "failed"
    BY <1>4, NewFacts DEF Started
  <1>5. ASSUME NEW s \in Slots, r # s,
               \/ HandlerStep(s) \/ CommandFails(s)
               \/ \E j \in Jobs : \/ Started(s, j, "beat", "none")
                                  \/ Started(s, j, "finish", "JOB_ABANDONED")
        PROVE  task'[r] = task[r]
    BY <1>5, HandlerPuts DEF Rest, Started
  <1>6. ASSUME NEW w \in Workers, Die(w) PROVE task'[r].out # "failed"
    BY <1>1, <1>6, DieFacts, IdleFacts
  <1>7. ASSUME NEW s \in Slots, RefresherDies(s)
        PROVE  task'[r].out = task[r].out /\ task'[r].job = task[r].job
    BY <1>7, LapseFacts DEF Rest
  <1> QED
    BY <1>1, <1>2, <1>3, <1>4, <1>5, <1>6, <1>7, TaskSteps

\* Where a scan has one owner, a death counts at most once for it.
LEMMA DeathsAreCounted ==
  ASSUME TypeOK, NEW w \in Workers, Die(w), NEW j \in Jobs
  PROVE  /\ died'[j] >= died[j]
         /\ \A s \in Slots : s[1] = w /\ AttemptIsOpen(s) /\ task[s].job = j
                               => died'[j] > died[j]
         /\ OneOwner => died'[j] <= died[j] + 1
         /\ (\A s \in Slots : AttemptIsOpen(s) => s[1] # w \/ task[s].job # j)
              => died'[j] = died[j]
  <1> DEFINE S == {s \in Slots : s[1] = w /\ AttemptIsOpen(s) /\ task[s].job = j}
  <1>1. died'[j] = died[j] + Cardinality(S) /\ died[j] \in Nat
    BY DEF Die, TypeOK, GhostTypeOK
  <1>2. IsFiniteSet(S) /\ Cardinality(S) \in Nat
    <2>1. IsFiniteSet(1 .. Concurrency)
      BY FS_Interval, ConcurrencyAssumption
    <2>2. IsFiniteSet(Slots)
      BY <2>1, FS_Product, WorkersAssumption DEF Slots
    <2> QED
      BY <2>2, FS_Subset, FS_CardinalityType
  <1>3. Cardinality(S) = 0 <=> S = {}
    BY <1>2, FS_EmptySet
  <1>4. ASSUME OneOwner, S # {} PROVE Cardinality(S) = 1
    <2>1. PICK s \in S : TRUE
      BY <1>4
    <2>2. \A r \in S : r = s
      BY <1>4, <2>1, SameOwner DEF AttemptIsOpen, At
    <2>3. S = {s}
      BY <2>1, <2>2
    <2> QED
      BY <2>3, FS_Singleton
  <1>5. \A s \in Slots : s[1] = w /\ AttemptIsOpen(s) /\ task[s].job = j => S # {}
    OBVIOUS
  <1>6. (\A s \in Slots : AttemptIsOpen(s) => s[1] # w \/ task[s].job # j) => S = {}
    OBVIOUS
  <1> HIDE DEF S
  <1> QED
    BY <1>1, <1>2, <1>3, <1>4, <1>5, <1>6

LEMMA DeathsGrow ==
  ASSUME TypeOK, [Next]_vars
  PROVE  \A j \in Jobs : /\ died[j] \in Nat /\ died'[j] \in Nat
                         /\ died'[j] >= died[j]
                         /\ died[j] > 0 => died'[j] > 0
  <1>1. \A j \in Jobs : died[j] \in Nat /\ died'[j] \in Nat
    BY TypeNext DEF TypeOK, GhostTypeOK
  <1> QED
    BY <1>1, DeathsAreCounted, Writes

\* A mark of a risky stage that is read as a crash was left by a dead process.
LEMMA MarkNext ==
  ASSUME Inv, OneOwner, MarkIsExplained, faults' = 0, [Next]_vars
  PROVE  MarkIsExplained'
  <1>a. /\ TypeOK /\ journal \in [Jobs -> Attempts]
        /\ \A j \in Jobs : /\ died[j] \in Nat /\ died'[j] \in Nat
                           /\ died'[j] >= died[j]
                           /\ died[j] > 0 => died'[j] > 0
    BY DeathsGrow DEF Inv, TypeOK, RedisTypeOK
  <1>b. ~\E s \in Slots : CommandFails(s)
    BY <1>a DEF CommandFails, TypeOK, GhostTypeOK
  <1>1. ASSUME NEW j \in Jobs, journal'[j].stage = "risky", ~(died'[j] > 0)
        PROVE  \E s \in Slots : AttemptIsOpen(s)' /\ task'[s].job = j
    <2>1. ~(died[j] > 0)
      BY <1>a, <1>1
    <2>2. CASE journal'[j] = journal[j]
      <3>1. PICK s \in Slots : AttemptIsOpen(s) /\ task[s].job = j
        BY <1>1, <2>1, <2>2 DEF MarkIsExplained
      <3>2. CASE /\ task'[s].pc = task[s].pc /\ task'[s].out = task[s].out
                 /\ task'[s].job = task[s].job
        BY <3>1, <3>2 DEF AttemptIsOpen, At
      <3>3. ASSUME HandlerStep(s)
            PROVE  AttemptIsOpen(s)' /\ task'[s].job = j
        <4>1. Mark(s) \/ Finish(s) \/ \E out \in Outcomes : PipelineEnds(s, out)
          BY <3>1, <3>3
          DEF HandlerStep, AttemptIsOpen, Beat, Check, Load, Begin, Mark,
              PipelineEnds, Finish, DeadLetter, Record, PublishStatus, Settle,
              ReleaseSlot, Notify, Clear, Ack, At
        <4>2. CASE Mark(s)
          BY <1>a, <3>1, <4>2, HandlerPuts DEF Put, AttemptIsOpen, At
        <4>3. CASE Finish(s)
          BY <1>a, <1>1, <2>2, <3>1, <4>3 DEF Finish, NoAttempt
        <4>4. ASSUME NEW out \in Outcomes, PipelineEnds(s, out)
              PROVE  AttemptIsOpen(s)' /\ task'[s].job = j
          <5>1. Put(s, "finish", out) /\ out \notin {"PARSER_CRASH", "JOB_ABANDONED"}
            BY <1>a, <4>4, HandlerPuts DEF PipelineEnds
          <5> QED
            BY <3>1, <5>1 DEF Put, AttemptIsOpen, At
        <4> QED
          BY <4>1, <4>2, <4>3, <4>4
      <3>4. ASSUME NEW w \in Workers, Die(w) PROVE task'[s] = task[s]
        <4>1. s[1] # w
          BY <1>1, <1>a, <2>1, <3>1, <3>4, DeathsAreCounted
        <4> QED
          BY <3>4, <4>1 DEF Die
      <3>5. ASSUME NEW r \in Slots, RefresherDies(r)
            PROVE  /\ task'[s].pc = task[s].pc /\ task'[s].out = task[s].out
                   /\ task'[s].job = task[s].job
        BY <1>a, <3>5, LapseFacts DEF Rest
      <3>6. ASSUME NEW r \in Slots, r # s,
                   \/ HandlerStep(r)
                   \/ \E i \in Jobs : \/ Started(r, i, "beat", "none")
                                      \/ Started(r, i, "finish", "JOB_ABANDONED")
            PROVE  task'[s] = task[s]
        BY <1>a, <3>6, HandlerPuts DEF Rest, Started
      <3>7. task[s].pc # "idle"
        BY <3>1 DEF AttemptIsOpen, At
      <3>8. \A i : ~Started(s, i, "beat", "none") /\ ~Started(s, i, "finish", "JOB_ABANDONED")
        BY <3>7 DEF Started
      <3> QED
        BY <1>a, <1>b, <3>2, <3>3, <3>4, <3>5, <3>6, <3>8, TaskSteps
    <2>3. ASSUME NEW s \in Slots, Begin(s) \/ Mark(s) \/ Finish(s), task[s].job = j
          PROVE  AttemptIsOpen(s)' /\ task'[s].job = j
      <3>1. Mark(s)
        BY <1>1, <1>a, <2>3 DEF Begin, Finish, Journal, NoAttempt
      <3> QED
        BY <1>a, <2>3, <3>1, HandlerPuts DEF Put, AttemptIsOpen, At
    <2>4. \A s \in Slots : Begin(s) \/ Mark(s) \/ Finish(s) =>
             task[s].job = j \/ journal'[j] = journal[j]
      BY <1>a DEF Begin, Mark, Finish, Journal
    <2> QED
      BY <1>a, <2>2, <2>3, <2>4, Writes
  <1>2. ASSUME NEW r \in Slots, task'[r].pc # "idle", task'[r].out = "PARSER_CRASH"
        PROVE  died'[task'[r].job] > 0
    <2>1. ASSUME task'[r].pc = task[r].pc, task'[r].out = task[r].out,
                 task'[r].job = task[r].job
          PROVE  died'[task'[r].job] > 0
      <3>1. died[task[r].job] > 0 /\ task[r].job \in Jobs
        BY <1>2, <1>a, <2>1 DEF MarkIsExplained, TypeOK, TaskTypeOK
      <3> QED
        BY <1>a, <2>1, <3>1
    <2>2. ASSUME NEW s \in Slots, HandlerStep(s), r = s
          PROVE  died'[task'[r].job] > 0
      <3>1. task[s].job \in Jobs /\ task'[s].job = task[s].job
        BY <1>2, <1>a, <2>2, HandlerPuts, RunningTask, IdleFacts
        DEF HandlerStep, Put, Ended, TypeOK
      <3>2. CASE Load(s)
        <4>1. CASE CrashedOnContent(journal[task[s].job])
          <5>1. \A q \in Slots : AttemptIsOpen(q) => task[q].job # task[s].job
            BY <3>2, SameOwner DEF Load, AttemptIsOpen, At
          <5>2. died[task[s].job] > 0
            BY <3>1, <4>1, <5>1 DEF CrashedOnContent, MarkIsExplained
          <5> QED
            BY <1>a, <2>2, <3>1, <5>2
        <4>2. CASE ~CrashedOnContent(journal[task[s].job])
          <5>1. task'[s].out = task[s].out /\ task[s].pc # "idle"
            BY <1>a, <2>2, <3>2, <4>2, HandlerPuts
          <5>2. died[task[s].job] > 0
            BY <1>2, <2>2, <5>1 DEF MarkIsExplained
          <5> QED
            BY <1>a, <2>2, <3>1, <5>2
        <4> QED
          BY <4>1, <4>2
      <3>3. CASE task'[s].out = task[s].out
        <4>1. task[s].pc # "idle"
          BY <1>a, <2>2, HandlerPuts
        <4>2. died[task[s].job] > 0
          BY <1>2, <2>2, <3>3, <4>1 DEF MarkIsExplained
        <4> QED
          BY <1>a, <2>2, <3>1, <4>2
      <3>4. CASE Check(s) \/ \E out \in Outcomes : PipelineEnds(s, out)
        <4>1. task'[s].out # "PARSER_CRASH" \/ task'[s].out = task[s].out
          BY <1>a, <3>4, HandlerPuts DEF Put, ReplayOf, PipelineEnds
        <4> QED
          BY <1>2, <2>2, <3>3, <4>1
      <3>5. CASE \/ Beat(s) \/ Begin(s) \/ Mark(s) \/ Finish(s) \/ DeadLetter(s)
                 \/ Record(s) \/ PublishStatus(s) \/ Settle(s) \/ ReleaseSlot(s)
                 \/ Notify(s) \/ Clear(s) \/ Ack(s)
        <4>1. task'[s].out = task[s].out
          BY <1>2, <1>a, <2>2, <3>5, HandlerPuts, IdleFacts DEF Put, Ended
        <4> QED
          BY <3>3, <4>1
      <3> QED
        BY <2>2, <3>2, <3>4, <3>5 DEF HandlerStep
    <2>3. ASSUME NEW s \in Slots, NEW j \in Jobs, r = s,
                 \/ Started(s, j, "beat", "none")
                 \/ Started(s, j, "finish", "JOB_ABANDONED")
          PROVE  FALSE
      BY <1>2, <2>3, NewFacts DEF Started
    <2>4. ASSUME NEW s \in Slots, r # s,
                 \/ HandlerStep(s)
                 \/ \E j \in Jobs : \/ Started(s, j, "beat", "none")
                                    \/ Started(s, j, "finish", "JOB_ABANDONED")
          PROVE  task'[r] = task[r]
      BY <1>a, <2>4, HandlerPuts DEF Rest, Started
    <2>5. ASSUME NEW w \in Workers, Die(w) PROVE task'[r] = task[r]
      BY <1>2, <1>a, <2>5, DieFacts, IdleFacts
    <2>6. ASSUME NEW s \in Slots, RefresherDies(s)
          PROVE  /\ task'[r].pc = task[r].pc /\ task'[r].out = task[r].out
                 /\ task'[r].job = task[r].job
      BY <1>a, <2>6, LapseFacts DEF Rest
    <2> QED
      BY <1>a, <1>b, <2>1, <2>2, <2>3, <2>4, <2>5, <2>6, TaskSteps
  <1>3. ASSUME NEW j \in Jobs, "PARSER_CRASH" \in dlq'[j] PROVE died'[j] > 0
    <2>1. CASE "PARSER_CRASH" \in dlq[j]
      BY <1>a, <2>1 DEF MarkIsExplained
    <2>2. ASSUME NEW s \in Slots, DeadLetter(s), "PARSER_CRASH" \notin dlq[j]
          PROVE  died'[j] > 0
      <3>1. task[s].job = j /\ task[s].out = "PARSER_CRASH" /\ task[s].pc # "idle"
        BY <1>3, <1>a, <2>2 DEF DeadLetter, At, TypeOK, RedisTypeOK
      <3> QED
        BY <1>a, <3>1 DEF MarkIsExplained
    <2> QED
      BY <1>3, <1>a, <2>1, <2>2, Writes
  <1> QED
    BY <1>1, <1>2, <1>3 DEF MarkIsExplained

-----------------------------------------------------------------------------
(* A file that kills its parser.                                           *)

LEMMA OthersWere ==
  ASSUME TypeOK, [Next]_vars, NEW j \in Jobs, OthersAreHarmless(j)'
  PROVE  OthersAreHarmless(j)
  BY DeathsGrow DEF OthersAreHarmless

\* An attempt under way is not contained: its handler is the only owner.
LEMMA OpenIsNotContained ==
  ASSUME Inv, OneOwner, StatusIsFresh, NEW s \in Slots, AttemptIsOpen(s)
  PROVE  ~Contained(task[s].job)
  <1>1. status[task[s].job] \notin Terminal
    <2>1. Works(task[s])
      BY DEF AttemptIsOpen, At, Works, Inv, TaskFits, Replays, Reasons
    <2> QED
      BY <2>1 DEF StatusIsFresh
  <1>2. \A r \in Slots : task[r].pc \in {"dlq", "record", "publish"}
                           => task[r].job # task[s].job
    BY SameOwner DEF AttemptIsOpen, At
  <1> QED
    BY <1>1, <1>2 DEF Contained

\* What contains a file is not lost by a step of a handler.
LEMMA ContainedStays ==
  ASSUME Inv, OneOwner, MarkIsCounted, PoisonHasNoVerdict, MaxCrashes = 1,
         NEW j \in Poison, Contained(j), NEW s \in Slots, HandlerStep(s)
  PROVE  Contained(j)'
  <1>a. /\ TypeOK /\ j \in Jobs /\ task[s].job \in Jobs
        /\ journal \in [Jobs -> Attempts] /\ status \in [Jobs -> Statuses]
        /\ Rest(s) /\ task[s].pc # "idle"
    BY HandlerPuts, PoisonAssumption, RunningTask DEF Inv, TypeOK, RedisTypeOK
  <1>b. /\ status' = status \/ PublishStatus(s)
        /\ journal' = journal \/ Begin(s) \/ Mark(s) \/ Finish(s)
    BY DEF HandlerStep, Beat, Check, Load, Begin, Mark, PipelineEnds, Finish,
           DeadLetter, Record, PublishStatus, Settle, ReleaseSlot, Notify, Clear,
           Ack, redis
  <1>c. task'[s].job \in {task[s].job, NoJob}
    BY <1>a, HandlerPuts, IdleFacts DEF HandlerStep, Put, Ended
  <1>d. ASSUME PublishStatus(s), task[s].job = j PROVE status'[j] \in Terminal
    <2>1. status'[j] = StatusOf(task[s].out) /\ task[s].out # "failed"
      BY <1>a, <1>d DEF PublishStatus, PoisonHasNoVerdict
    <2> QED
      BY <2>1 DEF StatusOf, Terminal
  <1>1. CASE status[j] \in Terminal
    <2>1. status'[j] = status[j] \/ status'[j] \in Terminal
      BY <1>a, <1>b, <1>d DEF PublishStatus
    <2> QED
      BY <1>1, <2>1 DEF Contained
  <1>2. ASSUME NEW r \in Slots, task[r].job = j,
               task[r].pc \in {"dlq", "record", "publish"}
        PROVE  Contained(j)'
    <2>1. CASE r # s
      BY <1>a, <1>2, <2>1 DEF Rest, Contained
    <2>2. CASE r = s
      <3>1. DeadLetter(s) \/ Record(s) \/ PublishStatus(s)
        BY <1>2, <2>2
        DEF HandlerStep, Beat, Check, Load, Begin, Mark, PipelineEnds, Finish,
            Settle, ReleaseSlot, Notify, Clear, Ack, At
      <3>2. CASE DeadLetter(s) \/ Record(s)
        <4>1. task'[s].job = j /\ task'[s].pc \in {"record", "publish"}
          BY <1>a, <1>2, <2>2, <3>2, HandlerPuts DEF Put
        <4> QED
          BY <4>1 DEF Contained
      <3>3. CASE PublishStatus(s)
        BY <1>2, <1>d, <2>2, <3>3 DEF Contained
      <3> QED
        BY <3>1, <3>2, <3>3
    <2> QED
      BY <2>1, <2>2
  <1>3. CASE /\ journal[j].stage = "risky"
             /\ \A r \in Slots : task[r].job = j =>
                   task[r].pc \notin {"begin", "fetch"} /\ ~AttemptIsOpen(r)
    <2>1. \A r \in Slots \ {s} : task'[r].job = j =>
             task'[r].pc \notin {"begin", "fetch"} /\ ~AttemptIsOpen(r)'
      BY <1>a, <1>3 DEF Rest, AttemptIsOpen, At
    <2>2. CASE task[s].job # j
      <3>1. journal'[j] = journal[j]
        BY <1>a, <1>b, <2>2 DEF Begin, Mark, Finish, Journal
      <3>2. task'[s].job # j
        BY <1>a, <1>c, <2>2, NoJobAssumption
      <3> QED
        BY <1>3, <2>1, <3>1, <3>2 DEF Contained
    <2>3. CASE task[s].job = j
      <3>a. task[s].pc \notin {"begin", "fetch", "parse"} /\ ~AttemptIsOpen(s)
        BY <1>3, <2>3 DEF AttemptIsOpen, At
      <3>b. ~Begin(s) /\ ~Mark(s) /\ ~\E out \in Outcomes : PipelineEnds(s, out)
        BY <3>a DEF Begin, Mark, PipelineEnds, At
      <3>1. CASE Finish(s)
        <4>1. task[s].out \in {"PARSER_CRASH", "JOB_ABANDONED"}
          BY <3>a, <3>1 DEF Finish, AttemptIsOpen, At
        <4>2. task'[s].pc = "dlq" /\ task'[s].job = j
          BY <1>a, <2>3, <3>1, <4>1, HandlerPuts DEF Put, AfterFinish, Reasons
        <4> QED
          BY <4>2 DEF Contained
      <3>2. CASE ~Finish(s)
        <4>1. journal' = journal
          BY <1>b, <3>b, <3>2
        <4>2. ASSUME task'[s].job = j
              PROVE  task'[s].pc \notin {"begin", "fetch"} /\ ~AttemptIsOpen(s)'
          <5>1. CASE Load(s)
            <6>1. CrashedOnContent(journal[j])
              <7>1. journal[j].attempt \in Nat /\ journal[j].attempt > 0
                BY <1>a, <1>3 DEF MarkIsCounted, Attempts
              <7> QED
                BY <1>3, <7>1 DEF CrashedOnContent
            <6> QED
              BY <1>a, <2>3, <5>1, <6>1, HandlerPuts DEF Put, AttemptIsOpen, At
          <5>2. CASE \/ Beat(s) \/ Check(s) \/ DeadLetter(s) \/ Record(s)
                     \/ PublishStatus(s) \/ Settle(s) \/ ReleaseSlot(s) \/ Notify(s)
                     \/ Clear(s) \/ Ack(s)
            <6>1. task'[s].pc \notin {"begin", "fetch", "parse", "finish"}
              BY <1>a, <5>2, HandlerPuts, IdleFacts DEF Put, AfterPublish, Ended
            <6> QED
              BY <6>1 DEF AttemptIsOpen, At
          <5> QED
            BY <3>b, <3>2, <5>1, <5>2 DEF HandlerStep
        <4> QED
          BY <1>3, <2>1, <4>1, <4>2 DEF Contained
      <3> QED
        BY <3>1, <3>2
    <2> QED
      BY <2>2, <2>3
  <1> QED
    BY <1>1, <1>2, <1>3 DEF Contained

LEMMA KillsNext ==
  ASSUME Inv, OneOwner, StatusIsFresh, MarkIsCounted, PoisonHasNoVerdict,
         KillsArePaid, MaxCrashes = 1, [Next]_vars
  PROVE  KillsArePaid'
  <1>a. /\ TypeOK /\ crashes \in Nat /\ faults \in Nat
        /\ crashes' \in Nat /\ faults' \in Nat
    BY TypeNext DEF Inv, TypeOK, GhostTypeOK
  <1> SUFFICES ASSUME NEW j \in Poison, OthersAreHarmless(j)'
               PROVE  /\ died'[j] <= 1 + crashes' + faults'
                      /\ died'[j] <= crashes' + faults' \/ Contained(j)'
    BY DEF KillsArePaid
  <1>b. /\ j \in Jobs /\ died[j] \in Nat /\ died'[j] \in Nat
        /\ died[j] <= 1 + crashes + faults
        /\ died[j] <= crashes + faults \/ Contained(j)
    BY <1>a, PoisonAssumption, OthersWere, DeathsGrow DEF KillsArePaid
  <1>1. ASSUME NEW s \in Slots, CommandFails(s)
        PROVE  died'[j] <= crashes' + faults'
    <2>1. died' = died /\ crashes' = crashes /\ faults' = faults + 1
      BY <1>1 DEF CommandFails
    <2> QED
      BY <1>a, <1>b, <2>1
  <1>2. ASSUME NEW w \in Workers, Crash(w)
        PROVE  died'[j] <= crashes' + faults'
    <2>1. Die(w) /\ crashes' = crashes + 1 /\ faults' = faults
      BY <1>2 DEF Crash
    <2>2. CASE \E s \in Slots : s[1] = w /\ AttemptIsOpen(s) /\ task[s].job = j
      <3>1. died[j] <= crashes + faults
        BY <1>b, <2>2, OpenIsNotContained
      <3>2. died'[j] <= died[j] + 1
        BY <1>a, <1>b, <2>1, DeathsAreCounted
      <3> QED
        BY <1>a, <1>b, <2>1, <3>1, <3>2
    <2>3. CASE \A s \in Slots : AttemptIsOpen(s) => s[1] # w \/ task[s].job # j
      <3>1. died'[j] = died[j]
        BY <1>a, <1>b, <2>1, <2>3, DeathsAreCounted
      <3> QED
        BY <1>a, <1>b, <2>1, <3>1
    <2> QED
      BY <2>2, <2>3
  <1>3. ASSUME NEW s \in Slots, ParserDies(s)
        PROVE  /\ died'[j] <= 1 + crashes' + faults'
               /\ Contained(j)'
    <2>1. /\ Die(s[1]) /\ s[1] \in Workers /\ AttemptIsOpen(s) /\ task[s].pc = "parse"
          /\ task[s].job \in Jobs
          /\ UNCHANGED <<crashes, faults, journal, status>>
      BY <1>3, PoisonAssumption DEF ParserDies, AttemptIsOpen, At, Slots, budgets, redis
    <2>2. task[s].job = j
      <3>1. died'[task[s].job] > died[task[s].job]
        BY <1>a, <2>1, DeathsAreCounted
      <3>2. died'[task[s].job] # 0
        BY <1>a, <2>1, <3>1, DeathsGrow
      <3> QED
        BY <2>1, <3>2 DEF OthersAreHarmless
    <2>3. died[j] <= crashes + faults
      BY <1>b, <2>1, <2>2, OpenIsNotContained
    <2>4. died'[j] <= died[j] + 1
      BY <1>a, <1>b, <2>1, DeathsAreCounted
    <2>5. ASSUME NEW r \in Slots, task'[r].job = j
          PROVE  task'[r].pc \notin {"begin", "fetch"} /\ ~AttemptIsOpen(r)'
      <3>1. CASE r[1] = s[1]
        BY <2>1, <3>1, IdleFacts DEF Die, AttemptIsOpen, At
      <3>2. CASE r[1] # s[1]
        <4>1. task'[r] = task[r]
          BY <2>1, <3>2 DEF Die
        <4>2. task[r].pc \notin {"begin", "fetch", "parse", "finish"}
          BY <2>1, <2>2, <2>5, <3>2, <4>1, SameOwner
        <4> QED
          BY <4>1, <4>2 DEF AttemptIsOpen, At
      <3> QED
        BY <3>1, <3>2
    <2>6. journal'[j].stage = "risky"
      BY <2>1, <2>2 DEF MarkIsCounted
    <2> QED
      BY <1>a, <1>b, <2>1, <2>3, <2>4, <2>5, <2>6 DEF Contained
  <1>4. ASSUME UNCHANGED <<died, crashes, faults>>, Contained(j) => Contained(j)'
        PROVE  /\ died'[j] <= 1 + crashes' + faults'
               /\ died'[j] <= crashes' + faults' \/ Contained(j)'
    BY <1>b, <1>4
  <1>5. ASSUME NEW s \in Slots, HandlerStep(s)
        PROVE  UNCHANGED <<died, crashes, faults>> /\ (Contained(j) => Contained(j)')
    BY <1>5, ContainedStays, HandlerKeepsCounts
  <1>6. ASSUME UNCHANGED <<journal, status>>,
               \/ UNCHANGED task
               \/ \E s \in Slots, i \in Jobs :
                     \/ Started(s, i, "beat", "none")
                     \/ Started(s, i, "finish", "JOB_ABANDONED")
               \/ \E s \in Slots : RefresherDies(s)
        PROVE  Contained(j) => Contained(j)'
    <2>1. ASSUME NEW r \in Slots
          PROVE  \/ /\ task'[r].pc = task[r].pc /\ task'[r].out = task[r].out
                    /\ task'[r].job = task[r].job
                 \/ /\ task[r].pc = "idle"
                    /\ \/ task'[r].pc = "beat"
                       \/ task'[r].pc = "finish" /\ task'[r].out = "JOB_ABANDONED"
      BY <1>a, <1>6, NewFacts, LapseFacts DEF Started, Rest
    <2> QED
      BY <1>6, <2>1 DEF Contained, AttemptIsOpen, At
  <1>7. \/ \E s \in Slots : HandlerStep(s)
        \/ \E s \in Slots : CommandFails(s)
        \/ \E w \in Workers : Crash(w)
        \/ \E s \in Slots : ParserDies(s)
        \/ /\ UNCHANGED <<died, crashes, faults, journal, status>>
           /\ \/ UNCHANGED task
              \/ \E s \in Slots, i \in Jobs :
                    \/ Started(s, i, "beat", "none")
                    \/ Started(s, i, "finish", "JOB_ABANDONED")
              \/ \E s \in Slots : RefresherDies(s)
    BY <1>a, TaskSteps
  <1>8. ASSUME NEW x \in Nat, NEW c \in Nat, NEW f \in Nat, x <= c + f
        PROVE  x <= 1 + c + f
    BY <1>8
  <1>9. CASE died'[j] <= crashes' + faults'
    BY <1>a, <1>b, <1>8, <1>9
  <1>10. CASE \/ \E s \in Slots : HandlerStep(s) \/ CommandFails(s)
              \/ \E w \in Workers : Crash(w)
              \/ \E s \in Slots : ParserDies(s)
    BY <1>1, <1>2, <1>3, <1>4, <1>5, <1>9, <1>10
  <1> QED
    BY <1>4, <1>6, <1>7, <1>10

\* The handler between the status and the release lives on, or somebody crashed.
LEMMA SlotNext ==
  ASSUME Inv, OneOwner, StatusIsFresh, AbsentHasNothing, SlotIsFollowed,
         crashes' = 0, faults' = 0, [Next]_vars
  PROVE  SlotIsFollowed'
  <1>a. TypeOK /\ crashes \in Nat /\ faults \in Nat
    BY DEF Inv, TypeOK, GhostTypeOK
  <1> SUFFICES ASSUME NEW j \in Poison, OthersAreHarmless(j)', status'[j] # "none",
                      j \in slot'
               PROVE  \E s \in Slots : /\ task'[s].job = j
                                       /\ task'[s].pc \in {"settle", "release"}
    BY DEF SlotIsFollowed
  <1>b. j \in Jobs /\ OthersAreHarmless(j)
    BY PoisonAssumption, OthersWere, <1>a
  <1>c. ~(\E s \in Slots : CommandFails(s)) /\ ~(\E w \in Workers : Crash(w))
    BY <1>a DEF CommandFails, Crash
  <1>1. j \in slot
    <2>1. slot' \subseteq slot \/ \E i \in Jobs : Publish(i)
      BY <1>a
      DEF TypeOK, Next, vars, redis, Consume, SpawnFetched, Sweeping, SweepPending,
          SweepCheck, SweepClaim, SpawnReclaimed, SpawnAbandoned, HandlerStep, Beat,
          Check, Load, Begin, Mark, PipelineEnds, Finish, DeadLetter, Record,
          PublishStatus, Settle, ReleaseSlot, Notify, Clear, Ack, Environment, Crash,
          ParserDies, Restart, CommandFails, RefresherDies, Refresh, BeatExpires, Age
    <2>2. ASSUME NEW i \in Jobs, Publish(i) PROVE j \in slot
      <3>1. status' = status /\ stream[i] = "absent" /\ slot' = slot \cup {i}
        BY <2>2 DEF Publish
      <3>2. i # j
        BY <3>1 DEF AbsentHasNothing
      <3> QED
        BY <3>1, <3>2
    <2> QED
      BY <2>1, <2>2
  <1>2. CASE status[j] = "none"
    <2>1. PICK s \in Slots : PublishStatus(s)
      BY <1>2, <1>a, Writes
    <2>2. /\ task[s].job = j /\ task[s].pc = "publish"
          /\ Put(s, AfterPublish(task[s].out), task[s].out)
      BY <1>2, <1>a, <1>b, <2>1, HandlerPuts DEF PublishStatus, At, TypeOK, RedisTypeOK
    <2>3. ~Replays(task[s].out)
      BY <1>2, <2>2, StatusOfType DEF StatusIsFresh
    <2> QED
      BY <2>2, <2>3 DEF Put, AfterPublish
  <1>3. CASE status[j] # "none"
    <2>1. PICK s \in Slots : task[s].job = j /\ task[s].pc \in {"settle", "release"}
      BY <1>1, <1>3, <1>b DEF SlotIsFollowed
    <2>2. CASE task'[s].pc = task[s].pc /\ task'[s].job = task[s].job
      BY <2>1, <2>2
    <2>3. ASSUME HandlerStep(s)
          PROVE  task'[s].job = j /\ task'[s].pc \in {"settle", "release"}
      <3>1. Settle(s) \/ ReleaseSlot(s)
        BY <2>1, <2>3
        DEF HandlerStep, Beat, Check, Load, Begin, Mark, PipelineEnds, Finish,
            DeadLetter, Record, PublishStatus, Notify, Clear, Ack, At
      <3>2. ~ReleaseSlot(s)
        BY <2>1 DEF ReleaseSlot
      <3> QED
        BY <1>a, <2>1, <3>1, <3>2, HandlerPuts DEF Put
    <2>4. ASSUME NEW r \in Slots, r # s,
                 \/ HandlerStep(r)
                 \/ \E i \in Jobs : \/ Started(r, i, "beat", "none")
                                    \/ Started(r, i, "finish", "JOB_ABANDONED")
          PROVE  task'[s] = task[s]
      BY <1>a, <2>4, HandlerPuts DEF Rest, Started
    <2>5. \A i : ~Started(s, i, "beat", "none") /\ ~Started(s, i, "finish", "JOB_ABANDONED")
      BY <2>1 DEF Started
    <2>6. ASSUME NEW r \in Slots, RefresherDies(r)
          PROVE  task'[s].pc = task[s].pc /\ task'[s].job = task[s].job
      BY <1>a, <2>6, LapseFacts DEF Rest
    <2>7. ASSUME NEW r \in Slots, ParserDies(r) PROVE task'[s] = task[s]
      <3>1. /\ Die(r[1]) /\ r[1] \in Workers /\ AttemptIsOpen(r)
            /\ task[r].job \in Jobs /\ task[r].pc = "parse"
        BY <2>7, PoisonAssumption DEF ParserDies, AttemptIsOpen, At, Slots
      <3>2. died'[task[r].job] > died[task[r].job]
        BY <1>a, <3>1, DeathsAreCounted
      <3>3. died'[task[r].job] # 0
        BY <1>a, <3>1, <3>2, DeathsGrow
      <3>4. task[r].job = j
        BY <3>1, <3>3 DEF OthersAreHarmless
      <3>5. r = s
        BY <2>1, <3>1, <3>4, SameOwner
      <3> QED
        BY <2>1, <3>1, <3>5
    <2> QED
      BY <1>a, <1>c, <2>1, <2>2, <2>3, <2>4, <2>5, <2>6, <2>7, TaskSteps
  <1> QED
    BY <1>2, <1>3

-----------------------------------------------------------------------------
(* All of it together.                                                     *)

\* A kill, a fault or a lapse is not forgotten.
LEMMA BudgetsGrow ==
  ASSUME TypeOK, [Next]_vars
  PROVE  /\ lapses' = 0 => lapses = 0
         /\ crashes' = 0 => crashes = 0
         /\ faults' = 0 => faults = 0
  <1> DEFINE Goal == /\ lapses' = 0 => lapses = 0
                     /\ crashes' = 0 => crashes = 0
                     /\ faults' = 0 => faults = 0
  <1>a. lapses \in Nat /\ crashes \in Nat /\ faults \in Nat
    BY DEF TypeOK, GhostTypeOK
  <1>1. ASSUME NEW s \in Slots, HandlerStep(s) PROVE Goal
    BY <1>1, HandlerKeepsCounts
  <1>2. ASSUME NEW s \in Slots,
               CommandFails(s) \/ ParserDies(s) \/ RefresherDies(s) \/ Refresh(s)
        PROVE  Goal
    BY <1>2, <1>a DEF CommandFails, ParserDies, RefresherDies, Refresh, budgets
  <1>3. ASSUME NEW w \in Workers,
               \/ Crash(w) \/ Restart(w) \/ SpawnFetched(w) \/ SweepPending(w)
               \/ SweepClaim(w)
        PROVE  Goal
    BY <1>3, <1>a DEF Crash, Restart, SpawnFetched, SweepPending, SweepClaim, budgets
  <1>4. ASSUME NEW w \in Workers, NEW j \in Jobs,
               \/ Publish(j) \/ BeatExpires(j) \/ Age(j) \/ Consume(w, j)
               \/ SweepCheck(w, j) \/ SpawnReclaimed(w, j) \/ SpawnAbandoned(w, j)
        PROVE  Goal
    BY <1>4 DEF Publish, BeatExpires, Age, Consume, SweepCheck, SpawnReclaimed,
                SpawnAbandoned, budgets
  <1>5. ASSUME NEW j \in Jobs, Publish(j) \/ BeatExpires(j) \/ Age(j) PROVE Goal
    BY <1>5 DEF Publish, BeatExpires, Age, budgets
  <1>6. CASE UNCHANGED vars
    BY <1>6 DEF vars, budgets
  <1> QED
    BY <1>1, <1>2, <1>3, <1>4, <1>5, <1>6 DEF Next, Sweeping, Environment

LEMMA CalmNext ==
  ASSUME Inv, FreshHasNoOutcome, AbsentHasNothing, PoisonHasNoVerdict, CalmInv,
         [Next]_vars
  PROVE  CalmInv'
  <1> SUFFICES ASSUME Calm' PROVE CalmInv'
    BY DEF CalmInv
  <1>1. TypeOK /\ Calm
    BY BudgetsGrow DEF Calm, Inv
  <1>2. Alone /\ OneOwner /\ StatusIsFresh /\ MarkIsCounted
    BY <1>1 DEF CalmInv, Alone
  <1>3. Alone' /\ StatusIsFresh' /\ MarkIsCounted'
    BY <1>1, <1>2, AloneNext, FreshStatusNext, MarkCountNext
  <1>4. faults' = 0 => MarkIsExplained'
    BY <1>1, <1>2, BudgetsGrow, MarkNext DEF CalmInv
  <1>5. MaxCrashes = 1 => KillsArePaid'
    BY <1>1, <1>2, KillsNext DEF CalmInv
  <1>6. crashes' = 0 /\ faults' = 0 => SlotIsFollowed'
    BY <1>1, <1>2, BudgetsGrow, SlotNext DEF CalmInv
  <1> QED
    BY <1>3, <1>4, <1>5, <1>6 DEF CalmInv

LEMMA WorkerInit == Init => WorkerIInv
  <1> SUFFICES ASSUME Init PROVE WorkerIInv
    OBVIOUS
  <1>1. Inv
    BY InvInit
  <1>2. \A s \in Slots : task[s] = IdleTask
    BY DEF Init
  <1>3. CompleteInv /\ FreshHasNoOutcome /\ AbsentHasNothing /\ PoisonHasNoVerdict
    BY <1>2, IdleFacts
    DEF Init, CompleteInv, AckedIsNotified, VisibleIsRecorded, FreshHasNoOutcome,
        AbsentHasNothing, PoisonHasNoVerdict
  <1>4. Alone
    <2>1. \A w \in Workers, j \in Jobs : ~Waits(w, j)
      BY NoJobAssumption DEF Init, Waits, NoSweep
    <2> QED
      BY <1>2, <2>1, IdleFacts, OwnsFacts
      DEF Init, Alone, IdleHasNoJob, GuardIsSeen, OneOwner, WaitsAlone, AgedIsTaken,
          OrphanIsDead
  <1>5. \A j \in Jobs : journal[j].stage = "none"
    BY DEF Init, NoAttempt
  <1>6. StatusIsFresh /\ MarkIsCounted /\ MarkIsExplained
    BY <1>2, <1>5, IdleFacts
    DEF Init, StatusIsFresh, MarkIsCounted, MarkIsExplained, Works
  <1>7. KillsArePaid /\ SlotIsFollowed
    BY PoisonAssumption DEF Init, KillsArePaid, SlotIsFollowed
  <1> QED
    BY <1>1, <1>3, <1>4, <1>6, <1>7 DEF WorkerIInv, CalmInv

LEMMA WorkerNext == WorkerIInv /\ [Next]_vars => WorkerIInv'
  <1> SUFFICES ASSUME WorkerIInv, [Next]_vars PROVE WorkerIInv'
    OBVIOUS
  <1>1. /\ Inv /\ TypeOK /\ CompleteInv /\ FreshHasNoOutcome /\ AbsentHasNothing
        /\ PoisonHasNoVerdict /\ CalmInv
    BY DEF WorkerIInv, Inv
  <1> QED
    BY <1>1, InvNext, CompleteNext, FreshNext, AbsentNext, PoisonNext, CalmNext
    DEF WorkerIInv

\* The strengthening of the properties below holds in every reachable state.
THEOREM WorkerInvariance == Spec => []WorkerIInv
  BY WorkerInit, WorkerNext, PTL DEF Spec

\* As long as no Redis command raises, a scan that is acknowledged has its callback
\* and upload queued, and a status that can be read is in the history, whatever
\* dies between the commands of _deliver.
THEOREM OutcomesAreComplete == Spec => []OutcomeIsComplete
  <1>1. WorkerIInv => OutcomeIsComplete
    BY DEF WorkerIInv, CompleteInv, OutcomeIsComplete
  <1> QED
    BY <1>1, WorkerInvariance, PTL

LEMMA OneAtATime ==
  ASSUME OneOwner, NEW j \in Jobs
  PROVE  Cardinality({s \in Live(j) : At(s, "parse")}) <= 1
  <1> DEFINE S == {s \in Live(j) : At(s, "parse")}
  <1>1. \A r, s \in S : r = s
    BY SameOwner DEF Live, At
  <1>2. CASE S = {}
    <2>1. Cardinality(S) = 0
      BY <1>2, FS_EmptySet
    <2> QED
      BY <2>1
  <1>3. ASSUME NEW s \in S PROVE Cardinality(S) <= 1
    <2>1. S = {s}
      BY <1>1, <1>3
    <2>2. Cardinality(S) = 1
      BY <2>1, FS_Singleton
    <2> QED
      BY <2>2
  <1> QED
    BY <1>2, <1>3

\* Where no refresher dies and no scan is crowded out of the semaphore, a handler
\* that works keeps its heartbeat, is the only one to parse its file, and is not
\* mistaken for a dead one (Heartbeat.keep, reclaim.py and failure.py).
THEOREM TheLivingAreLeftAlone == Spec => []LiveIsLeftAlone
  <1>1. ASSUME WorkerIInv PROVE LiveIsLeftAlone
    <2>1. Calm => GuardIsSeen /\ OneOwner
      BY <1>1 DEF WorkerIInv, CalmInv, Alone
    <2>2. HeartbeatIsKept
      BY <2>1 DEF HeartbeatIsKept, InKeep, GuardIsSeen, Guarded, At
    <2>3. OneParser
      BY <2>1, OneAtATime DEF OneParser
    <2>4. ParserCrashIsReal
      BY <1>1 DEF WorkerIInv, CalmInv, MarkIsExplained, ParserCrashIsReal
    <2> QED
      BY <2>2, <2>3, <2>4 DEF LiveIsLeftAlone
  <1> QED
    BY <1>1, WorkerInvariance, PTL

\* A file that kills its parser takes down no more processes than one and the
\* kills and faults that hit the closing of its scan, when max_parser_crashes is
\* at its default, and its tenant has the slot back.
THEOREM PoisonIsStopped == Spec => []PoisonIsContained
  <1>1. ASSUME WorkerIInv PROVE PoisonIsContained
    <2>1. KillsAreBounded
      BY <1>1 DEF WorkerIInv, CalmInv, KillsArePaid, KillsAreBounded
    <2>2. PoisonSlotIsFreed
      BY <1>1, PoisonAssumption
      DEF WorkerIInv, Inv, CalmInv, SlotIsFollowed, PoisonSlotIsFreed, AckedHasOutcome,
          Live
    <2> QED
      BY <2>1, <2>2 DEF PoisonIsContained
  <1> QED
    BY <1>1, WorkerInvariance, PTL

\* The delivery count grows where an entry is read and where it is claimed.
LEMMA DeliverySteps ==
  ASSUME [Next]_vars
  PROVE  \/ delivered' = delivered
         \/ \E w \in Workers, j \in Jobs : Consume(w, j)
         \/ \E w \in Workers : SweepClaim(w)
  BY DEF Next, vars, redis, processes, Publish, SpawnFetched, Sweeping, SweepPending,
         SweepCheck, SpawnReclaimed, SpawnAbandoned, HandlerStep, Beat, Check, Load,
         Begin, Mark, PipelineEnds, Finish, DeadLetter, Record, PublishStatus, Settle,
         ReleaseSlot, Notify, Clear, Ack, Environment, Crash, ParserDies, Restart,
         CommandFails, RefresherDies, Refresh, BeatExpires, Age

\* A handler that does not own its scan has only to acknowledge it.
LEMMA OnlyToAck ==
  ASSUME IdleHasNoJob, NEW j \in Jobs, NEW s \in Live(j), ~Owns(task[s])
  PROVE  At(s, "ack")
  BY NoJobAssumption DEF IdleHasNoJob, Live, Owns, Guarded, Bare, At

\* XCLAIM takes an entry only from handlers that are dead or have nothing left to do
\* but to acknowledge it.
THEOREM OnlyTheDeadAreRobbed == Spec => TakenFromTheDead
  <1> DEFINE Robs == \A j \in Jobs :
                        Calm /\ delivered[j] > 0 /\ delivered'[j] > delivered[j]
                          => \A s \in Live(j) : At(s, "ack")
  <1>1. ASSUME WorkerIInv, [Next]_vars PROVE Robs
    <2> SUFFICES ASSUME NEW j \in Jobs, Calm, delivered[j] > 0,
                        delivered'[j] > delivered[j]
                 PROVE  \A s \in Live(j) : At(s, "ack")
      OBVIOUS
    <2>a. /\ delivered \in [Jobs -> Nat] /\ IdleHasNoJob /\ OrphanIsDead
      BY <1>1 DEF WorkerIInv, Inv, TypeOK, RedisTypeOK, CalmInv, Alone
    <2>1. ASSUME NEW w \in Workers, NEW i \in Jobs, Consume(w, i)
          PROVE  FALSE
      BY <2>1, <2>a DEF Consume
    <2>2. PICK w \in Workers : SweepClaim(w)
      BY <1>1, <2>a, <2>1, DeliverySteps
    <2>3. j \in sweep[w].orphans \cap aged
      BY <2>2, <2>a DEF SweepClaim, Claimable
    <2>4. \A s \in Live(j) : ~Owns(task[s])
      BY <2>3, <2>a DEF OrphanIsDead, Live
    <2> QED
      BY <2>4, <2>a, OnlyToAck
  <1>2. WorkerIInv /\ [Next]_vars => [Robs]_vars
    BY <1>1
  <1> QED
    BY <1>2, WorkerInvariance, PTL DEF Spec, TakenFromTheDead

\* A terminal outcome is replaced only by a sweep that gives the scan up: whoever
\* else would publish has looked at the status, or at what is there already.
THEOREM TerminalStays == Spec => TerminalIsStable
  <1> DEFINE Stays == \A j \in Jobs :
                         Calm /\ status[j] \in Terminal /\ status'[j] # status[j]
                           => \E s \in Live(j) : task[s].out = "JOB_ABANDONED"
  <1>1. ASSUME WorkerIInv, [Next]_vars PROVE Stays
    <2> SUFFICES ASSUME NEW j \in Jobs, Calm, status[j] \in Terminal,
                        status'[j] # status[j]
                 PROVE  \E s \in Live(j) : task[s].out = "JOB_ABANDONED"
      OBVIOUS
    <2>a. TypeOK /\ status \in [Jobs -> Statuses] /\ StatusIsFresh
      BY <1>1 DEF WorkerIInv, Inv, TypeOK, RedisTypeOK, CalmInv
    <2>1. PICK s \in Slots : PublishStatus(s)
      BY <1>1, <2>a, Writes
    <2>2. /\ task[s].job = j /\ task[s].pc = "publish"
          /\ status'[j] = StatusOf(task[s].out)
      BY <2>1, <2>a DEF PublishStatus, At
    <2>3. task[s].out = "JOB_ABANDONED"
      BY <2>2, <2>a DEF StatusIsFresh, Works
    <2> QED
      BY <2>2, <2>3 DEF Live
  <1>2. WorkerIInv /\ [Next]_vars => [Stays]_vars
    BY <1>1
  <1> QED
    BY <1>2, WorkerInvariance, PTL DEF Spec, TerminalIsStable
=============================================================================
