------------------------------- MODULE Worker -------------------------------
(***************************************************************************)
(* The worker service: jobs in a Redis stream with a consumer group, the   *)
(* heartbeat that marks a job as being worked on, the journal that marks   *)
(* how far an attempt got, the sweep that takes over the jobs of a dead    *)
(* worker, and the handler that scans a file and publishes its outcome.    *)
(*                                                                         *)
(* One step is one Redis command (or a few that nothing can tell apart).   *)
(* Between two commands a coroutine awaits, so the steps of all coroutines *)
(* of all worker processes interleave, and a process may die before any of *)
(* them.                                                                   *)
(***************************************************************************)
EXTENDS Integers, FiniteSets

CONSTANTS
    Workers,        \* worker processes
    Jobs,           \* scans put into the stream
    NoJob,          \* "no scan"
    Concurrency,    \* settings.concurrency: handlers running in one process
    MaxDeliveries,  \* settings.max_deliveries
    MaxCrashes,     \* settings.max_parser_crashes
    Poison,         \* the files that kill the process that parses them
    CrashBudget,    \* bound: processes killed from outside
    FaultBudget,    \* bound: Redis commands that raise
    LapseBudget,    \* bound: heartbeat refreshers that die of a Redis error
    DeliveryCap     \* bound: XCLAIMs stop when an entry was delivered this often

ASSUME ConcurrencyAssumption == Concurrency \in Nat \ {0}
ASSUME LimitsAssumption ==
    /\ MaxDeliveries \in Nat
    /\ MaxCrashes \in Nat \ {0}
    /\ {CrashBudget, FaultBudget, LapseBudget, DeliveryCap} \subseteq Nat
ASSUME WorkersAssumption == IsFiniteSet(Workers)
ASSUME NoJobAssumption == NoJob \notin Jobs
ASSUME PoisonAssumption == Poison \subseteq Jobs

VARIABLES
    \* Redis
    stream,     \* the entry of a scan: absent, new, pending (in the PEL), acked
    delivered,  \* XPENDING times_delivered
    aged,       \* the entry was idle for at least min_idle
    beat,       \* the scans whose key inflight:<entry> exists
    journal,    \* key attempt:<scan>
    status,     \* key status:<scan>
    history,    \* outcomes sent to the history stream
    dlq,        \* reasons in the dead-letter stream
    notified,   \* scans whose callback and delivery tasks were enqueued
    slot,       \* scans that hold a slot of their tenant's limit
    \* the processes
    up,         \* the running processes
    fetched,    \* the entry a consume loop holds while it waits in _spawn
    sweep,      \* the progress of a process's sweep
    task,       \* the handler coroutines, one place per semaphore slot
    \* what happened, for the properties and the bounds
    died,       \* how many processes died with an attempt on this scan open
    crashes, faults, lapses

redis == <<stream, delivered, aged, beat, journal, status, history,
           dlq, notified, slot>>
processes == <<up, fetched, sweep, task>>
budgets == <<crashes, faults, lapses>>
vars == <<redis, processes, died, budgets>>

-----------------------------------------------------------------------------
Entries == {"absent", "new", "pending", "acked"}
Statuses == {"none", "done", "failed", "manual"}
Reasons == {"PARSER_CRASH", "SCAN_FAILED", "JOB_ABANDONED"}

\* TERMINAL_STATUSES of models.py.
Terminal == {"done", "manual"}

\* How an attempt ends. "infra" leaves the entry unacknowledged; a replay
\* republishes a terminal status that was found; a reason is a dead letter.
Outcomes == {"none", "done", "failed", "infra", "replay done", "replay manual"}
            \cup Reasons

\* The awaits of _handle and of _abandon, in program order.
Places == {"idle", "beat", "check", "load", "begin", "fetch", "parse", "finish",
           "dlq", "record", "publish", "settle", "release", "notify", "clear",
           "ack"}

Slots == Workers \X (1 .. Concurrency)
NoAttempt == [attempt |-> 0, stage |-> "none"]
Attempts == [attempt : Nat, stage : {"none", "fetch", "risky"}]
NewTask(j, place, out) ==
    [pc |-> place, job |-> j, out |-> out, attempt |-> 0, beating |-> FALSE]
IdleTask == NewTask(NoJob, "idle", "none")
Tasks == [pc : Places, job : Jobs \cup {NoJob}, out : Outcomes, attempt : Nat,
          beating : BOOLEAN]

\* A sweep: entries of the XPENDING snapshot still to be checked, the ones found
\* without a heartbeat, the ones the snapshot shows over the delivery limit, and
\* the claimed ones waiting for the semaphore.
NoSweep == [todo |-> {}, orphans |-> {}, spent |-> {}, reclaimed |-> {},
            abandoned |-> {}]
Sweeps == [todo : SUBSET Jobs, orphans : SUBSET Jobs, spent : SUBSET Jobs,
           reclaimed : SUBSET Jobs, abandoned : SUBSET Jobs]

RedisTypeOK ==
    /\ stream \in [Jobs -> Entries]
    /\ delivered \in [Jobs -> Nat]
    /\ aged \in SUBSET Jobs
    /\ beat \in SUBSET Jobs
    /\ journal \in [Jobs -> Attempts]
    /\ status \in [Jobs -> Statuses]
    /\ history \in [Jobs -> SUBSET Statuses]
    /\ dlq \in [Jobs -> SUBSET Reasons]
    /\ notified \in SUBSET Jobs
    /\ slot \in SUBSET Jobs

LoopTypeOK ==
    /\ up \in SUBSET Workers
    /\ fetched \in [Workers -> Jobs \cup {NoJob}]
    /\ sweep \in [Workers -> Sweeps]

TaskTypeOK ==
    /\ task \in [Slots -> Tasks]
    /\ \A s \in Slots : /\ task[s].pc # "idle" \/ task[s].beating
                             => task[s].job \in Jobs
                        /\ task[s].pc = "dlq" => task[s].out \in Reasons

GhostTypeOK ==
    /\ died \in [Jobs -> Nat]
    /\ crashes \in Nat /\ faults \in Nat /\ lapses \in Nat

TypeOK == RedisTypeOK /\ LoopTypeOK /\ TaskTypeOK /\ GhostTypeOK

Init ==
    /\ stream = [j \in Jobs |-> "absent"]
    /\ delivered = [j \in Jobs |-> 0]
    /\ aged = {}
    /\ beat = {}
    /\ journal = [j \in Jobs |-> NoAttempt]
    /\ status = [j \in Jobs |-> "none"]
    /\ history = [j \in Jobs |-> {}]
    /\ dlq = [j \in Jobs |-> {}]
    /\ notified = {}
    /\ slot = {}
    /\ up = Workers
    /\ fetched = [w \in Workers |-> NoJob]
    /\ sweep = [w \in Workers |-> NoSweep]
    /\ task = [s \in Slots |-> IdleTask]
    /\ died = [j \in Jobs |-> 0]
    /\ crashes = 0 /\ faults = 0 /\ lapses = 0

-----------------------------------------------------------------------------
(* The stream and the consume loop.                                        *)

\* The gateway: the tenant's slot is taken, then the job is added (XADD).
Publish(j) ==
    /\ stream[j] = "absent"
    /\ stream' = [stream EXCEPT ![j] = "new"]
    /\ slot' = slot \cup {j}
    /\ UNCHANGED <<delivered, aged, beat, journal, status, history, dlq,
                   notified, processes, died, budgets>>

\* XREADGROUP ">" count=1. The loop then waits in _spawn for the semaphore and
\* reads nothing more until the job has a handler.
Consume(w, j) ==
    /\ w \in up
    /\ fetched[w] = NoJob
    /\ stream[j] = "new"
    /\ stream' = [stream EXCEPT ![j] = "pending"]
    /\ delivered' = [delivered EXCEPT ![j] = 1]
    /\ fetched' = [fetched EXCEPT ![w] = j]
    /\ UNCHANGED <<aged, beat, journal, status, history, dlq, notified, slot,
                   up, sweep, task, died, budgets>>

FreeSlots(w) == {s \in Slots : s[1] = w /\ task[s].pc = "idle"}

\* _spawn once the semaphore is acquired: the handler starts at `place`.
StartTask(w, j, place, out) ==
    \E s \in FreeSlots(w) :
        /\ \A r \in FreeSlots(w) : s[2] <= r[2]
        /\ task' = [task EXCEPT ![s] = NewTask(j, place, out)]

SpawnFetched(w) ==
    /\ fetched[w] # NoJob
    /\ StartTask(w, fetched[w], "beat", "none")
    /\ fetched' = [fetched EXCEPT ![w] = NoJob]
    /\ UNCHANGED <<redis, up, sweep, died, budgets>>

-----------------------------------------------------------------------------
(* The sweep of reclaim.py and the loop that spawns what it claimed.        *)

Pending == {j \in Jobs : stream[j] = "pending"}

\* XPENDING. Entries younger than min_idle are left alone; delivery counts are
\* those of the snapshot.
SweepPending(w) ==
    /\ w \in up
    /\ sweep[w] = NoSweep
    /\ Pending \cap aged # {}
    /\ sweep' = [sweep EXCEPT ![w] =
                  [NoSweep EXCEPT
                     !.todo = Pending \cap aged,
                     !.spent = {j \in Pending \cap aged :
                                    delivered[j] > MaxDeliveries}]]
    /\ UNCHANGED <<redis, up, fetched, task, died, budgets>>

\* Mutant: idleness alone makes an orphan.
OrphanedWhenIdle(j) == TRUE

IsOrphaned(j) == j \notin beat

Checked(sw, j) ==
    IF IsOrphaned(j)
    THEN [sw EXCEPT !.todo = sw.todo \ {j}, !.orphans = sw.orphans \cup {j}]
    ELSE [sw EXCEPT !.todo = sw.todo \ {j}, !.spent = sw.spent \ {j}]

\* EXISTS inflight:<entry>, one entry at a time.
SweepCheck(w, j) ==
    /\ j \in sweep[w].todo
    /\ sweep' = [sweep EXCEPT ![w] = Checked(sweep[w], j)]
    /\ UNCHANGED <<redis, up, fetched, task, died, budgets>>

\* Mutant: XCLAIM without min_idle.
ClaimableAtOnce(w) ==
    {j \in sweep[w].orphans : j \in Pending /\ delivered[j] < DeliveryCap}

\* Mutant: entries over the delivery limit are left where they are.
ClaimableUnspent(w) ==
    {j \in sweep[w].orphans \ sweep[w].spent :
        j \in Pending /\ j \in aged /\ delivered[j] < DeliveryCap}

\* XCLAIM min_idle: an entry acknowledged or delivered again since the snapshot
\* is not returned; the others are delivered once more and are idle no longer.
Claimable(w) ==
    {j \in sweep[w].orphans : j \in Pending /\ j \in aged
                              /\ delivered[j] < DeliveryCap}

SweepClaim(w) ==
    /\ sweep[w].todo = {} /\ sweep[w].orphans # {}
    /\ LET mine == Claimable(w)
       IN  /\ delivered' = [j \in Jobs |-> IF j \in mine THEN delivered[j] + 1
                                                         ELSE delivered[j]]
           /\ aged' = aged \ mine
           /\ sweep' = [sweep EXCEPT ![w] =
                         [NoSweep EXCEPT !.reclaimed = mine \ sweep[w].spent,
                                         !.abandoned = mine \cap sweep[w].spent]]
    /\ UNCHANGED <<stream, beat, journal, status, history, dlq, notified, slot,
                   up, fetched, task, died, budgets>>

Spawned(sw, j) == [sw EXCEPT !.reclaimed = sw.reclaimed \ {j},
                             !.abandoned = sw.abandoned \ {j}]

SpawnReclaimed(w, j) ==
    /\ j \in sweep[w].reclaimed
    /\ StartTask(w, j, "beat", "none")
    /\ sweep' = [sweep EXCEPT ![w] = Spawned(sweep[w], j)]
    /\ UNCHANGED <<redis, up, fetched, died, budgets>>

\* _abandon writes no heartbeat and looks at no status: it closes the journal
\* and writes the dead letter.
SpawnAbandoned(w, j) ==
    /\ sweep[w].reclaimed = {} /\ j \in sweep[w].abandoned
    /\ StartTask(w, j, "finish", "JOB_ABANDONED")
    /\ sweep' = [sweep EXCEPT ![w] = Spawned(sweep[w], j)]
    /\ UNCHANGED <<redis, up, fetched, died, budgets>>

Sweeping(w) == \/ SweepPending(w)
               \/ SweepClaim(w)
               \/ \E j \in Jobs : \/ SweepCheck(w, j)
                                  \/ SpawnReclaimed(w, j)
                                  \/ SpawnAbandoned(w, j)

-----------------------------------------------------------------------------
(* The handler: _handle, _abandon, _dead_letter and _deliver.               *)

At(s, place) == task[s].pc = place
Goto(s, place) == task' = [task EXCEPT ![s] = [@ EXCEPT !.pc = place]]
GotoWith(s, place, out) ==
    task' = [task EXCEPT ![s] = [@ EXCEPT !.pc = place, !.out = out]]
End(s) == task' = [task EXCEPT ![s] = IdleTask]

\* Heartbeat.keep: the first beat, and the refresher task starts.
Beat(s) ==
    /\ At(s, "beat")
    /\ beat' = beat \cup {task[s].job}
    /\ task' = [task EXCEPT ![s] = [@ EXCEPT !.pc = "check", !.beating = TRUE]]
    /\ UNCHANGED <<stream, delivered, aged, journal, status, history, dlq,
                   notified, slot, up, fetched, sweep, died, budgets>>

ReplayOf(st) == IF st = "done" THEN "replay done" ELSE "replay manual"

\* Mutant: the status is not looked at.
CheckNothing(s) ==
    /\ At(s, "check")
    /\ Goto(s, "load")
    /\ UNCHANGED <<redis, up, fetched, sweep, died, budgets>>

\* load_status: a scan with a terminal outcome is not processed again.
Check(s) ==
    /\ At(s, "check")
    /\ IF status[task[s].job] \in Terminal
       THEN GotoWith(s, "publish", ReplayOf(status[task[s].job]))
       ELSE Goto(s, "load")
    /\ UNCHANGED <<redis, up, fetched, sweep, died, budgets>>

\* Mutant: the limit is off by one.
CrashedTooOften(attempt) == attempt.stage = "risky" /\ attempt.attempt > MaxCrashes

CrashedOnContent(attempt) ==
    /\ attempt.stage = "risky"
    /\ attempt.attempt >= MaxCrashes

\* journal.load: an unfinished attempt that stopped inside a risky stage closes
\* the scan, any other one is repeated.
Load(s) ==
    /\ At(s, "load")
    /\ LET previous == journal[task[s].job]
       IN  IF CrashedOnContent(previous)
           THEN GotoWith(s, "finish", "PARSER_CRASH")
           ELSE task' = [task EXCEPT ![s] =
                           [@ EXCEPT !.pc = "begin",
                                     !.attempt = previous.attempt + 1]]
    /\ UNCHANGED <<redis, up, fetched, sweep, died, budgets>>

Journal(s, stage) ==
    journal' = [journal EXCEPT ![task[s].job] =
                  [attempt |-> task[s].attempt, stage |-> stage]]

Begin(s) ==
    /\ At(s, "begin")
    /\ Journal(s, "fetch")
    /\ Goto(s, "fetch")
    /\ UNCHANGED <<stream, delivered, aged, beat, status, history, dlq,
                   notified, slot, up, fetched, sweep, died, budgets>>

\* The mark is written before each stage that hands the file to C code.
Mark(s) ==
    /\ At(s, "fetch") \/ At(s, "parse")
    /\ Journal(s, "risky")
    /\ Goto(s, "parse")
    /\ UNCHANGED <<stream, delivered, aged, beat, status, history, dlq,
                   notified, slot, up, fetched, sweep, died, budgets>>

\* The pipeline returns or raises. Before any risky stage the file can only be
\* fetched and its cached facts reused. A file that kills the parser never
\* gets past it; see ParserDies.
PipelineEnds(s, out) ==
    /\ \/ At(s, "fetch") /\ out \in {"done", "infra", "SCAN_FAILED"}
       \/ /\ At(s, "parse")
          /\ task[s].job \notin Poison
          /\ out \in {"done", "failed", "infra", "SCAN_FAILED"}
    /\ GotoWith(s, "finish", out)
    /\ UNCHANGED <<redis, up, fetched, sweep, died, budgets>>

\* Mutants: an infrastructure failure is acknowledged; the outcome is not
\* recorded.
AfterFinishAck(out) ==
    IF out \in Reasons THEN "dlq" ELSE IF out = "infra" THEN "ack" ELSE "record"
AfterFinishUnrecorded(out) ==
    IF out \in Reasons THEN "dlq" ELSE IF out = "infra" THEN "clear" ELSE "publish"

AfterFinish(out) ==
    IF out \in Reasons THEN "dlq" ELSE IF out = "infra" THEN "clear" ELSE "record"

\* journal.finish, on every way out of an attempt that ends in Python.
Finish(s) ==
    /\ At(s, "finish")
    /\ journal' = [journal EXCEPT ![task[s].job] = NoAttempt]
    /\ Goto(s, AfterFinish(task[s].out))
    /\ UNCHANGED <<stream, delivered, aged, beat, status, history, dlq,
                   notified, slot, up, fetched, sweep, died, budgets>>

DeadLetter(s) ==
    /\ At(s, "dlq")
    /\ dlq' = [dlq EXCEPT ![task[s].job] = @ \cup {task[s].out}]
    /\ Goto(s, "record")
    /\ UNCHANGED <<stream, delivered, aged, beat, journal, status, history,
                   notified, slot, up, fetched, sweep, died, budgets>>

\* The status an outcome is published with: a dead letter waits for a human.
StatusOf(out) == CASE out \in {"done", "replay done"} -> "done"
                   [] out = "failed" -> "failed"
                   [] OTHER -> "manual"

Replays(out) == out \in {"replay done", "replay manual"}

\* _record_history: the outcome goes to the history before anybody can see it.
Record(s) ==
    /\ At(s, "record")
    /\ history' = [history EXCEPT ![task[s].job] = @ \cup {StatusOf(task[s].out)}]
    /\ Goto(s, "publish")
    /\ UNCHANGED <<stream, delivered, aged, beat, journal, status, dlq,
                   notified, slot, up, fetched, sweep, died, budgets>>

AfterPublish(out) == IF Replays(out) THEN "notify" ELSE "settle"

\* results.publish: SET status:<scan>, and a pub/sub signal that leaves nothing
\* behind. The TTL of the key is not modelled.
PublishStatus(s) ==
    /\ At(s, "publish")
    /\ status' = [status EXCEPT ![task[s].job] = StatusOf(task[s].out)]
    /\ Goto(s, AfterPublish(task[s].out))
    /\ UNCHANGED <<stream, delivered, aged, beat, journal, history, dlq,
                   notified, slot, up, fetched, sweep, died, budgets>>

\* _store_cache, _maybe_enqueue_deep and shadow.record: Redis writes of other
\* components; here only that the coroutine may be stopped among them.
Settle(s) ==
    /\ At(s, "settle")
    /\ Goto(s, "release")
    /\ UNCHANGED <<redis, up, fetched, sweep, died, budgets>>

\* concurrency.release
ReleaseSlot(s) ==
    /\ At(s, "release")
    /\ slot' = slot \ {task[s].job}
    /\ Goto(s, "notify")
    /\ UNCHANGED <<stream, delivered, aged, beat, journal, status, history,
                   dlq, notified, up, fetched, sweep, died, budgets>>

\* Every path but a finished scan acknowledges inside the `async with`.
AcksInsideKeep(out) == out \notin {"done", "failed"}

\* _enqueue_callback and _enqueue_delivery.
Notify(s) ==
    /\ At(s, "notify")
    /\ notified' = notified \cup {task[s].job}
    /\ Goto(s, IF AcksInsideKeep(task[s].out) THEN "ack" ELSE "clear")
    /\ UNCHANGED <<stream, delivered, aged, beat, journal, status, history,
                   dlq, slot, up, fetched, sweep, died, budgets>>

\* The `finally` of keep: the refresher is cancelled and the key deleted,
\* whoever wrote it.
Clear(s) ==
    /\ At(s, "clear")
    /\ beat' = beat \ {task[s].job}
    /\ IF AcksInsideKeep(task[s].out)
       THEN End(s)
       ELSE task' = [task EXCEPT ![s] = [@ EXCEPT !.pc = "ack", !.beating = FALSE]]
    /\ UNCHANGED <<stream, delivered, aged, journal, status, history, dlq,
                   notified, slot, up, fetched, sweep, died, budgets>>

\* XACK. _abandon and a finished scan have nothing left to do.
Ack(s) ==
    /\ At(s, "ack")
    /\ stream' = [stream EXCEPT ![task[s].job] = "acked"]
    /\ IF AcksInsideKeep(task[s].out) /\ task[s].out # "JOB_ABANDONED"
       THEN Goto(s, "clear")
       ELSE End(s)
    /\ UNCHANGED <<delivered, aged, beat, journal, status, history, dlq,
                   notified, slot, up, fetched, sweep, died, budgets>>

HandlerStep(s) ==
    \/ Beat(s) \/ Check(s) \/ Load(s) \/ Begin(s) \/ Mark(s)
    \/ \E out \in Outcomes : PipelineEnds(s, out)
    \/ Finish(s) \/ DeadLetter(s) \/ Record(s) \/ PublishStatus(s) \/ Settle(s)
    \/ ReleaseSlot(s) \/ Notify(s) \/ Clear(s) \/ Ack(s)

-----------------------------------------------------------------------------
(* What goes wrong.                                                        *)

\* Inside the `async with` of keep, whose `finally` clears the heartbeat.
InKeep(s) ==
    /\ task[s].pc \notin {"idle", "beat", "clear"}
    /\ task[s].out # "JOB_ABANDONED"
    /\ At(s, "ack") => AcksInsideKeep(task[s].out)

\* A Redis command of the handler raises. History, callback and delivery
\* swallow the exception and go on, and a mark that cannot be written ends the
\* pipeline as an infrastructure failure; anywhere else the exception leaves the
\* handler, whose `finally` clears the heartbeat, and the entry stays pending.
CommandFails(s) ==
    /\ faults < FaultBudget
    /\ faults' = faults + 1
    /\ \/ At(s, "record") /\ Goto(s, "publish")
       \/ /\ At(s, "notify")
          /\ Goto(s, IF AcksInsideKeep(task[s].out) THEN "ack" ELSE "clear")
       \/ (At(s, "fetch") \/ At(s, "parse")) /\ GotoWith(s, "finish", "infra")
       \/ /\ task[s].pc \notin {"idle", "fetch", "parse", "record", "notify"}
          /\ IF InKeep(s) THEN GotoWith(s, "clear", "infra") ELSE End(s)
    /\ UNCHANGED <<redis, up, fetched, sweep, died, crashes, lapses>>

\* An attempt whose mark may stand at a risky stage: the file is in C code, or
\* has left it and the mark is not deleted yet.
AttemptIsOpen(s) ==
    \/ At(s, "parse")
    \/ At(s, "finish") /\ task[s].out \notin {"PARSER_CRASH", "JOB_ABANDONED"}

\* The process dies with everything it held in memory.
Die(w) ==
    /\ up' = up \ {w}
    /\ fetched' = [fetched EXCEPT ![w] = NoJob]
    /\ sweep' = [sweep EXCEPT ![w] = NoSweep]
    /\ task' = [s \in Slots |-> IF s[1] = w THEN IdleTask ELSE task[s]]
    /\ died' = [j \in Jobs |->
                  died[j] + Cardinality({s \in Slots : /\ s[1] = w
                                                       /\ AttemptIsOpen(s)
                                                       /\ task[s].job = j})]

\* OOM-kill, eviction, node failure.
Crash(w) ==
    /\ w \in up
    /\ crashes < CrashBudget
    /\ crashes' = crashes + 1
    /\ Die(w)
    /\ UNCHANGED <<redis, faults, lapses>>

\* The file takes the process down from inside C code.
ParserDies(s) ==
    /\ At(s, "parse")
    /\ task[s].job \in Poison
    /\ Die(s[1])
    /\ UNCHANGED <<redis, budgets>>

Restart(w) ==
    /\ w \notin up
    /\ up' = up \cup {w}
    /\ UNCHANGED <<redis, fetched, sweep, task, died, budgets>>

\* The refresher task ends at the first exception of its own `beat`.
RefresherDies(s) ==
    /\ task[s].beating
    /\ lapses < LapseBudget
    /\ lapses' = lapses + 1
    /\ task' = [task EXCEPT ![s] = [@ EXCEPT !.beating = FALSE]]
    /\ UNCHANGED <<redis, up, fetched, sweep, died, crashes, faults>>

\* The refresher writes the key again, also after somebody else deleted it.
Refresh(s) ==
    /\ task[s].beating
    /\ task[s].job \notin beat
    /\ beat' = beat \cup {task[s].job}
    /\ UNCHANGED <<stream, delivered, aged, journal, status, history, dlq,
                   notified, slot, processes, died, budgets>>

\* The key runs out of its TTL when nobody refreshes it.
BeatExpires(j) ==
    /\ j \in beat
    /\ ~\E s \in Slots : task[s].beating /\ task[s].job = j
    /\ beat' = beat \ {j}
    /\ UNCHANGED <<stream, delivered, aged, journal, status, history, dlq,
                   notified, slot, processes, died, budgets>>

\* In the consume loop or in a finished sweep, before the semaphore.
Waits(w, j) == fetched[w] = j \/ j \in sweep[w].reclaimed \cup sweep[w].abandoned

\* Timing assumption: min_idle (30 s) is longer than a sweep, than _abandon, and
\* than the time from a delivery to the first heartbeat when the semaphore has
\* a free slot or is about to have one. Otherwise waiting for a slot takes as
\* long as other scans take.
Prompt(j) ==
    \/ \E w \in Workers :
          \/ j \in sweep[w].todo \cup sweep[w].orphans
          \/ Waits(w, j) /\ \E s \in Slots : s[1] = w /\ task[s].pc \in {"idle", "ack"}
    \/ \E s \in Slots : /\ task[s].job = j
                        /\ At(s, "beat") \/ task[s].out = "JOB_ABANDONED"

\* The entry has been idle for min_idle.
Age(j) ==
    /\ j \in Pending /\ j \notin aged
    /\ ~Prompt(j)
    /\ aged' = aged \cup {j}
    /\ UNCHANGED <<stream, delivered, beat, journal, status, history, dlq,
                   notified, slot, processes, died, budgets>>

Environment ==
    \/ \E w \in Workers : Crash(w) \/ Restart(w)
    \/ \E s \in Slots : \/ CommandFails(s) \/ ParserDies(s)
                        \/ RefresherDies(s) \/ Refresh(s)
    \/ \E j \in Jobs : BeatExpires(j) \/ Age(j)

Next ==
    \/ \E j \in Jobs : Publish(j)
    \/ \E w \in Workers, j \in Jobs : Consume(w, j)
    \/ \E w \in Workers : SpawnFetched(w) \/ Sweeping(w)
    \/ \E s \in Slots : HandlerStep(s)
    \/ Environment

Spec == Init /\ [][Next]_vars

\* A coroutine that can run does, a killed process is started again, the sweep
\* runs on a timer and time passes. Nobody owes the stream a new scan, a crash
\* or a fault.
Fairness ==
    /\ \A w \in Workers : /\ WF_vars(\E j \in Jobs : Consume(w, j))
                          /\ WF_vars(SpawnFetched(w))
                          /\ WF_vars(Sweeping(w))
                          /\ WF_vars(Restart(w))
    /\ \A s \in Slots : WF_vars(HandlerStep(s)) /\ WF_vars(ParserDies(s))
    /\ \A j \in Jobs : WF_vars(BeatExpires(j)) /\ WF_vars(Age(j))

FairSpec == Spec /\ Fairness

-----------------------------------------------------------------------------
(* Properties.                                                             *)

Live(j) == {s \in Slots : task[s].job = j}

\* An acknowledged entry never comes back, so whoever acknowledges it must have
\* left an outcome to read (_handle and _abandon publish before they ack, on
\* every path and whoever owned the entry before).
AckedHasOutcome == \A j \in Jobs : stream[j] = "acked" => status[j] # "none"

\* The client's callback and the upload are queued before the entry is gone,
\* also when the first worker died between publishing and queueing them.
AckedIsNotified == \A j \in Jobs : stream[j] = "acked" => j \in notified

\* What a client can read is in the history already: _deliver records before it
\* publishes, and a replay republishes only what was recorded.
VisibleIsRecorded ==
    \A j \in Jobs : status[j] # "none" => status[j] \in history[j]

\* The parts of an outcome come together whatever dies between the commands of
\* _deliver: record before status, callback and upload before the acknowledgement.
\* A write to the history or to a queue that raises is logged and given up.
OutcomeIsComplete == faults = 0 => AckedIsNotified /\ VisibleIsRecorded

\* A scan that is said to wait for a human is in the dead-letter stream, where
\* the human looks (_dead_letter writes there before _deliver).
ManualHasLetter == \A j \in Jobs : status[j] = "manual" => dlq[j] # {}

\* No refresher of a live handler died, and no scan had to wait for the semaphore,
\* where it has no heartbeat; without either a scan may be handled twice at once.
Calm == /\ lapses = 0
        /\ IsFiniteSet(Jobs) /\ Cardinality(Jobs) <= Concurrency

\* PARSER_CRASH says that a process died in an attempt on the file: a live
\* worker's mark, or an old one, never reads as a crash. (A mark that cannot be
\* deleted does.)
ParserCrashIsReal ==
    Calm /\ faults = 0 =>
        \A j \in Jobs : "PARSER_CRASH" \in dlq[j] => died[j] > 0

\* What failure.py says of max_crashes: so many processes die inside the parsing
\* of a file before it is closed as one that kills its parser.
CrashesAreTolerated ==
    Calm /\ faults = 0 =>
        \A j \in Jobs : "PARSER_CRASH" \in dlq[j] => died[j] >= MaxCrashes

\* No process died inside the parsing of another file, with this one in memory.
OthersAreHarmless(j) == \A i \in Jobs \ {j} : died[i] = 0

\* With max_parser_crashes at its default, a file that kills its parser takes down
\* one process, and at most one more for each kill or fault that hits the closing
\* of the scan. (Above the default an attempt that ends in Python starts the count
\* again.)
KillsAreBounded ==
    Calm /\ MaxCrashes = 1 =>
        \A j \in Poison :
            OthersAreHarmless(j) => died[j] <= MaxCrashes + crashes + faults

\* At most one process parses a file at a time (heartbeat and min_idle).
OneParser ==
    Calm => \A j \in Jobs : Cardinality({s \in Live(j) : At(s, "parse")}) <= 1

\* A file that kills its parser does not keep its slot: when its entry is gone and
\* nobody works on it, its tenant has the slot back ("including refusals", says
\* the comment at the release), as long as nothing else fails on the way.
PoisonSlotIsFreed ==
    Calm /\ crashes = 0 /\ faults = 0 =>
        \A j \in Poison : /\ OthersAreHarmless(j)
                          /\ stream[j] = "acked" /\ Live(j) = {}
                          => j \notin slot

\* The mark of a running handler is in Redis all the time it works, also where
\* another handler of the scan ends meanwhile (Heartbeat.keep).
HeartbeatIsKept == Calm => \A s \in Slots : InKeep(s) => task[s].job \in beat

\* A handler that works is left alone: it keeps its mark, no other process parses
\* its file, and its attempt is not read as a crash.
LiveIsLeftAlone == HeartbeatIsKept /\ OneParser /\ ParserCrashIsReal

\* A file that kills its parser is contained: the processes it takes down are
\* counted, and it does not keep a slot of its tenant.
PoisonIsContained == KillsAreBounded /\ PoisonSlotIsFreed

\* XCLAIM takes an entry only from handlers that are dead or have nothing left
\* to do but to acknowledge it.
TakenFromTheDead ==
    [][\A j \in Jobs : Calm /\ delivered[j] > 0 /\ delivered'[j] > delivered[j]
            => \A s \in Live(j) : At(s, "ack")]_vars

\* A terminal outcome is not replaced, except by a sweep that gives the scan up.
TerminalIsStable ==
    [][\A j \in Jobs : Calm /\ status[j] \in Terminal /\ status'[j] # status[j]
            => \E s \in Live(j) : task[s].out = "JOB_ABANDONED"]_vars

\* Every scan put into the stream is acknowledged, whatever dies on the way.
EveryJobIsClosed == \A j \in Jobs : stream[j] = "new" ~> stream[j] = "acked"

\* The queue keeps the promise of AtLeastOnce: an entry that was added is open
\* until it is acknowledged, and the outcome is the status to be read.
OpenOrClosed(entry) == CASE entry = "absent" -> "absent"
                         [] entry = "acked" -> "closed"
                         [] OTHER -> "open"

Promise == INSTANCE AtLeastOnce WITH
    Outcomes <- Statuses \ {"none"},
    NoOutcome <- "none",
    state <- [j \in Jobs |-> OpenOrClosed(stream[j])],
    outcome <- status

KeepsPromise == Promise!Spec

-----------------------------------------------------------------------------
(* Why AckedHasOutcome and ManualHasLetter hold: whatever is held anywhere *)
(* was delivered, and a handler has at each place what its next step needs.*)

Delivered == {j \in Jobs : stream[j] \in {"pending", "acked"}}

HeldBy(w) == sweep[w].todo \cup sweep[w].orphans \cup sweep[w].reclaimed
             \cup sweep[w].abandoned \cup ({fetched[w]} \ {NoJob})

\* The outcome may be published: it is a verdict, or its dead letter is written.
Publishable(t) ==
    \/ t.out \in {"done", "failed", "replay done"}
    \/ t.out \in Reasons \cup {"replay manual"} /\ dlq[t.job] # {}

PastPublish(t) == \/ t.pc \in {"settle", "release", "notify", "ack"}
                  \/ t.pc = "clear" /\ ~AcksInsideKeep(t.out)

TaskFits(t) ==
    t.pc # "idle" =>
        /\ t.job \in Delivered
        /\ t.pc = "finish" => t.out \in {"done", "failed", "infra"} \cup Reasons
        /\ t.pc \in {"record", "publish"} => Publishable(t)
        /\ PastPublish(t) => status[t.job] # "none"

\* The inductive invariant: no handler acknowledges before it has published, and
\* none publishes "manual" before the dead letter.
Inv == /\ TypeOK
       /\ \A w \in Workers : HeldBy(w) \subseteq Delivered
       /\ \A s \in Slots : TaskFits(task[s])
       /\ AckedHasOutcome
       /\ ManualHasLetter

=============================================================================
