------------------------------ MODULE Notifier ------------------------------
(***************************************************************************)
(* The notifier service: callbacks to clients and files for the clients'   *)
(* storage, each with a Redis stream for new tasks and a sorted set for    *)
(* the retries. Every process runs three loops, one per stream and one for *)
(* the retries of both. The loops of all processes interleave at their     *)
(* awaits; a process may die between two of them.                          *)
(***************************************************************************)
EXTENDS Integers, FiniteSets

CONSTANTS
    Notifiers,    \* processes
    Callbacks,    \* CallbackTasks the workers enqueue
    Deliveries,   \* DeliveryTasks the workers enqueue
    Copies,       \* the deliveries that have a file to upload
    NoTask,       \* "no task"
    MaxAttempts,  \* settings.max_attempts
    CrashBudget,  \* bound: processes that die
    FaultBudget   \* bound: Redis commands that raise

ASSUME TasksAssumption == /\ Callbacks \cap Deliveries = {}
                          /\ NoTask \notin Callbacks \cup Deliveries
                          /\ Copies \subseteq Deliveries
ASSUME AttemptsAssumption == MaxAttempts \in Nat \ {0}
ASSUME BudgetsAssumption == {CrashBudget, FaultBudget} \subseteq Nat
ASSUME NotifiersAssumption == IsFiniteSet(Notifiers)

VARIABLES
    entry,     \* the stream entry of a task: absent, new, pending, acked
    retry,     \* the sorted sets of retries: pairs of a task and its attempt
    due,       \* the members of retry whose time has come
    letters,   \* tasks in the dead-letter stream
    files,     \* deliveries whose file is in the client's storage
    manifests, \* deliveries whose manifest is in the client's storage
    received,  \* callbacks that their client received
    loop,      \* the loops of the processes
    tries,     \* how often a task was attempted
    closed,    \* tasks counted as delivered, rejected or lost
    dropped,   \* tasks that were only in the memory of a loop that ended
    crashes, faults

stores == <<entry, retry, due, letters>>
clients == <<files, manifests, received>>
ghosts == <<tries, closed, dropped>>
budgets == <<crashes, faults>>
vars == <<stores, clients, loop, ghosts, budgets>>

-----------------------------------------------------------------------------
Tasks == Callbacks \cup Deliveries
Item(t, a) == [task |-> t, attempt |-> a]
Items == [task : Tasks, attempt : 0 .. MaxAttempts]
NoItem == Item(NoTask, 0)

Streams == {"callbacks", "deliveries"}
TasksOf(stream) == IF stream = "callbacks" THEN Callbacks ELSE Deliveries

\* One loop for each stream, and one that serves the two sorted sets in turn.
Kinds == Streams \cup {"retries"}
Loops == Notifiers \X Kinds

Places == {"read", "take", "next", "send", "deliver", "file", "manifest",
           "reschedule", "give up", "ack", "stopped"}

\* left: what was read and not yet attempted; turn: the sorted set that the
\* retry loop is at (a stream loop stays at its stream).
LoopStates == [pc : Places, turn : Streams, left : SUBSET Items,
               item : Items \cup {NoItem}]
Fresh(l) == [pc |-> "read", left |-> {}, item |-> NoItem,
             turn |-> IF l[2] = "deliveries" THEN "deliveries" ELSE "callbacks"]

TypeOK ==
    /\ entry \in [Tasks -> {"absent", "new", "pending", "acked"}]
    /\ retry \subseteq Items /\ due \subseteq retry
    /\ letters \subseteq Tasks /\ received \subseteq Callbacks
    /\ manifests \subseteq Deliveries /\ files \subseteq Copies
    /\ loop \in [Loops -> LoopStates]
    /\ tries \in [Tasks -> Nat] /\ closed \subseteq Tasks /\ dropped \subseteq Tasks
    /\ crashes \in Nat /\ faults \in Nat

Init ==
    /\ entry = [t \in Tasks |-> "absent"]
    /\ retry = {} /\ due = {} /\ letters = {}
    /\ files = {} /\ manifests = {} /\ received = {}
    /\ loop = [l \in Loops |-> Fresh(l)]
    /\ tries = [t \in Tasks |-> 0] /\ closed = {} /\ dropped = {}
    /\ crashes = 0 /\ faults = 0

At(l, place) == loop[l].pc = place
Goto(l, place) == loop' = [loop EXCEPT ![l].pc = place]
Retries(l) == l[2] = "retries"

-----------------------------------------------------------------------------
(* Reading tasks.                                                          *)

\* A worker's XADD.
Enqueue(t) ==
    /\ entry[t] = "absent"
    /\ entry' = [entry EXCEPT ![t] = "new"]
    /\ UNCHANGED <<retry, due, letters, clients, loop, ghosts, budgets>>

\* XREADGROUP ">" with count=16: what is new is handed to this process and never
\* to another one; nobody reads the pending list.
ReadStream(l) ==
    LET new == {t \in TasksOf(loop[l].turn) : entry[t] = "new"}
    IN  /\ ~Retries(l) /\ At(l, "read")
        /\ new # {}
        /\ entry' = [t \in Tasks |-> IF t \in new THEN "pending" ELSE entry[t]]
        /\ loop' = [loop EXCEPT ![l].pc = "next",
                                ![l].left = {Item(t, 0) : t \in new}]
        /\ UNCHANGED <<retry, due, letters, clients, ghosts, budgets>>

\* Mutant: the retry loop never comes to the deliveries.
OtherNever(turn) == "callbacks"

Other(turn) == IF turn = "callbacks" THEN "deliveries" ELSE "callbacks"

\* due_retries: ZRANGEBYSCORE.
ReadDue(l) ==
    LET found == {i \in due : i.task \in TasksOf(loop[l].turn)}
    IN  /\ Retries(l) /\ At(l, "read")
        /\ loop' = IF found = {}
                   THEN [loop EXCEPT ![l].turn = Other(loop[l].turn)]
                   ELSE [loop EXCEPT ![l].pc = "take", ![l].left = found]
        /\ UNCHANGED <<stores, clients, ghosts, budgets>>

\* due_retries: ZREM of what was found. Its result is not looked at, so two
\* processes may both go on with the same member.
Take(l) ==
    /\ At(l, "take")
    /\ retry' = retry \ loop[l].left
    /\ due' = due \ loop[l].left
    /\ Goto(l, "next")
    /\ UNCHANGED <<entry, letters, clients, ghosts, budgets>>

\* The next task that was read, or the next read. The retry loop goes to the
\* other sorted set.
NextTask(l) ==
    /\ At(l, "next")
    /\ \/ \E i \in loop[l].left :
             /\ loop' = [loop EXCEPT
                          ![l].pc = IF i.task \in Callbacks THEN "send"
                                    ELSE "deliver",
                          ![l].left = loop[l].left \ {i},
                          ![l].item = i]
             /\ tries' = [tries EXCEPT ![i.task] = @ + 1]
       \/ /\ loop[l].left = {}
          /\ loop' = [loop EXCEPT ![l].pc = "read", ![l].item = NoItem,
                        ![l].turn = IF Retries(l) THEN Other(@) ELSE @]
          /\ UNCHANGED tries
    /\ UNCHANGED <<stores, clients, closed, dropped, budgets>>

-----------------------------------------------------------------------------
(* One attempt.                                                            *)

Task(l) == loop[l].item.task
Attempt(l) == loop[l].item.attempt

\* Back in the loop that made the attempt: a stream entry is acknowledged, a
\* retry has nothing to acknowledge.
Back(l) == IF Retries(l) THEN "next" ELSE "ack"

\* _reschedule and _retry_delivery.
AfterFailure(a) == IF a + 1 >= MaxAttempts THEN "give up" ELSE "reschedule"

Close(l) == closed' = closed \cup {Task(l)}

\* CallbackSender.send: the client may have received what it did not answer in
\* time. A missing key and a final refusal are not retried.
Send(l) ==
    /\ At(l, "send")
    /\ \/ /\ received' = received \cup {Task(l)}
          /\ \/ Goto(l, Back(l)) /\ Close(l)
             \/ Goto(l, AfterFailure(Attempt(l))) /\ UNCHANGED closed
       \/ /\ \/ Goto(l, AfterFailure(Attempt(l)))
             \/ Goto(l, "give up")
          /\ UNCHANGED <<received, closed>>
    /\ UNCHANGED <<stores, files, manifests, tries, dropped, budgets>>

\* Mutant: a manifest without its file.
FirstPutBare(t) == "manifest"

\* _put: the file before the manifest that promises it.
FirstPut(t) == IF t \in Copies THEN "file" ELSE "manifest"

\* _deliver: nobody retries without credentials.
Deliver(l) ==
    /\ At(l, "deliver")
    /\ Goto(l, "give up") \/ Goto(l, FirstPut(Task(l)))
    /\ UNCHANGED <<stores, clients, ghosts, budgets>>

\* An upload that fails may have reached the storage.
PutFile(l) ==
    /\ At(l, "file")
    /\ \/ /\ files' = files \cup {Task(l)}
          /\ Goto(l, "manifest") \/ Goto(l, AfterFailure(Attempt(l)))
       \/ Goto(l, AfterFailure(Attempt(l))) /\ UNCHANGED files
    /\ UNCHANGED <<stores, manifests, received, ghosts, budgets>>

PutManifest(l) ==
    /\ At(l, "manifest")
    /\ \/ /\ manifests' = manifests \cup {Task(l)}
          /\ \/ Goto(l, Back(l)) /\ Close(l)
             \/ Goto(l, AfterFailure(Attempt(l))) /\ UNCHANGED closed
       \/ /\ Goto(l, AfterFailure(Attempt(l)))
          /\ UNCHANGED <<manifests, closed>>
    /\ UNCHANGED <<stores, files, received, tries, dropped, budgets>>

\* Mutant: the retry is not stored.
RescheduleNothing(l) ==
    /\ At(l, "reschedule")
    /\ Goto(l, Back(l))
    /\ UNCHANGED <<stores, clients, ghosts, budgets>>

\* schedule_retry: ZADD. A member that is there already gets the new time.
Reschedule(l) ==
    /\ At(l, "reschedule")
    /\ LET again == Item(Task(l), Attempt(l) + 1)
       IN  retry' = retry \cup {again} /\ due' = due \ {again}
    /\ Goto(l, Back(l))
    /\ UNCHANGED <<entry, letters, clients, ghosts, budgets>>

\* _give_up and _delivery_failed build a DeadLetter; pydantic refuses one that
\* lacks a required field, and the exception is logged and swallowed.
RequiredFields == {"scan_id", "sha256", "reason", "verdict", "source"}
GivenFields == {"scan_id", "sha256", "reason", "detail", "tenant"}

GiveUp(l) ==
    /\ At(l, "give up")
    /\ letters' = IF RequiredFields \subseteq GivenFields
                  THEN letters \cup {Task(l)} ELSE letters
    /\ Close(l)
    /\ Goto(l, Back(l))
    /\ UNCHANGED <<entry, retry, due, clients, tries, dropped, budgets>>

Ack(l) ==
    /\ At(l, "ack")
    /\ entry' = [entry EXCEPT ![Task(l)] = "acked"]
    /\ Goto(l, "next")
    /\ UNCHANGED <<retry, due, letters, clients, ghosts, budgets>>

LoopStep(l) ==
    \/ ReadStream(l) \/ ReadDue(l) \/ Take(l) \/ NextTask(l)
    \/ Send(l) \/ Deliver(l) \/ PutFile(l) \/ PutManifest(l)
    \/ Reschedule(l) \/ GiveUp(l) \/ Ack(l)

-----------------------------------------------------------------------------
(* What goes wrong, and time.                                              *)

\* The tasks that nothing but the memory of a loop knows of: they left the
\* stream or the retries, and what becomes of them is not written yet.
HeldBy(l) ==
    (IF loop[l].pc = "take" THEN {} ELSE {i.task : i \in loop[l].left})
    \cup (IF loop[l].pc \in {"send", "deliver", "file", "manifest",
                              "reschedule", "give up"}
          THEN {Task(l)} ELSE {})

\* The process is started again with nothing in memory.
Die(n) ==
    /\ loop' = [l \in Loops |-> IF l[1] = n THEN Fresh(l) ELSE loop[l]]
    /\ dropped' = dropped \cup UNION {HeldBy(l) : l \in {n} \X Kinds}

Crash(n) ==
    /\ crashes < CrashBudget
    /\ crashes' = crashes + 1
    /\ Die(n)
    /\ UNCHANGED <<stores, clients, tries, closed, faults>>

\* A Redis command raises. In the callback loop that ends the process, in the
\* delivery loop the loop for good, in the retry loop the rest of its batch.
CommandRaises(l) ==
    /\ faults < FaultBudget
    /\ faults' = faults + 1
    /\ loop[l].pc \in {"read", "take", "reschedule", "ack"}
    /\ \/ l[2] = "callbacks" /\ Die(l[1])
       \/ /\ l[2] # "callbacks"
          /\ dropped' = dropped \cup HeldBy(l)
          /\ loop' = [loop EXCEPT ![l] =
                        [Fresh(l) EXCEPT !.pc = IF Retries(l) THEN "read"
                                                ELSE "stopped"]]
    /\ UNCHANGED <<stores, clients, tries, closed, crashes>>

\* The delay of a retry is over.
FallDue(i) ==
    /\ i \in retry \ due
    /\ due' = due \cup {i}
    /\ UNCHANGED <<entry, retry, letters, clients, loop, ghosts, budgets>>

Next ==
    \/ \E t \in Tasks : Enqueue(t)
    \/ \E l \in Loops : LoopStep(l) \/ CommandRaises(l)
    \/ \E n \in Notifiers : Crash(n)
    \/ \E i \in retry : FallDue(i)

Spec == Init /\ [][Next]_vars

\* The loops run, uploads and requests end (boto3 and httpx have timeouts), and
\* time passes.
TimePasses == WF_vars(\E i \in retry : FallDue(i))
TasksFairness == TimePasses /\ \A l \in Loops : WF_vars(LoopStep(l))
FairSpec == Spec /\ TasksFairness

\* The same, but an upload may take as long as it likes.
Uploads(l) == At(l, "file") \/ At(l, "manifest")
SlowStorageSpec ==
    Spec /\ TimePasses /\ \A l \in Loops : WF_vars(LoopStep(l) /\ ~Uploads(l))

-----------------------------------------------------------------------------
(* Properties.                                                             *)

\* The attempts when each of the n processes may take every retry that is
\* scheduled: 1 + n + n^2 + ...
MostTries[k \in Nat] ==
    IF k = 0 THEN 0 ELSE 1 + Cardinality(Notifiers) * MostTries[k - 1]

\* A manifest that announces a file is never in the client's storage without
\* it, whatever is retried, interrupted or done by two processes (_put: first
\* the file, then the manifest).
ManifestHasFile == \A t \in Copies : t \in manifests => t \in files

\* Whatever dies, raises or races, a task is attempted no more often than
\* max_attempts and the number of processes allow (_reschedule, due_retries).
TriesAreBounded == \A t \in Tasks : tries[t] <= MostTries[MaxAttempts]

\* What two processes with the same retries, one of which may die, must keep:
\* types, the order of file and manifest, and the bound on the attempts.
NotifierInv == TypeOK /\ ManifestHasFile /\ TriesAreBounded

\* A task that is not closed is new in its stream, in a loop's hands or among
\* the retries, unless a loop that ended had it in memory: the retry is stored
\* before the acknowledgement, and a member that two processes take is not
\* lost by both.
NothingIsForgotten ==
    \A t \in Tasks \ (closed \cup dropped) :
        \/ entry[t] \in {"absent", "new"}
        \/ \E l \in Loops : t \in HeldBy(l)
        \/ \E i \in retry : i.task = t

\* Every task is closed in the end, unless a loop that ended had it in memory
\* or no process is left to read its stream.
Unread(t) == \A n \in Notifiers : loop[<<n, "deliveries">>].pc = "stopped"
                                  /\ t \in Deliveries
EveryTaskIsClosed ==
    \A t \in Tasks : entry[t] = "new" ~> t \in closed \cup dropped \/ Unread(t)

\* Who gives a callback up leaves it to a human in the dead-letter stream
\* (docs/protocol.md).
GivenUpHasLetter ==
    \A t \in closed : t \in Callbacks \ received => t \in letters

\* A callback whose retry is due is attempted, however long the uploads to the
\* clients' storages take (start: "a loop of its own, not a common one").
DueCallback(t) == \E i \in due : i.task = t
StorageNeverDelaysCallbacks ==
    \A t \in Callbacks : DueCallback(t) ~> ~DueCallback(t)

=============================================================================
