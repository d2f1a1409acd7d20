---------------------------- MODULE MCConsumers ----------------------------
(* The consumers of what the workers leave behind, one for a behaviour: the
   writer of the history, and one notifier with an upload and a callback.
   Both under fairness; what the other one holds stays as it began. *)
EXTENDS HistoryWriter, Notifier

CONSTANTS scanA, scanB, tenW

VARIABLE topic

MCScanOf == [e \in 1 .. EntryCount |-> IF e = 4 THEN scanB ELSE scanA]
MCTenantOf == [s \in Scans |-> tenW]

ConsumersInit == topic \in {"history", "tasks"} /\ WriterInit /\ Init

HistoryStep == topic = "history" /\ WriterNext /\ UNCHANGED <<vars, topic>>
TaskStep == topic = "tasks" /\ Next /\ UNCHANGED <<writerVars, topic>>

(* WriterFairness and TasksFairness, each for its own model. *)
WriterMay(step) == topic = "history" /\ step
TasksMay(step) == topic = "tasks" /\ step

ConsumersSpec ==
  /\ ConsumersInit /\ [][HistoryStep \/ TaskStep]_<<vars, writerVars, topic>>
  /\ WF_writerVars(WriterMay(ReaderStep)) /\ WF_writerVars(WriterMay(Tick))
  /\ \A f \in Flushers : WF_writerVars(WriterMay(Flush(f)))
  /\ WF_writerVars(WriterMay(PoolCloses)) /\ WF_writerVars(WriterMay(Restart))
  /\ WF_vars(TasksMay(\E i \in retry : FallDue(i)))
  /\ \A l \in Loops : WF_vars(TasksMay(LoopStep(l)))
=============================================================================
