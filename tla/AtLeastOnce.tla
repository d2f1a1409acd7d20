---------------------------- MODULE AtLeastOnce ----------------------------
(***************************************************************************)
(* What the job queue promises its clients, without workers, deliveries or *)
(* heartbeats: a scan that was accepted stays open until it is closed, it  *)
(* is closed only when there is an outcome to read, and it never opens     *)
(* again. An outcome may be replaced, also after the scan was closed: a    *)
(* redelivered scan publishes again.                                       *)
(***************************************************************************)
CONSTANTS Jobs, Outcomes, NoOutcome

VARIABLES state, outcome
vars == <<state, outcome>>

TypeOK == /\ state \in [Jobs -> {"absent", "open", "closed"}]
          /\ outcome \in [Jobs -> Outcomes \cup {NoOutcome}]

Init == /\ state = [j \in Jobs |-> "absent"]
        /\ outcome = [j \in Jobs |-> NoOutcome]

Accept(j) == /\ state[j] = "absent"
             /\ state' = [state EXCEPT ![j] = "open"]
             /\ UNCHANGED outcome

Answer(j, o) == /\ state[j] # "absent"
                /\ outcome' = [outcome EXCEPT ![j] = o]
                /\ UNCHANGED state

Close(j) == /\ state[j] = "open"
            /\ outcome[j] # NoOutcome
            /\ state' = [state EXCEPT ![j] = "closed"]
            /\ UNCHANGED outcome

Next == \E j \in Jobs : Accept(j) \/ Close(j) \/ \E o \in Outcomes : Answer(j, o)

Spec == Init /\ [][Next]_vars

=============================================================================
