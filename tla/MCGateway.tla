----------------------------- MODULE MCGateway ------------------------------
(***************************************************************************)
(* Gateway for TLC. The requests other than reqA are interchangeable.      *)
(***************************************************************************)
EXTENDS Gateway, TLC

CONSTANTS reqA, reqB, reqC, reqD, tenA, tenB, fileA, fileB

Three == {reqA, reqB, reqC}
Four == {reqA, reqB, reqC, reqD}

OneTenant == [r \in Requests |-> tenA]
TwoTenants == [r \in Requests |-> IF r = reqA THEN tenA ELSE tenB]

OneFile == [r \in Requests |-> fileA]
TwoFiles == [r \in Requests |-> IF r = reqA THEN fileA ELSE fileB]

\* As far as reqA has come by itself: told to come back, its scan queued.
BusyInit ==
    /\ claim = [c \in Contents |-> IF c = fileA THEN reqA ELSE NoScan]
    /\ slots = [t \in Tenants |-> {Slot(reqA, 0)}] /\ aged = {}
    /\ job = [s \in Scans |-> IF s = reqA THEN "queued" ELSE "none"]
    /\ status = {} /\ verdicts = {}
    /\ owner = [s \in Scans |-> IF s = reqA THEN tenA ELSE NoTenant]
    /\ listening = {} /\ mail = {}
    /\ pc = [r \in Requests |-> IF r = reqA THEN "accepted" ELSE "lookup"]
    /\ scan = [r \in Requests |-> IF r = reqA THEN reqA ELSE NoScan]
    /\ reading = [r \in Requests |-> 0]
    /\ clock = 1 /\ lapses = 0
BusySpec == BusyInit /\ [][Next]_vars

Symmetry == Permutations(Requests \ {reqA})

=============================================================================
