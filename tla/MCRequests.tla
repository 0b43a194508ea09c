------------------------------- MODULE MCRequests -------------------------------
(* Instances of RasRequests for TLC.                                       *)
EXTENDS RasRequests, TLC

CONSTANTS c1, c2, p1, t1, t2

(* All devices are of a known type, or none is. *)
Known == [i \in Conns \cup Ports |-> "known"]
SomeMachines == {Known, [Known EXCEPT ![c1] = "blank", ![c2] = "frameRelay",
                               ![p1] = "blank"]}

(* One thread lists and asks for EAP data, the other hangs up and asks for *)
(* a status; one connection may be opened twice.                           *)
Work == [t \in Threads |-> IF t = t1 THEN {"list", "eapData"} ELSE {"hangUp", "status"}]
Bounds == [c \in Conns |-> IF c = c1 THEN 2 ELSE 1]

SomeFailures == {"enum", "hangUp", "status", "endpoint", "query", "alloc"}

(* A port that is in use. *)
SomeCodes == {RASBASE + 33}
=============================================================================
