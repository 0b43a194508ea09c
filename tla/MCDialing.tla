------------------------------- MODULE MCDialing -------------------------------
(* Instances of Dialing for TLC: the windows in which callers may cancel   *)
(* and the calls that may fail.                                            *)
EXTENDS Dialing, TLC

Early       == {"before"}
During      == {"during"}
Late        == {"late"}
AnyTime     == {"before", "during", "late"}

NoFailure       == {}
StartFailures   == {"build", "dial"}
RasFailures     == {"build", "dial", "enum", "drop"}
AllFailures     == RasFailures \cup {"hangup"}

Symmetric == Permutations(Dials)
=============================================================================
