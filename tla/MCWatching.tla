------------------------------- MODULE MCWatching -------------------------------
(* Instances of RasConnectionWatcher for TLC.                              *)
EXTENDS RasConnectionWatcher, TLC

NoFailure    == {}
SomeFailures == {"enum", "create"}
=============================================================================
