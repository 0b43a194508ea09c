------------------------------ MODULE MCContainer ------------------------------
(* Instances of Container for TLC.                                         *)
EXTENDS Container, TLC

CONSTANTS a, b, c

(* A singleton that takes a transient that takes a per-scope service. *)
Lifes == a :> "singleton" @@ b :> "transient" @@ c :> "perScope"
Deps  == a :> b @@ b :> c @@ c :> NoType

Symmetric == Permutations(Threads)
=============================================================================
