----------------------------- MODULE WatcherPromise -----------------------------
(***************************************************************************)
(* What a RasConnectionWatcher tells of the connections of the machine,    *)
(* whoever starts, stops or restarts it and however signals, callbacks and *)
(* calls interleave: of each connection at most once that it came and at   *)
(* most once that it went, in this order, and only when it did.  It does   *)
(* not promise to tell everything, nor by which of its two events.         *)
(***************************************************************************)
EXTENDS Sequences

CONSTANT Conns

VARIABLES
    line,   \* each connection as it is: "never", "up" or "gone"
    told    \* what was told of each, in order

Init ==
    /\ line \in [Conns -> {"never", "up"}]
    /\ told = [c \in Conns |-> <<>>]

Comes(c) ==
    /\ line[c] = "never"
    /\ line' = [line EXCEPT ![c] = "up"]
    /\ UNCHANGED told

Goes(c) ==
    /\ line[c] = "up"
    /\ line' = [line EXCEPT ![c] = "gone"]
    /\ UNCHANGED told

TellCame(c) ==
    /\ line[c] # "never" /\ told[c] = <<>>
    /\ told' = [told EXCEPT ![c] = <<"came">>]
    /\ UNCHANGED line

TellWent(c) ==
    /\ line[c] = "gone" /\ told[c] \in {<<>>, <<"came">>}
    /\ told' = [told EXCEPT ![c] = Append(@, "went")]
    /\ UNCHANGED line

Next == \E c \in Conns : Comes(c) \/ Goes(c) \/ TellCame(c) \/ TellWent(c)

Spec == Init /\ [][Next]_<<line, told>>
=============================================================================
