------------------------------ MODULE DialPromise ------------------------------
(***************************************************************************)
(* What a RasDialer promises its callers, with no threads, locks, handles  *)
(* or callbacks: a dial that is accepted gets a line, and comes to exactly *)
(* one end; a caller who gets a connection keeps it, every other caller is *)
(* told so only when the line is down again.                               *)
(***************************************************************************)
CONSTANT Dials

VARIABLES
    status,  \* what the caller of each dial has been told
    line,    \* the line to the remote network
    asked    \* the caller asked to cancel the dial

vars == <<status, line, asked>>

Init ==
    /\ status = [d \in Dials |-> "idle"]
    /\ line = [d \in Dials |-> "none"]
    /\ asked = [d \in Dials |-> FALSE]

Becomes(d, s) == status' = [status EXCEPT ![d] = s] /\ UNCHANGED <<line, asked>>
LineIs(d, s)  == line' = [line EXCEPT ![d] = s] /\ UNCHANGED <<status, asked>>

(* One dial at a time. *)
Accept(d) == /\ status[d] = "idle"
             /\ \A e \in Dials : status[e] # "dialing"
             /\ Becomes(d, "dialing")

(* The call throws, at once or after an attempt that failed to start. *)
Reject(d) == /\ status[d] \in {"idle", "dialing"}
             /\ line[d] # "up"
             /\ Becomes(d, "rejected")

Connect(d) == /\ status[d] = "dialing"
              /\ line[d] \in {"up", "lost"} \/ asked[d]
              /\ Becomes(d, "connected")

Cancel(d) == /\ status[d] = "dialing"
             /\ asked[d] /\ line[d] # "up"
             /\ Becomes(d, "canceled")

Fault(d) == /\ status[d] = "dialing"
            /\ line[d] # "up"
            /\ Becomes(d, "faulted")

Open(d) == /\ status[d] = "dialing"
           /\ line[d] = "none"
           /\ LineIs(d, "up")

(* The dialer hangs up only a dial that has not ended or that its caller   *)
(* asked to cancel.                                                        *)
Cut(d) == /\ line[d] = "up"
          /\ status[d] = "dialing" \/ asked[d]
          /\ LineIs(d, "cut")

Lose(d) == line[d] = "up" /\ LineIs(d, "lost")

Ask(d) == /\ asked' = [asked EXCEPT ![d] = TRUE]
          /\ UNCHANGED <<status, line>>

Next ==
    \E d \in Dials :
        \/ Accept(d) \/ Reject(d)
        \/ Connect(d) \/ Cancel(d) \/ Fault(d)
        \/ Open(d) \/ Cut(d) \/ Lose(d) \/ Ask(d)

(* No dial stays pending for ever. *)
EveryDialEnds == \A d \in Dials : status[d] = "dialing" ~> status[d] # "dialing"

(* What may be told and done; and all of the promise: that it comes to an  *)
(* end, too.                                                               *)
Allowed == Init /\ [][Next]_vars

Spec == Allowed /\ EveryDialEnds
=============================================================================
