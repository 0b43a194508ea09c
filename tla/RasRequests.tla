------------------------------- MODULE RasRequests -------------------------------
(* Threads make requests of RAS, all at the same time, on a machine whose  *)
(* connections, devices and settings change meanwhile.                     *)
EXTENDS RasConnectionRequests, RasGetEapUserData

Call(t) ==
    \/ \E l \in Lists : CallEnumerate(t, l)
    \/ \E c \in Conns : CallHangUp(t, c) \/ CallGetStatus(t, c)
    \/ CallGetEapUserData(t)

(* The caller is done with the result of its request; the EAP data it was  *)
(* given it frees.                                                         *)
Done(t) ==
    /\ pc[t] \in {"returned", "thrown"}
    /\ pc' = [pc EXCEPT ![t] = "idle"]
    /\ IF pc[t] = "returned" /\ HandsOver(t) THEN Free(buf[t]) ELSE UNCHANGED heap
    /\ target' = [target EXCEPT ![t] = NoItem]
    /\ all' = [all EXCEPT ![t] = FALSE] /\ cancelled' = [cancelled EXCEPT ![t] = FALSE]
    /\ count' = [count EXCEPT ![t] = 0]
    /\ slots' = [slots EXCEPT ![t] = {}] /\ made' = [made EXCEPT ![t] = {}]
    /\ buf' = [buf EXCEPT ![t] = 0] /\ size' = [size EXCEPT ![t] = 0]
    /\ thrown' = [thrown EXCEPT ![t] = NoException]
    /\ seen' = [seen EXCEPT ![t] = {}] /\ closed' = [closed EXCEPT ![t] = 0]
    /\ UNCHANGED <<machineVars, calls>>

Step(t) == EnumerationStep(t) \/ HangUpStep(t) \/ GetStatus(t) \/ EapStep(t)

Rest == (\A t \in Threads : pc[t] = "idle") /\ calls = MaxCalls /\ UNCHANGED vars

Next ==
    \/ \E t \in Threads : Call(t) \/ Step(t) \/ Cancels(t) \/ Done(t)
    \/ Machine
    \/ Rest

Spec == Init /\ [][Next]_vars

(* A thread inside the library goes on; nobody has to call or cancel, and  *)
(* the machine need not change.                                            *)
Fairness == \A t \in Threads : WF_vars(Step(t))

FairSpec == Spec /\ Fairness

-----------------------------------------------------------------------------
(* An enumeration threw for an entry it came to.                           *)
BrokeOff(t) ==
    \E list \in seen[t] :
        /\ made[t] \subseteq list
        /\ \E i \in list \ made[t] :
              \/ thrown[t].class = "KeyNotFound" /\ device[i] = "frameRelay"
              \/ /\ thrown[t].class = "InvalidOperation" /\ device[i] = "blank"
                 /\ target[t] = "connections"

(* An enumeration that ends is the list as it was at one moment between    *)
(* the call and the end of its loop: nothing left out, nothing made up,    *)
(* however often connections came and went between its rounds.  One that   *)
(* RAS has answered breaks off only at an entry of such a list whose       *)
(* device has no type or is frame relay.                                   *)
EnumerationIsSnapshot ==
    \A t \in Threads : target[t] \in Lists =>
        /\ pc[t] = "returned" => made[t] \in seen[t]
        /\ pc[t] = "thrown" /\ thrown[t].code \notin Codes => BrokeOff(t)

(* Hanging up with closeAllReferences ends the connection for good, though *)
(* others open references to it meanwhile; without, it takes no reference  *)
(* from others but the one.                                                *)
HangUpKeepsItsWord ==
    \A t \in Threads : target[t] \in Conns /\ pc[t] \in {"sleep", "returned", "thrown"} =>
        /\ pc[t] # "thrown" /\ all[t] => target[t] \notin Up
        /\ ~all[t] => closed[t] <= 1

(* What RAS may answer of a connection that is up of which no status is    *)
(* made: a device of a type that cannot be made, or none, or an endpoint   *)
(* of another kind than the two of IP.                                     *)
UnusableAnswer(c, class) ==
    \/ class = "KeyNotFound" /\ \E m \in Machines : m[c] = "frameRelay"
    \/ class = "ArgumentNull" /\ \E m \in Machines : m[c] = "blank"
    \/ class = "NotSupported" /\ "endpoint" \in Failures

(* A connection that goes away under a request is no error to a hang up,   *)
(* which throws only what RAS refuses it with.  A caller who asks for the  *)
(* status is told of a loss, and of nothing else, by a RasException that   *)
(* says there is no connection, as RasConnection.cs:135 says; any other    *)
(* exception is about an answer no status can be made of, and he is given  *)
(* a status only of a connection that is up.                               *)
LossIsTold ==
    [][\A t \in Threads :
          /\ pc[t] \in {"hangUp", "status"} /\ pc'[t] = "thrown" =>
                \/ pc[t] \in Failures /\ thrown'[t].code \in Codes
                \/ /\ pc[t] = "status" /\ target[t] \notin Up
                   /\ thrown'[t] = Exception("RasException", ERROR_NO_CONNECTION)
                \/ /\ pc[t] = "status" /\ target[t] \in Up
                   /\ UnusableAnswer(target[t], thrown'[t].class)
          /\ pc[t] = "status" /\ pc'[t] = "returned" => target[t] \in Up]_vars

(* A live block of EAP data is let go of only by freeing it or by handing  *)
(* it over, unless the data has shrunk to nothing between two calls; and   *)
(* none is freed twice, unless memory ran out between two calls.           *)
BuffersAreOwned ==
    [][/\ \A t \in Threads :
            buf[t] # 0 /\ heap[buf[t]] = "live" /\ buf'[t] # buf[t]
                => heap'[buf[t]] = "freed" \/ size[t] = 0
       /\ \A b \in Blocks :
            heap[b] # "freedTwice" /\ heap'[b] = "freedTwice"
                => \E t \in Threads : thrown[t].class = "OutOfMemory" /\ buf[t] = b]_vars

(* Every request comes to an end. *)
EveryRequestEnds ==
    \A t \in Threads : pc[t] # "idle" ~> pc[t] \in {"returned", "thrown", "idle"}
=============================================================================
