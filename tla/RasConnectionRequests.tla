------------------------- MODULE RasConnectionRequests -------------------------
(* What is asked of one connection: RasHangUpService.cs and                *)
(* RasGetConnectStatusService.cs.                                          *)
EXTENDS RasEnumeration

(* A RasConnection is made by an enumeration, which has found the          *)
(* connection up and could make its device.                                *)
MayBeAskedOf(c) == opened[c] > 0 /\ ~Refuses("connections", c)

(* HangUpAsync                                                             *)
CallHangUp(t, c) ==
    /\ Calls(t, "hangUp", "token", c)
    /\ MayBeAskedOf(c)
    /\ \E every \in BOOLEAN : all' = [all EXCEPT ![t] = every]
    /\ UNCHANGED <<machineVars, heap, cancelled, enumVars, eapVars, thrown, seen, closed>>

Cancels(t) ==
    /\ pc[t] \in {"token", "hangUp", "sleep"} /\ ~cancelled[t]
    /\ cancelled' = [cancelled EXCEPT ![t] = TRUE]
    /\ UNCHANGED <<machineVars, heap, calls, pc, target, all, enumVars, eapVars, thrown,
                   seen, closed>>

(* ThrowIfCancellationRequested, before every RasHangUp. *)
CheckToken(t) ==
    /\ \/ ~cancelled[t] /\ At(t, "token", "hangUp") /\ UNCHANGED thrown
       \/ cancelled[t] /\ pc[t] = "token" /\ Throws(t, Exception("OperationCanceled", 0))
    /\ UNCHANGED <<machineVars, heap, calls, target, all, cancelled, enumVars, eapVars,
                   seen, closed>>

(* RAS closes one reference, or knows no such connection; or it refuses.   *)
HangUpReturns(c) ==
    (IF c \in Up THEN {SUCCESS} ELSE {ERROR_NO_CONNECTION})
        \cup (IF "hangUp" \in Failures THEN Codes ELSE {})

(* Defect: a connection that is gone is an error. *)
AnyErrorThrows(ret) == ret # SUCCESS

ShouldThrowExceptionFromReturnCode(ret) == ret \notin {SUCCESS, ERROR_NO_CONNECTION}

(* Defect: does not look at what RAS returned. *)
LoopsForAll(t, ret) == all[t]

(* Defect: all references are closed whether asked for or not. *)
LoopsOnSuccess(t, ret) == ret = SUCCESS

LoopsOn(t, ret) == all[t] /\ ret = SUCCESS

CloseReference(t) ==
    LET c == target[t]
    IN  /\ pc[t] = "hangUp"
        /\ \E ret \in HangUpReturns(c) :
              /\ refs' = [refs EXCEPT ![c] = IF ret = SUCCESS THEN @ - 1 ELSE @]
              /\ closed' = [closed EXCEPT ![t] = IF ret = SUCCESS THEN @ + 1 ELSE @]
              /\ IF ShouldThrowExceptionFromReturnCode(ret)
                    THEN Throws(t, Create(ret))
                    ELSE /\ At(t, "hangUp", IF LoopsOn(t, ret) THEN "token" ELSE "sleep")
                         /\ UNCHANGED thrown
        /\ Witnessed("connections")
        /\ UNCHANGED <<opened, plugged, device, heap, calls, target, all, cancelled,
                       enumVars, eapVars>>

(* Thread.Sleep(1000), in EnsurePortHasBeenReleased. *)
Sleep(t) ==
    /\ At(t, "sleep", "returned")
    /\ UNCHANGED <<machineVars, heap, calls, target, all, cancelled, enumVars, eapVars,
                   thrown, seen, closed>>

HangUpStep(t) == CheckToken(t) \/ CloseReference(t) \/ Sleep(t)

-----------------------------------------------------------------------------
CallGetStatus(t, c) ==
    /\ Calls(t, "status", "status", c)
    /\ MayBeAskedOf(c)
    /\ UNCHANGED <<machineVars, heap, all, cancelled, enumVars, eapVars, thrown, seen,
                   closed>>

(* RAS answers, finds the handle invalid, or refuses.                      *)
StatusReturns(c) ==
    (IF c \in Up THEN {SUCCESS} ELSE {ERROR_INVALID_HANDLE})
        \cup (IF "status" \in Failures THEN Codes ELSE {})

(* The answer has a device type of its own, which need not be the one the  *)
(* connection was listed with, and two endpoints, which may be of a kind   *)
(* the library does not know.                                              *)
ReportedTypes(c) == {m[c] : m \in Machines}
KnownEndpoints   == {TRUE} \cup (IF "endpoint" \in Failures THEN {FALSE} ELSE {})

(* The RasConnectionStatus is made of a device, which may throw or be      *)
(* null; then of two addresses; and its constructor needs a device.        *)
ConversionThrows(type, known) ==
    CASE DeviceFor(type) = "KeyNotFound"              -> "KeyNotFound"
      [] DeviceFor(type) # "KeyNotFound" /\ ~known    -> "NotSupported"
      [] DeviceFor(type) = "null" /\ known            -> "ArgumentNull"
      [] DeviceFor(type) = "device" /\ known          -> "none"

GetStatus(t) ==
    /\ pc[t] = "status"
    /\ \E ret \in StatusReturns(target[t]), type \in ReportedTypes(target[t]),
          known \in KnownEndpoints :
          LET class == ConversionThrows(type, known)
          IN  \/ ret # SUCCESS /\ Throws(t, CreateForStatus(ret))
              \/ ret = SUCCESS /\ class # "none" /\ Throws(t, Exception(class, 0))
              \/ /\ ret = SUCCESS /\ class = "none"
                 /\ At(t, "status", "returned") /\ UNCHANGED thrown
    /\ UNCHANGED <<machineVars, heap, calls, target, all, cancelled, enumVars, eapVars,
                   seen, closed>>
=============================================================================
