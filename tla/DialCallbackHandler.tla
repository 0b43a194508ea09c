-------------------------- MODULE DialCallbackHandler --------------------------
(***************************************************************************)
(* DefaultRasDialCallbackHandler.cs: the one handler a dial service gives  *)
(* to RasDial for every dial, and the ValueWaiter through which it learns  *)
(* the handle that RasDial returns while RAS may already be calling back.  *)
(***************************************************************************)
EXTENDS DialState

(* Defect: the handle of the previous dial stays. *)
ResetForgotten == UNCHANGED waiter

(* ValueWaiter.Reset, as Initialize calls it. *)
ResetWaiter == waiter' = NoDial

(* Defect: keeps the completed callback it was given first. *)
InitializeOldContext(d) ==
    /\ hTask' = current
    /\ hContext' = IF hContext = NoDial THEN d ELSE hContext
    /\ ResetWaiter
    /\ completed' = FALSE

(* Defect: keeps the completion source it was given first. *)
InitializeOldTask(d) ==
    /\ hTask' = IF hTask = NoDial THEN current ELSE hTask
    /\ hContext' = d
    /\ ResetWaiter
    /\ completed' = FALSE

(* Initialize and the Reset it makes.  The completion source and the token *)
(* are the service's fields, the completed callback closes over d.         *)
InitializeHandler(d) ==
    /\ hTask' = current
    /\ hContext' = d
    /\ ResetWaiter
    /\ completed' = FALSE

(* SetHandle, once it has found that no handle is set. *)
SetHandle(d) == waiter' = d

(* Defect: OnCallback does not wait for the handle. *)
WaitNot == TRUE

(* The event WaitForValue waits for is set. *)
WaitOver == waiter # NoDial

-----------------------------------------------------------------------------
(* OnCallback, on the RAS thread of attempt d.  Reads of the handler's     *)
(* fields are not locked: each step below reads them when it runs.         *)

Goes(d, from, to) == cpc[d] = from /\ cpc' = [cpc EXCEPT ![d] = to]

(* RAS calls back with notification m: its thread enters OnCallback        *)
(* (GuardMustBeInitialized holds: Initialize was called before RasDial).   *)
CallbackBegins(d, m) ==
    /\ Goes(d, "idle", "capture")
    /\ msg' = [msg EXCEPT ![d] = m]
    /\ UNCHANGED <<ctok, verdict>>

(* GuardMustNotBeDisposed, then WaitForHandleToBeTransferred reads the     *)
(* token field ...                                                         *)
CaptureToken(d) ==
    /\ Goes(d, "capture", IF HandlerDisposed THEN "escaped" ELSE "wait")
    /\ ctok' = [ctok EXCEPT ![d] = hTask]
    /\ UNCHANGED <<sem, serviceVars, handlerVars, task, handle, eap, tokenVars,
                   attemptVars, pc, kpc, msg, verdict, disposeVars, host>>

(* ... and waits with it: until the handle is set, *)
HandleArrives(d) ==
    /\ Goes(d, "wait", "guards")
    /\ WaitOver
    /\ UNCHANGED <<sem, serviceVars, handlerVars, task, handle, eap, tokenVars,
                   attemptVars, pc, kpc, msg, ctok, verdict, disposeVars, host>>

(* or until the token is cancelled or the event is disposed.  The wait is  *)
(* outside the try block, so its exception leaves OnCallback.              *)
WaitThrows(d) ==
    /\ Goes(d, "wait", "escaped")
    /\ cancelled[ctok[d]] \/ HandlerDisposed
    /\ UNCHANGED <<sem, serviceVars, handlerVars, task, handle, eap, tokenVars,
                   attemptVars, pc, kpc, msg, ctok, verdict, disposeVars, host>>

(* Defect: the error code is not looked at. *)
TokenGuardFails(d) == cancelled[hTask]

(* GuardRequestShouldNotBeCancelled or GuardErrorCodeMustBeZero throws. *)
GuardFails(d) == cancelled[hTask] \/ msg[d] = "error"

(* The token and error guards, then the caller's state-changed callback.   *)
(* A guard that throws goes to the catch block.                            *)
PassGuards(d) ==
    /\ Goes(d, "guards",
            IF GuardFails(d) THEN "hangUp"
            ELSE IF msg[d] = "connected" THEN "connect" ELSE "return")
    /\ UNCHANGED <<sem, serviceVars, handlerVars, task, handle, eap, tokenVars,
                   attemptVars, pc, kpc, msg, ctok, verdict, disposeVars, host>>

(* CreateConnection looks for the handle among the connections RAS lists.  *)
ConnectionExists == waiter # NoDial /\ ras[waiter] = "connected"

(* Defect: the request is not flagged completed. *)
CreateConnectionUnflagged(d) ==
    /\ \/ /\ Goes(d, "connect", "free")
          /\ ConnectionExists
          /\ verdict' = [verdict EXCEPT ![d] = "result"]
       \/ /\ Goes(d, "connect", "hangUp")
          /\ ~ConnectionExists \/ "enum" \in Failures
          /\ UNCHANGED verdict
    /\ UNCHANGED <<sem, serviceVars, hTask, hContext, waiter, completed, task,
                   handle, eap, tokenVars, attemptVars, pc, kpc, msg, ctok,
                   disposeVars, host>>

(* SetConnectionResult: the connection is found and the request flagged    *)
(* completed, or the lookup fails and the catch block runs.                *)
CreateConnection(d) ==
    /\ \/ /\ Goes(d, "connect", "free")
          /\ ConnectionExists
          /\ completed' = TRUE
          /\ verdict' = [verdict EXCEPT ![d] = "result"]
       \/ /\ Goes(d, "connect", "hangUp")
          /\ ~ConnectionExists \/ "enum" \in Failures
          /\ UNCHANGED <<completed, verdict>>
    /\ UNCHANGED <<sem, serviceVars, hTask, hContext, waiter, task, handle, eap,
                   tokenVars, attemptVars, pc, kpc, msg, ctok, disposeVars, host>>

(* RunPostCompleted is RasDialService.OnDialCompletedCallback. *)
CompletedFrees(d) ==
    /\ Goes(d, "free", "notBusy")
    /\ FreeEap(hContext)
    /\ UNCHANGED <<sem, serviceVars, handlerVars, task, handle, tokenVars,
                   attemptVars, pc, kpc, msg, ctok, verdict, disposeVars, host>>

CompletedNotBusy(d) ==
    /\ Goes(d, "notBusy", "settle")
    /\ SetNotBusy
    /\ UNCHANGED <<sem, current, handlerVars, task, handle, eap, tokenVars,
                   attemptVars, pc, kpc, msg, ctok, verdict, disposeVars, host>>

(* SetResult or SetException.  On a task that is already complete both     *)
(* throw: SetResult inside the try block, so that the catch block runs,    *)
(* SetException inside the catch block, so that OnCallback throws.         *)
SettleTask(d) ==
    /\ \/ /\ Goes(d, "settle", "return")
          /\ task[hTask] = "pending"
          /\ task' = [task EXCEPT ![hTask] = verdict[d]]
       \/ /\ Goes(d, "settle", IF verdict[d] = "result" THEN "hangUp" ELSE "escaped")
          /\ task[hTask] # "pending"
          /\ UNCHANGED task
    /\ UNCHANGED <<sem, serviceVars, handlerVars, handle, eap, tokenVars,
                   attemptVars, pc, kpc, msg, ctok, verdict, disposeVars, host>>

(* Defect: the connection is left to itself. *)
HangUpNothing == UNCHANGED ras

(* HangUpConnection. *)
HangUpConnection == HangUp(waiter)

(* The catch block: hang up the handle the waiter holds, flag the request  *)
(* and settle the task with the exception.  UnsafeHangUp throws on a zero  *)
(* handle and when RasHangUp fails, and then OnCallback throws.            *)
CatchHangsUp(d) ==
    /\ \/ /\ Goes(d, "hangUp", "free")
          /\ waiter # NoDial
          /\ HangUpConnection
          /\ completed' = TRUE
          /\ verdict' = [verdict EXCEPT ![d] = "faulted"]
       \/ /\ Goes(d, "hangUp", "escaped")
          /\ waiter = NoDial \/ HangUpMayFail
          /\ UNCHANGED <<ras, completed, verdict>>
    /\ UNCHANGED <<sem, serviceVars, hTask, hContext, waiter, task, handle, eap,
                   tokenVars, notified, pc, kpc, msg, ctok, disposeVars, host>>

(* return !Completed: FALSE tells RAS to make no more calls. *)
CallbackReturns(d) ==
    /\ Goes(d, "return", IF completed THEN "stopped" ELSE "idle")
    /\ UNCHANGED <<sem, serviceVars, handlerVars, task, handle, eap, tokenVars,
                   attemptVars, pc, kpc, msg, ctok, verdict, disposeVars, host>>

CallbackStep(d) ==
    \/ CaptureToken(d)
    \/ HandleArrives(d)
    \/ WaitThrows(d)
    \/ PassGuards(d)
    \/ CreateConnection(d)
    \/ CompletedFrees(d)
    \/ CompletedNotBusy(d)
    \/ SettleTask(d)
    \/ CatchHangsUp(d)
    \/ CallbackReturns(d)
=============================================================================
