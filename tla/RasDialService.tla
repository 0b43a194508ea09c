---------------------------- MODULE RasDialService ----------------------------
(***************************************************************************)
(* RasDialService.cs: DialAsync on the caller's thread,                    *)
(* OnCancellationRequestedCallback on the thread that cancels a token, and *)
(* Dispose.                                                                *)
(***************************************************************************)
EXTENDS DialCallbackHandler

(* Defect: the attempt is left to itself. *)
HangUpNever(d) == UNCHANGED ras

(* HangUpIfNecessary: the context has a handle as soon as RasDial has      *)
(* returned one.                                                           *)
HangUpIfNecessary(d) == IF handle[d] THEN HangUp(d) ELSE UNCHANGED ras

At(d, from, to) == pc[d] = from /\ pc' = [pc EXCEPT ![d] = to]

(* GuardMustNotBeDisposed and GuardMustNotAlreadyBeBusy, outside the lock. *)
GuardBusy(d) ==
    /\ At(d, "guard", IF Disposed \/ busy THEN "thrown" ELSE "enter")
    /\ UNCHANGED <<sem, serviceVars, handlerVars, task, handle, eap, tokenVars,
                   attemptVars, kpc, callbackVars, disposeVars, host>>

(* SyncRoot.Wait(context.CancellationToken) takes the lock, *)
Enter(d) ==
    /\ At(d, "enter", "prepare")
    /\ ~cancelled[d] /\ ~Disposed
    /\ Take
    /\ UNCHANGED <<serviceVars, handlerVars, task, handle, eap, tokenVars,
                   attemptVars, kpc, callbackVars, disposeVars, host>>

(* or throws because the token is cancelled; the Wait is inside the try    *)
(* block whose finally clause calls Release.                               *)
EnterIsCancelled(d) ==
    /\ At(d, "enter", "releaseOnly")
    /\ cancelled[d] /\ ~Disposed
    /\ UNCHANGED <<sem, serviceVars, handlerVars, task, handle, eap, tokenVars,
                   attemptVars, kpc, callbackVars, disposeVars, host>>

(* On a disposed SyncRoot the Wait and then the Release throw (a thread    *)
(* that was blocked there already may also never move again).              *)
EnterIsDisposed(d) ==
    /\ At(d, "enter", "thrown")
    /\ Disposed
    /\ UNCHANGED <<sem, serviceVars, handlerVars, task, handle, eap, tokenVars,
                   attemptVars, kpc, callbackVars, disposeVars, host>>

(* A new completion source, a new linked cancellation source and the       *)
(* callback registered with it.  On a token that is already cancelled the  *)
(* callback runs at once, on this thread.                                  *)
Prepare(d) ==
    /\ \/ /\ At(d, "prepare", "initialize")
          /\ ~cancelled[d]
          /\ UNCHANGED kpc
       \/ /\ At(d, "prepare", "registering")
          /\ cancelled[d]
          /\ kpc' = [kpc EXCEPT ![d] = "check"]
    /\ current' = d
    /\ task' = [task EXCEPT ![d] = "pending"]
    /\ registered' = registered \cup {d}
    /\ UNCHANGED <<sem, busy, handlerVars, handle, eap, cancelled, dead,
                   attemptVars, callbackVars, disposeVars, host>>

RegisterReturns(d) ==
    /\ \/ kpc[d] = "done"  /\ At(d, "registering", "initialize")
       \/ kpc[d] = "threw" /\ At(d, "registering", "releaseThrow")
    /\ UNCHANGED <<sem, serviceVars, handlerVars, task, handle, eap, tokenVars,
                   attemptVars, kpc, callbackVars, disposeVars, host>>

(* Initialize takes the source's Token, and both may have been disposed.   *)
InitializeThrows == current \in dead \/ HandlerDisposed

InitializeCallbackHandler(d) ==
    /\ \/ /\ At(d, "initialize", "setBusy")
          /\ ~InitializeThrows
          /\ InitializeHandler(d)
       \/ /\ At(d, "initialize", "releaseThrow")
          /\ InitializeThrows
          /\ UNCHANGED handlerVars
    /\ UNCHANGED <<sem, serviceVars, task, handle, eap, tokenVars,
                   attemptVars, kpc, callbackVars, disposeVars, host>>

-----------------------------------------------------------------------------
(* BeginDial. *)

(* Defect: the flag is not set. *)
SetBusyForgotten(d) ==
    /\ At(d, "setBusy", "extensions")
    /\ UNCHANGED <<sem, serviceVars, handlerVars, task, handle, eap, tokenVars,
                   attemptVars, kpc, callbackVars, disposeVars, host>>

SetBusy(d) ==
    /\ At(d, "setBusy", "extensions")
    /\ busy' = TRUE
    /\ UNCHANGED <<sem, current, handlerVars, task, handle, eap, tokenVars,
                   attemptVars, kpc, callbackVars, disposeVars, host>>

(* ConvertToRasDialExtensions: the entry has EAP data or not, or the call  *)
(* fails.                                                                  *)
BuildExtensions(d) ==
    /\ \/ /\ At(d, "extensions", "params")
          /\ \E has \in EapData :
                eap' = [eap EXCEPT ![d] = IF has THEN "allocated" ELSE "none"]
       \/ /\ "build" \in Failures
          /\ At(d, "extensions", "catch")
          /\ UNCHANGED eap
    /\ UNCHANGED <<sem, serviceVars, handlerVars, task, handle, tokenVars,
                   attemptVars, kpc, callbackVars, disposeVars, host>>

BuildParams(d) ==
    /\ \/ At(d, "params", "check")
       \/ "build" \in Failures /\ At(d, "params", "catch")
    /\ UNCHANGED <<sem, serviceVars, handlerVars, task, handle, eap, tokenVars,
                   attemptVars, kpc, callbackVars, disposeVars, host>>

(* The last look at the token before the attempt starts; SetCanceled       *)
(* throws on a task that is already complete.                              *)
CheckToken(d) ==
    /\ \/ /\ At(d, "check", "dial")
          /\ ~cancelled[current]
          /\ UNCHANGED task
       \/ /\ At(d, "check", "releaseReturn")
          /\ cancelled[current] /\ task[current] = "pending"
          /\ task' = [task EXCEPT ![current] = "canceled"]
       \/ /\ At(d, "check", "catch")
          /\ cancelled[current] /\ task[current] # "pending"
          /\ UNCHANGED task
    /\ UNCHANGED <<sem, serviceVars, handlerVars, handle, eap, tokenVars,
                   attemptVars, kpc, callbackVars, disposeVars, host>>

(* RasDial starts the attempt: RAS may call back before RasDial returns. *)
RasDialStarts(d) ==
    /\ At(d, "dial", "dialing")
    /\ ras' = [ras EXCEPT ![d] = "dialing"]
    /\ UNCHANGED <<sem, serviceVars, handlerVars, task, handle, eap, tokenVars,
                   notified, kpc, callbackVars, disposeVars, host>>

(* RasDial reports an error, with a handle to hang up or without. *)
RasDialFails(d) ==
    /\ "dial" \in Failures
    /\ At(d, "dial", "catch")
    /\ \/ /\ handle' = [handle EXCEPT ![d] = TRUE]
          /\ ras' = [ras EXCEPT ![d] = "failed"]
       \/ UNCHANGED <<handle, ras>>
    /\ UNCHANGED <<sem, serviceVars, handlerVars, task, eap, tokenVars,
                   notified, kpc, callbackVars, disposeVars, host>>

RasDialReturns(d) ==
    /\ At(d, "dialing", "setHandle")
    /\ handle' = [handle EXCEPT ![d] = TRUE]
    /\ UNCHANGED <<sem, serviceVars, handlerVars, task, eap, tokenVars,
                   attemptVars, kpc, callbackVars, disposeVars, host>>

(* callbackHandler.SetHandle, which throws if a handle is already set. *)
TransferHandle(d) ==
    /\ \/ At(d, "setHandle", "releaseReturn") /\ waiter = NoDial /\ SetHandle(d)
       \/ At(d, "setHandle", "catch") /\ waiter # NoDial /\ UNCHANGED waiter
    /\ UNCHANGED <<sem, serviceVars, hTask, hContext, completed, task, handle,
                   eap, tokenVars, attemptVars, kpc, callbackVars, disposeVars, host>>

(* The catch block: HangUpIfNecessary, which may throw itself, ... *)
CatchHangUp(d) ==
    /\ \/ /\ At(d, "catch", "setNotBusy")
          /\ HangUpIfNecessary(d)
       \/ /\ handle[d] /\ HangUpMayFail
          /\ At(d, "catch", "releaseThrow")
          /\ UNCHANGED ras
    /\ UNCHANGED <<sem, serviceVars, handlerVars, task, handle, eap, tokenVars,
                   notified, kpc, callbackVars, disposeVars, host>>

(* ... SetNotBusy, and the exception goes on to DialAsync's finally. *)
CatchNotBusy(d) ==
    /\ At(d, "setNotBusy", "releaseThrow")
    /\ SetNotBusy
    /\ UNCHANGED <<sem, current, handlerVars, task, handle, eap, tokenVars,
                   attemptVars, kpc, callbackVars, disposeVars, host>>

(* finally { SyncRoot.Release(); }, which throws once it is disposed.      *)
Leave(d) ==
    /\ \/ At(d, "releaseReturn", IF Disposed THEN "thrown" ELSE "returned")
       \/ At(d, "releaseThrow", "thrown")
       \/ At(d, "releaseOnly", "thrown")
    /\ IF Disposed THEN UNCHANGED sem ELSE Release
    /\ UNCHANGED <<serviceVars, handlerVars, task, handle, eap, tokenVars,
                   attemptVars, kpc, callbackVars, disposeVars, host>>

DialStep(d) ==
    \/ GuardBusy(d)
    \/ Enter(d)
    \/ EnterIsCancelled(d)
    \/ EnterIsDisposed(d)
    \/ Prepare(d)
    \/ RegisterReturns(d)
    \/ InitializeCallbackHandler(d)
    \/ SetBusy(d)
    \/ BuildExtensions(d)
    \/ BuildParams(d)
    \/ CheckToken(d)
    \/ RasDialStarts(d)
    \/ RasDialFails(d)
    \/ RasDialReturns(d)
    \/ TransferHandle(d)
    \/ CatchHangUp(d)
    \/ CatchNotBusy(d)
    \/ Leave(d)

-----------------------------------------------------------------------------
(* OnCancellationRequestedCallback for the context of dial d. *)

To(d, from, to) == kpc[d] = from /\ kpc' = [kpc EXCEPT ![d] = to]

(* Defect: the early return is inside the try block with the finally. *)
CancelChecksInTry(d) ==
    /\ To(d, "check", IF busy THEN "enter" ELSE "release")
    /\ UNCHANGED <<sem, serviceVars, handlerVars, task, handle, eap, tokenVars,
                   attemptVars, pc, callbackVars, disposeVars, host>>

(* The early return when the service is not busy, before the lock. *)
CancelChecksBusy(d) ==
    /\ To(d, "check", IF busy THEN "enter" ELSE "done")
    /\ UNCHANGED <<sem, serviceVars, handlerVars, task, handle, eap, tokenVars,
                   attemptVars, pc, callbackVars, disposeVars, host>>

CancelEnters(d) ==
    /\ \/ To(d, "enter", "hangUp") /\ ~Disposed /\ Take
       \/ To(d, "enter", "threw") /\ Disposed /\ UNCHANGED sem
    /\ UNCHANGED <<serviceVars, handlerVars, task, handle, eap, tokenVars,
                   attemptVars, pc, callbackVars, disposeVars, host>>

CancelHangsUp(d) ==
    /\ \/ /\ To(d, "hangUp", "free")
          /\ HangUpIfNecessary(d)
       \/ /\ handle[d] /\ HangUpMayFail
          /\ To(d, "hangUp", "releaseThrow")
          /\ UNCHANGED ras
    /\ UNCHANGED <<sem, serviceVars, handlerVars, task, handle, eap, tokenVars,
                   notified, pc, callbackVars, disposeVars, host>>

(* OnDialCompletedCallback(context). *)
CancelFrees(d) ==
    /\ To(d, "free", "notBusy")
    /\ FreeEap(d)
    /\ UNCHANGED <<sem, serviceVars, handlerVars, task, handle, tokenVars,
                   attemptVars, pc, callbackVars, disposeVars, host>>

CancelNotBusy(d) ==
    /\ To(d, "notBusy", "inspect")
    /\ SetNotBusy
    /\ UNCHANGED <<sem, current, handlerVars, task, handle, eap, tokenVars,
                   attemptVars, pc, callbackVars, disposeVars, host>>

(* Defect: the test is the wrong way round. *)
CancelIfSettled == Settled(current)

CancelIsNecessary == ~Settled(current)

(* CancelCompletionSourceIfNecessary looks at the service's completion     *)
(* source, whichever dial it belongs to, ...                               *)
CancelInspectsTask(d) ==
    /\ To(d, "inspect", IF CancelIsNecessary THEN "setCanceled" ELSE "release")
    /\ UNCHANGED <<sem, serviceVars, handlerVars, task, handle, eap, tokenVars,
                   attemptVars, pc, callbackVars, disposeVars, host>>

(* ... and cancels it; SetCanceled throws if the task has been completed   *)
(* in between.                                                             *)
CancelSetsCanceled(d) ==
    /\ \/ /\ To(d, "setCanceled", "continue")
          /\ task[current] = "pending"
          /\ task' = [task EXCEPT ![current] = "canceled"]
       \/ /\ To(d, "setCanceled", "releaseThrow")
          /\ task[current] # "pending"
          /\ UNCHANGED task
    /\ UNCHANGED <<sem, serviceVars, handlerVars, handle, eap, tokenVars,
                   attemptVars, pc, callbackVars, disposeVars, host>>

(* A call of DialAsync made by a continuation on d's cancelling thread. *)
Hosts(d) == \E e \in Dials : host[e] = d /\ pc[e] \notin {"returned", "thrown"}

(* finally { SyncRoot.Release(); }: SetCanceled has run the continuations  *)
(* of the task on this thread, and they have returned.                     *)
CancelLeaves(d) ==
    /\ ~Hosts(d)
    /\ \/ To(d, "continue", IF Disposed THEN "threw" ELSE "done")
       \/ To(d, "release", IF Disposed THEN "threw" ELSE "done")
       \/ To(d, "releaseThrow", "threw")
    /\ IF Disposed THEN UNCHANGED sem ELSE Release
    /\ UNCHANGED <<serviceVars, handlerVars, task, handle, eap, tokenVars,
                   attemptVars, pc, callbackVars, disposeVars, host>>

CancelStep(d) ==
    \/ CancelChecksBusy(d)
    \/ CancelEnters(d)
    \/ CancelHangsUp(d)
    \/ CancelFrees(d)
    \/ CancelNotBusy(d)
    \/ CancelInspectsTask(d)
    \/ CancelSetsCanceled(d)
    \/ CancelLeaves(d)

-----------------------------------------------------------------------------
(* Dispose. *)

Disposes(from, to) == xpc = from /\ xpc' = to

(* CancelAttemptIfBusy looks at IsBusy ... *)
DisposeChecksBusy ==
    /\ Disposes("check", IF busy THEN "cancel" ELSE "source")
    /\ UNCHANGED <<sem, serviceVars, handlerVars, task, handle, eap, tokenVars,
                   attemptVars, pc, kpc, callbackVars, xdial, host>>

(* ... and cancels the service's cancellation source, which runs the       *)
(* callback on this thread unless the source is cancelled already.         *)
DisposeCancels ==
    /\ \/ /\ Disposes("cancel", "source")
          /\ cancelled[current]
          /\ UNCHANGED <<kpc, xdial>>
       \/ /\ Disposes("cancel", "cancelling")
          /\ ~cancelled[current]
          /\ kpc' = [kpc EXCEPT ![current] = "check"]
          /\ xdial' = current
    /\ cancelled' = [cancelled EXCEPT ![current] = TRUE]
    /\ UNCHANGED <<sem, serviceVars, handlerVars, task, handle, eap, registered,
                   dead, attemptVars, pc, callbackVars, host>>

(* An exception of the callback leaves Dispose. *)
DisposeCancelReturns ==
    /\ \/ Disposes("cancelling", "source") /\ kpc[xdial] = "done"
       \/ Disposes("cancelling", "threw") /\ kpc[xdial] = "threw"
    /\ UNCHANGED <<sem, serviceVars, handlerVars, task, handle, eap, tokenVars,
                   attemptVars, pc, kpc, callbackVars, xdial, host>>

(* CancellationSource?.Dispose(): the linked source follows the caller's   *)
(* token no longer.                                                        *)
DisposeSource ==
    /\ Disposes("source", "handler")
    /\ dead' = dead \cup ({current} \cap Dials)
    /\ registered' = registered \ {current}
    /\ UNCHANGED <<sem, serviceVars, handlerVars, task, handle, eap, cancelled,
                   attemptVars, pc, kpc, callbackVars, xdial, host>>

(* callbackHandler.Dispose(), then the base class disposes SyncRoot and    *)
(* sets the disposed flag.                                                 *)
DisposeRest ==
    /\ Disposes("handler", "base") \/ Disposes("base", "done")
    /\ UNCHANGED <<sem, serviceVars, handlerVars, task, handle, eap, tokenVars,
                   attemptVars, pc, kpc, callbackVars, xdial, host>>

DisposeStep ==
    \/ DisposeChecksBusy
    \/ DisposeCancels
    \/ DisposeCancelReturns
    \/ DisposeSource
    \/ DisposeRest
=============================================================================
