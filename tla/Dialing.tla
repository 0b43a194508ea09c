-------------------------------- MODULE Dialing --------------------------------
(***************************************************************************)
(* A RasDialer at work: the dial service and its callback handler composed *)
(* with the callers that dial and cancel and with the RAS subsystem that   *)
(* calls back.                                                             *)
(***************************************************************************)
EXTENDS RasDialService, FiniteSets

-----------------------------------------------------------------------------
(* The callers.                                                            *)

(* A caller that does not overlap dials waits until the task of the        *)
(* previous one has completed or its call has thrown.                      *)
Over(d)    == pc[d] \in {"idle", "thrown"} \/ (pc[d] = "returned" /\ Settled(d))
MayCall(d) == Overlap \/ \A e \in Dials \ {d} : Over(e)

(* A caller calls DialAsync, on a thread of its own or, with Inline, in a  *)
(* continuation of the task that a cancelling thread has just cancelled.   *)
CallDialAsync(d) ==
    /\ MayCall(d)
    /\ At(d, "idle", "guard")
    /\ \E h \in {NoDial} \cup
               {e \in Dials : Inline /\ kpc[e] = "continue" /\ ~Hosts(e)} :
          host' = [host EXCEPT ![d] = h]
    /\ UNCHANGED <<sem, serviceVars, handlerVars, task, handle, eap, tokenVars,
                   attemptVars, kpc, callbackVars, disposeVars>>

(* When the token of d may be cancelled: before the call has the lock,    *)
(* while the dial is in progress, or after it is over.                     *)
MayCancel(d) ==
    \/ "before" \in CancelWindows /\ pc[d] \in {"guard", "enter"}
    \/ "during" \in CancelWindows /\ pc[d] \notin {"guard", "enter"} /\ ~Over(d)
    \/ "late" \in CancelWindows /\ pc[d] # "idle" /\ Over(d)

(* A caller cancels d's token, which runs the registered callback. *)
CancelToken(d) ==
    /\ MayCancel(d)
    /\ ~cancelled[d] /\ d \notin dead
    /\ cancelled' = [cancelled EXCEPT ![d] = TRUE]
    /\ kpc' = [kpc EXCEPT ![d] = IF d \in registered THEN "check" ELSE @]
    /\ UNCHANGED <<sem, serviceVars, handlerVars, task, handle, eap, registered,
                   dead, attemptVars, pc, callbackVars, disposeVars, host>>

(* Someone disposes the dialer, whatever its other threads are doing. *)
CallDispose ==
    /\ MayDispose
    /\ Disposes("idle", "check")
    /\ UNCHANGED <<sem, serviceVars, handlerVars, task, handle, eap, tokenVars,
                   attemptVars, pc, kpc, callbackVars, xdial, host>>

-----------------------------------------------------------------------------
(* The RAS subsystem.  It calls back for one attempt from one thread, one  *)
(* call at a time, and starts no call after RasHangUp.                     *)

ReportState(d) ==
    /\ ras[d] = "dialing"
    /\ notified[d] < MaxStates
    /\ CallbackBegins(d, "state")
    /\ notified' = [notified EXCEPT ![d] = @ + 1]
    /\ UNCHANGED <<sem, serviceVars, handlerVars, task, handle, eap, tokenVars,
                   ras, pc, kpc, disposeVars, host>>

ReportOutcome(d) ==
    /\ ras[d] = "dialing"
    /\ \/ /\ CallbackBegins(d, "connected")
          /\ ras' = [ras EXCEPT ![d] = "connected"]
       \/ /\ CallbackBegins(d, "error")
          /\ ras' = [ras EXCEPT ![d] = "failed"]
    /\ UNCHANGED <<sem, serviceVars, handlerVars, task, handle, eap, tokenVars,
                   notified, pc, kpc, disposeVars, host>>

(* The remote end drops a connection. *)
Drop(d) ==
    /\ "drop" \in Failures
    /\ ras[d] = "connected"
    /\ ras' = [ras EXCEPT ![d] = "dropped"]
    /\ UNCHANGED <<sem, serviceVars, handlerVars, task, handle, eap, tokenVars,
                   notified, pc, kpc, callbackVars, disposeVars, host>>

-----------------------------------------------------------------------------
(* Nothing is left to do: no thread is inside the dialer and RAS has no    *)
(* attempt to report on.                                                   *)
Quiet ==
    /\ xpc \in {"idle", "done", "threw"}
    /\ \A d \in Dials :
        /\ pc[d] \in {"idle", "returned", "thrown"}
        /\ kpc[d] \in {"idle", "done", "threw"}
        /\ cpc[d] \in {"idle", "stopped", "escaped"}
        /\ ~(cpc[d] = "idle" /\ ras[d] = "dialing")

Rest == Quiet /\ UNCHANGED vars

Environment(d) ==
    \/ CallDialAsync(d)
    \/ CancelToken(d)
    \/ ReportState(d)
    \/ ReportOutcome(d)
    \/ Drop(d)

Next ==
    \/ \E d \in Dials :
          DialStep(d) \/ CancelStep(d) \/ CallbackStep(d) \/ Environment(d)
    \/ DisposeStep \/ CallDispose
    \/ Rest

Spec == Init /\ [][Next]_vars

(* Threads that can run do run, and an attempt comes to an outcome; no     *)
(* caller has to dial or cancel, no state need be reported.  A caller      *)
(* blocked in SyncRoot.Wait is woken once the lock stays free.             *)
Fairness ==
    /\ WF_vars(DisposeStep)
    /\ \A d \in Dials :
        /\ WF_vars(DialStep(d))
        /\ WF_vars(CancelStep(d))
        /\ WF_vars(CallbackStep(d))
        /\ WF_vars(ReportOutcome(d))

FairSpec == Spec /\ Fairness

-----------------------------------------------------------------------------
(* Safety.                                                                 *)

(* SyncRoot is a lock: of all calls of DialAsync and all cancellation      *)
(* callbacks at most one is between its Wait and its Release.              *)
SyncRootIsLock ==
    \A d, e \in Dials :
        /\ pc[d] \in CallerHolds /\ pc[e] \in CallerHolds => d = e
        /\ kpc[d] \in CancelHolds /\ kpc[e] \in CancelHolds => d = e
        /\ ~(pc[d] \in CallerHolds /\ kpc[e] \in CancelHolds)

(* Until the semaphore is disposed permits are neither lost nor made up,   *)
(* whatever fails, except by a DialAsync whose Wait was cancelled: its     *)
(* finally clause releases what it never got.                              *)
PermitsAreAccountedFor ==
    LET permits == sem + Cardinality({d \in Dials : pc[d] \in CallerHolds})
                       + Cardinality({d \in Dials : kpc[d] \in CancelHolds})
        neverEntered == {d \in Dials : pc[d] = "thrown" /\ cancelled[d] /\ d \notin registered}
    IN  ~Disposed => permits \in 1..(1 + Cardinality(neverEntered))

(* The handle handshake: once OnCallback is past its wait, the handler has *)
(* the handle RasDial returned for this very attempt, even when RAS calls  *)
(* back before RasDial has returned and when the handler served other      *)
(* dials before.                                                           *)
HandleIsOurs ==
    \A d \in Dials :
        cpc[d] \in {"guards", "connect", "free", "notBusy", "settle", "hangUp"}
            => waiter = d /\ handle[d]

(* No attempt outlives its dial: once a task is canceled or faulted, or    *)
(* DialAsync has thrown, RAS neither dials nor holds a connection for it.  *)
NoOrphanedAttempt ==
    \A d \in Dials :
        task[d] \in {"canceled", "faulted"} \/ pc[d] = "thrown" => ~Live(d)

(* A DialAsync that throws leaves no attempt of its own behind, whichever  *)
(* step of it failed and whatever the other dial does to the fields.       *)
ThrownLeavesNoAttempt == \A d \in Dials : pc[d] = "thrown" => ~Live(d)

(* A connection given to a caller who did not cancel is not hung up.       *)
ResultStaysConnected ==
    \A d \in Dials :
        task[d] = "result" /\ ~cancelled[d] => ras[d] \in {"connected", "dropped"}

(* While the task of a returned DialAsync is pending, the dialer reports   *)
(* busy until the dial's own outcome or cancellation is being set.         *)
BusyWhilePending ==
    \A d \in Dials :
        pc[d] = "returned" /\ task[d] = "pending" /\ ~busy
            => \/ cpc[d] = "settle"
               \/ kpc[d] \in {"inspect", "setCanceled"}

(* The dialer is not busy when all its dials are over, unless one of them  *)
(* was cancelled before it came to RasDial: BeginDial leaves the flag set  *)
(* at line 133, and a cancellation callback that ran too early to see the  *)
(* flag does not reset it either.                                          *)
IdleIsNotBusy ==
    Quiet /\ (\A d \in Dials : Over(d))
        => ~busy \/ \E d \in Dials : cancelled[d] /\ ras[d] = "none"

(* The EAP buffer of a dial is freed at most once unless the dial is       *)
(* cancelled (the cancelling thread and OnCallback may then both free it), *)
(* and has been freed when the task of an attempt completes; one that is   *)
(* left when all is quiet belongs to a dial whose attempt never began or   *)
(* that threw.                                                             *)
EapFreedOnce ==
    /\ \A d \in Dials :
        /\ eap[d] = "freedTwice" => cancelled[d]
        /\ task[d] \in {"result", "faulted"} => eap[d] # "allocated"
    /\ Quiet => \A d \in Dials :
        eap[d] = "allocated" => pc[d] = "thrown" \/ ras[d] = "none"

(* A task is canceled only if the token given for that dial was cancelled. *)
CanceledByOwnToken ==
    \A d \in Dials : task[d] = "canceled" => cancelled[d]

(* An attempt that Dispose cancels is ended before the dialer is disposed, *)
(* at whatever point of DialAsync, a cancellation or a callback it comes.  *)
DisposeEndsAttempt ==
    \A d \in Dials : Disposed /\ xdial = d => ras[d] # "dialing"

(* No exception leaves OnCallback for the RAS thread that called it. *)
NothingEscapesToRas == \A d \in Dials : cpc[d] # "escaped"

(* OnCallback returns FALSE for the notification that completed its dial,  *)
(* as long as the handler has not been initialized for another dial.       *)
LastCallbackStops ==
    [][\A d \in Dials :
          cpc[d] = "return" /\ msg[d] # "state" /\ hContext = d
              => cpc'[d] # "idle"]_vars

-----------------------------------------------------------------------------
(* The dialer keeps the promise of DialPromise: its tasks, attempts and    *)
(* tokens are that module's status, line and asked.                        *)

StatusOf(d) ==
    IF pc[d] = "thrown" THEN "rejected"
    ELSE CASE task[d] = "none"    -> "idle"
           [] task[d] = "pending" -> "dialing"
           [] task[d] = "result"  -> "connected"
           [] OTHER               -> task[d]

LineOf(d) ==
    CASE ras[d] = "none"    -> "none"
      [] Live(d)            -> "up"
      [] ras[d] = "ended"   -> "cut"
      [] OTHER              -> "lost"

Promise == INSTANCE DialPromise WITH
    status <- [d \in Dials |-> StatusOf(d)],
    line   <- [d \in Dials |-> LineOf(d)],
    asked  <- cancelled

(* Every behaviour of the dialer is one DialPromise allows, and every dial *)
(* it accepts comes to an end.                                             *)
KeepsPromise == Promise!Spec
=============================================================================
