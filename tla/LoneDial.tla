------------------------------- MODULE LoneDial -------------------------------
(***************************************************************************)
(* Theorems about a dialer that makes one dial, which may be cancelled at  *)
(* any time: before it has the lock, in every step of it, by the caller or *)
(* by Dispose, and when it is over.                                        *)
(*                                                                         *)
(* LoneInv holds whatever fails and whenever the dialer is disposed.  It   *)
(* is about the order of things: who is inside SyncRoot, what a dial that  *)
(* is so far can have started, and that a cancellation callback that is    *)
(* done leaves no attempt that is still dialing.  CalmInv adds what the    *)
(* task, the busy flag and the EAP buffer are when nobody disposes the     *)
(* dialer and RasHangUp works.                                             *)
(***************************************************************************)
EXTENDS DialsInTurn

Lone == \A d, e \in Dials : d = e

(* BeginDial has not yet set the busy flag.                                *)
Early == Outside \cup {"registering", "initialize", "setBusy"}

(* The cancellation callback has hung up.                                  *)
HungUp == {"free", "notBusy", "inspect", "setCanceled", "continue", "release"}

LoneLock(d) ==
    /\ pc[d] \in CallerHolds => sem = 0 /\ kpc[d] \notin CancelHolds
    /\ kpc[d] \in CancelHolds => sem = 0
    /\ pc[d] \in Outside => kpc[d] = "idle" /\ d \notin registered
    /\ pc[d] = "releaseOnly" => sem <= 1 /\ cancelled[d]
    /\ sem <= 2
    /\ sem = 2 => pc[d] = "thrown" /\ kpc[d] = "idle" /\ cancelled[d] /\ d \notin registered
    /\ kpc[d] # "idle" => cancelled[d]

LoneOrder(d) ==
    /\ pc[d] \in Early => ~busy /\ xdial = NoDial /\ xpc \notin {"cancel", "cancelling"}
    /\ pc[d] \in (CallerHolds \ Early) \ {"releaseThrow", "releaseReturn"} => busy
    /\ pc[d] \in Early \cup Building => ras[d] = "none" /\ cpc[d] = "idle" /\ ~handle[d]
    /\ pc[d] \notin Outside \cup {"thrown"} \/ d \in registered \/ busy
            \/ kpc[d] # "idle" \/ xpc = "cancel"
          => current = d
    /\ pc[d] \in {"catch", "setNotBusy", "releaseThrow"} => ras[d] # "dialing" /\ cpc[d] = "idle"
    /\ pc[d] = "dial" => kpc[d] # "done"
    /\ ras[d] = "dialing" => busy
    /\ cpc[d] \in Settling => ras[d] # "dialing"
    /\ kpc[d] \in HungUp \cup {"done"} => ras[d] # "dialing"

(* The handle reaches the handler once, when RasDial has returned it.      *)
LoneHandle(d) ==
    /\ waiter = d => pc[d] \in {"releaseReturn", "returned", "thrown"} /\ handle[d]
    /\ pc[d] = "setHandle" => handle[d]
    /\ ras[d] = "dialing" /\ pc[d] # "dialing" => handle[d]
    /\ cpc[d] \in InTry \ {"capture", "wait"} => waiter = d
    /\ cpc[d] # "idle" => pc[d] \in Calling \cup Returned \cup {"thrown"}

(* Dispose goes on when the callback it ran is done.                       *)
LoneDispose(d) ==
    /\ xpc = "cancelling" => xdial = d
    /\ xdial = d /\ xpc \notin {"cancelling", "threw"} => kpc[d] = "done"

LoneInv ==
    /\ \A d \in Dials : LoneLock(d) /\ LoneOrder(d) /\ LoneHandle(d) /\ LoneDispose(d)
    /\ busy => current \in Dials

LEMMA DialStepLone ==
  ASSUME Lone, TypeOK, LoneInv, NEW d \in Dials, DialStep(d)
  PROVE  LoneInv'
  <1> USE DialAssumption DEF Lone, TypeOK, LoneInv, LoneLock, LoneOrder, LoneHandle, LoneDispose,
        Early, HungUp, Outside, Building, Calling, Returned, InTry, Settling,
        CallerHolds, CancelHolds, CallerPC, CancelPC, Disposed, HandlerDisposed, serviceVars, handlerVars,
        tokenVars, attemptVars, callbackVars, disposeVars, At
  <1>1. CASE GuardBusy(d)
    BY <1>1 DEF GuardBusy
  <1>2. CASE Enter(d)
    BY <1>2 DEF Enter, Take
  <1>3. CASE EnterIsCancelled(d)
    BY <1>3 DEF EnterIsCancelled
  <1>4. CASE EnterIsDisposed(d)
    BY <1>4 DEF EnterIsDisposed
  <1>5. CASE Prepare(d)
    BY <1>5 DEF Prepare
  <1>6. CASE RegisterReturns(d)
    BY <1>6 DEF RegisterReturns
  <1>7. CASE InitializeCallbackHandler(d)
    BY <1>7 DEF InitializeCallbackHandler, InitializeHandler, ResetWaiter, InitializeThrows
  <1>8. CASE SetBusy(d)
    BY <1>8 DEF SetBusy
  <1>9. CASE BuildExtensions(d)
    BY <1>9 DEF BuildExtensions
  <1>10. CASE BuildParams(d)
    BY <1>10 DEF BuildParams
  <1>11. CASE CheckToken(d)
    BY <1>11 DEF CheckToken
  <1>12. CASE RasDialStarts(d)
    BY <1>12 DEF RasDialStarts
  <1>13. CASE RasDialFails(d)
    BY <1>13 DEF RasDialFails
  <1>14. CASE RasDialReturns(d)
    BY <1>14 DEF RasDialReturns
  <1>15. CASE TransferHandle(d)
    BY <1>15 DEF TransferHandle, SetHandle
  <1>16. CASE CatchHangUp(d)
    BY <1>16 DEF CatchHangUp, HangUpIfNecessary, HangUp, Live
  <1>17. CASE CatchNotBusy(d)
    BY <1>17 DEF CatchNotBusy, SetNotBusy
  <1>18. CASE Leave(d)
    BY <1>18 DEF Leave, Release
  <1> QED
    BY <1>1, <1>2, <1>3, <1>4, <1>5, <1>6, <1>7, <1>8, <1>9, <1>10, <1>11,
       <1>12, <1>13, <1>14, <1>15, <1>16, <1>17, <1>18 DEF DialStep

LEMMA CancelStepLone ==
  ASSUME Lone, TypeOK, LoneInv, NEW d \in Dials, CancelStep(d)
  PROVE  LoneInv'
  <1> USE DialAssumption DEF Lone, TypeOK, LoneInv, LoneLock, LoneOrder, LoneHandle, LoneDispose,
        Early, HungUp, Outside, Building, Calling, Returned, InTry, Settling,
        CallerHolds, CancelHolds, CallerPC, CancelPC, Disposed, HandlerDisposed, serviceVars, handlerVars,
        tokenVars, attemptVars, callbackVars, disposeVars, To
  <1>1. CASE CancelChecksBusy(d)
    BY <1>1 DEF CancelChecksBusy
  <1>2. CASE CancelEnters(d)
    BY <1>2 DEF CancelEnters, Take
  <1>3. CASE CancelHangsUp(d)
    BY <1>3 DEF CancelHangsUp, HangUpIfNecessary, HangUp, Live
  <1>4. CASE CancelFrees(d)
    BY <1>4 DEF CancelFrees, FreeEap
  <1>5. CASE CancelNotBusy(d)
    BY <1>5 DEF CancelNotBusy, SetNotBusy
  <1>6. CASE CancelInspectsTask(d)
    BY <1>6 DEF CancelInspectsTask, CancelIsNecessary
  <1>7. CASE CancelSetsCanceled(d)
    BY <1>7 DEF CancelSetsCanceled
  <1>8. CASE CancelLeaves(d)
    BY <1>8 DEF CancelLeaves, Release
  <1> QED
    BY <1>1, <1>2, <1>3, <1>4, <1>5, <1>6, <1>7, <1>8 DEF CancelStep

LEMMA CallbackStepLone ==
  ASSUME Lone, TypeOK, LoneInv, NEW d \in Dials, CallbackStep(d)
  PROVE  LoneInv'
  <1> USE DialAssumption DEF Lone, TypeOK, LoneInv, LoneLock, LoneOrder, LoneHandle, LoneDispose,
        Early, HungUp, Outside, Building, Calling, Returned, InTry, Settling,
        CallerHolds, CancelHolds, CallerPC, CancelPC, Disposed, HandlerDisposed, serviceVars, handlerVars,
        tokenVars, attemptVars, callbackVars, disposeVars, Goes
  <1>1. CASE CaptureToken(d)
    BY <1>1 DEF CaptureToken
  <1>2. CASE HandleArrives(d)
    BY <1>2 DEF HandleArrives, WaitOver
  <1>3. CASE WaitThrows(d)
    BY <1>3 DEF WaitThrows
  <1>4. CASE PassGuards(d)
    BY <1>4 DEF PassGuards, GuardFails
  <1>5. CASE CreateConnection(d)
    BY <1>5 DEF CreateConnection, ConnectionExists
  <1>6. CASE CompletedFrees(d)
    BY <1>6 DEF CompletedFrees, FreeEap
  <1>7. CASE CompletedNotBusy(d)
    BY <1>7 DEF CompletedNotBusy, SetNotBusy
  <1>8. CASE SettleTask(d)
    BY <1>8 DEF SettleTask
  <1>9. CASE CatchHangsUp(d)
    BY <1>9 DEF CatchHangsUp, HangUpConnection, HangUp, Live
  <1>10. CASE CallbackReturns(d)
    BY <1>10 DEF CallbackReturns
  <1> QED
    BY <1>1, <1>2, <1>3, <1>4, <1>5, <1>6, <1>7, <1>8, <1>9, <1>10 DEF CallbackStep

LEMMA EnvironmentLone ==
  ASSUME Lone, TypeOK, LoneInv, NEW d \in Dials, Environment(d)
  PROVE  LoneInv'
  <1> USE DialAssumption DEF Lone, TypeOK, LoneInv, LoneLock, LoneOrder, LoneHandle, LoneDispose,
        Early, HungUp, Outside, Building, Calling, Returned, InTry, Settling,
        CallerHolds, CancelHolds, CallerPC, CancelPC, Disposed, HandlerDisposed, serviceVars, handlerVars,
        tokenVars, attemptVars, callbackVars, disposeVars, At, Goes
  <1>1. CASE CallDialAsync(d)
    BY <1>1 DEF CallDialAsync
  <1>2. CASE CancelToken(d)
    BY <1>2 DEF CancelToken, MayCancel, Over
  <1>3. CASE ReportState(d)
    BY <1>3 DEF ReportState, CallbackBegins
  <1>4. CASE ReportOutcome(d)
    BY <1>4 DEF ReportOutcome, CallbackBegins
  <1>5. CASE Drop(d)
    BY <1>5 DEF Drop
  <1> QED
    BY <1>1, <1>2, <1>3, <1>4, <1>5 DEF Environment

LEMMA DisposeLone ==
  ASSUME Lone, TypeOK, LoneInv, DisposeStep \/ CallDispose
  PROVE  LoneInv'
  <1> USE DialAssumption DEF Lone, TypeOK, LoneInv, LoneLock, LoneOrder, LoneHandle, LoneDispose,
        Early, HungUp, Outside, Building, Calling, Returned, InTry, Settling,
        CallerHolds, CancelHolds, CallerPC, CancelPC, Disposed, HandlerDisposed, serviceVars, handlerVars,
        tokenVars, attemptVars, callbackVars, disposeVars, Disposes
  <1>1. CASE DisposeChecksBusy
    BY <1>1 DEF DisposeChecksBusy
  <1>2. CASE DisposeCancels
    BY <1>2 DEF DisposeCancels
  <1>3. CASE DisposeCancelReturns
    BY <1>3 DEF DisposeCancelReturns
  <1>4. CASE DisposeSource
    BY <1>4 DEF DisposeSource
  <1>5. CASE DisposeRest
    BY <1>5 DEF DisposeRest
  <1>6. CASE CallDispose
    BY <1>6 DEF CallDispose
  <1> QED
    BY <1>1, <1>2, <1>3, <1>4, <1>5, <1>6 DEF DisposeStep

-----------------------------------------------------------------------------
Cancelling == {"check", "enter", "hangUp", "free", "notBusy", "inspect", "setCanceled"}

CalmControl(d) ==
    /\ xpc = "idle" /\ dead = {}
    /\ pc[d] \notin Outside \cup {"thrown"} => d \in registered
    /\ d \in registered /\ cancelled[d] => kpc[d] # "idle"
    /\ pc[d] \in Building \cup Calling \cup Returned => hTask = d /\ hContext = d
    /\ pc[d] \in Building => ~completed
    /\ cpc[d] # "idle" => msg[d] # "none"
    /\ cpc[d] = "wait" => ctok[d] = d
    /\ pc[d] \in {"setHandle"} \cup Returned /\ ras[d] # "none" => handle[d]
    /\ pc[d] = "catch" /\ Live(d) => handle[d]
    /\ pc[d] \in {"setNotBusy", "releaseThrow", "thrown"} => ~Live(d)
    /\ pc[d] = "thrown" => cpc[d] = "idle"
    /\ pc[d] \in Calling => ras[d] # "none"
    /\ pc[d] \in {"dial"} \cup Calling => kpc[d] \in {"idle", "check", "enter"}

CalmTask(d) ==
    /\ pc[d] \in Outside => task[d] = "none"
    /\ pc[d] \in CallerHolds \ {"prepare", "releaseReturn"} => task[d] = "pending"
    /\ pc[d] = "thrown" => task[d] \in {"none", "pending", "canceled"}
    /\ kpc[d] # "idle" \/ d \in registered => task[d] # "none"
    /\ pc[d] \in Returned => task[d] # "none"
    /\ pc[d] \in Returned /\ ras[d] = "none" => task[d] = "canceled" /\ cpc[d] = "idle"
    /\ Settled(d) => pc[d] \in Returned \cup {"thrown"}
    /\ task[d] = "canceled" => cancelled[d] /\ ~Live(d)
    /\ task[d] = "faulted" => ~Live(d)
    /\ task[d] = "result" => ras[d] \in {"connected", "dropped"} \/ cancelled[d]
    /\ cpc[d] \in InTry => task[d] \in {"pending", "canceled"}
    /\ kpc[d] \in HungUp \cup {"releaseThrow"} => ~Live(d)
    /\ kpc[d] \in {"continue", "release", "releaseThrow"} => Settled(d)
    /\ cpc[d] \in Settling =>
          \/ verdict[d] = "result" /\ (ras[d] \in {"connected", "dropped"} \/ cancelled[d])
          \/ verdict[d] = "faulted" /\ ~Live(d)

(* A task that is pending has somebody to settle it.                       *)
CalmSettles(d) ==
    /\ pc[d] \in Returned /\ task[d] = "pending" /\ cancelled[d] =>
          kpc[d] \in Cancelling \/ (kpc[d] = "done" /\ ~busy /\ cpc[d] = "settle")
    /\ pc[d] \in Calling \cup Returned /\ task[d] = "pending" /\ ~cancelled[d] =>
          /\ cpc[d] = "idle" => ras[d] = "dialing"
          /\ cpc[d] \in {"capture", "wait", "guards", "return"} /\ msg[d] = "state"
                => ras[d] = "dialing"
          /\ cpc[d] = "return" => msg[d] = "state"
          /\ completed => cpc[d] \in Settling
    /\ cpc[d] \in {"stopped", "escaped"} => Settled(d) \/ cancelled[d]

CalmBusy(d) ==
    /\ pc[d] \in Returned /\ task[d] = "pending" /\ ~busy =>
          cpc[d] = "settle" \/ kpc[d] \in {"inspect", "setCanceled"}
    /\ pc[d] \in {"releaseThrow", "thrown"} => ~busy
    /\ cpc[d] = "settle" => ~busy
    /\ kpc[d] \in {"inspect", "setCanceled"} => ~busy
    /\ Settled(d) /\ busy => ras[d] = "none" /\ cancelled[d]

CalmEap(d) ==
    /\ pc[d] \in Early => eap[d] = "none"
    /\ pc[d] \in CallerHolds \ {"releaseReturn"} => eap[d] \in {"none", "allocated"}
    /\ cpc[d] \in {"notBusy", "settle"} \/ Ended(d) => eap[d] # "allocated"
    /\ kpc[d] \in (HungUp \ {"free"}) \cup {"releaseThrow"} => eap[d] # "allocated"
    /\ task[d] = "canceled" => eap[d] # "allocated" \/ ras[d] = "none" \/ pc[d] = "thrown"
    /\ ~cancelled[d] => eap[d] # "freedTwice"
    /\ ~cancelled[d] /\ eap[d] = "freed" => cpc[d] \in {"notBusy", "settle"} \/ Ended(d)

CalmInv ==
    \A d \in Dials :
        CalmControl(d) /\ CalmTask(d) /\ CalmSettles(d) /\ CalmBusy(d) /\ CalmEap(d)

LEMMA DialStepCalm ==
  ASSUME Lone, "hangup" \notin Failures, TypeOK, LoneInv, CalmInv,
         NEW d \in Dials, DialStep(d)
  PROVE  CalmInv'
  <1> USE DialAssumption DEF Lone, TypeOK, LoneInv, LoneLock, LoneOrder, LoneHandle,
        CalmInv, CalmControl, CalmTask, CalmSettles, CalmBusy, CalmEap, Cancelling,
        Ended, Settled, Live, Early, HungUp, Outside, Building, Calling, Returned,
        InTry, Settling, CallerHolds, CancelHolds, CallerPC, CancelPC, TaskState,
        EapState, AttemptState, Disposed, HandlerDisposed, HangUpMayFail, serviceVars,
        handlerVars, tokenVars, attemptVars, callbackVars, disposeVars, At
  <1>1. CASE GuardBusy(d)
    BY <1>1 DEF GuardBusy
  <1>2. CASE Enter(d)
    BY <1>2 DEF Enter, Take
  <1>3. CASE EnterIsCancelled(d)
    BY <1>3 DEF EnterIsCancelled
  <1>4. CASE EnterIsDisposed(d)
    BY <1>4 DEF EnterIsDisposed
  <1>5. CASE Prepare(d)
    BY <1>5 DEF Prepare
  <1>6. CASE RegisterReturns(d)
    BY <1>6 DEF RegisterReturns
  <1>7. CASE InitializeCallbackHandler(d)
    BY <1>7 DEF InitializeCallbackHandler, InitializeHandler, ResetWaiter, InitializeThrows
  <1>8. CASE SetBusy(d)
    BY <1>8 DEF SetBusy
  <1>9. CASE BuildExtensions(d)
    BY <1>9 DEF BuildExtensions
  <1>10. CASE BuildParams(d)
    BY <1>10 DEF BuildParams
  <1>11. CASE CheckToken(d)
    BY <1>11 DEF CheckToken
  <1>12. CASE RasDialStarts(d)
    BY <1>12 DEF RasDialStarts
  <1>13. CASE RasDialFails(d)
    BY <1>13 DEF RasDialFails
  <1>14. CASE RasDialReturns(d)
    BY <1>14 DEF RasDialReturns
  <1>15. CASE TransferHandle(d)
    BY <1>15 DEF TransferHandle, SetHandle
  <1>16. CASE CatchHangUp(d)
    BY <1>16 DEF CatchHangUp, HangUpIfNecessary, HangUp
  <1>17. CASE CatchNotBusy(d)
    BY <1>17 DEF CatchNotBusy, SetNotBusy
  <1>18. CASE Leave(d)
    BY <1>18 DEF Leave, Release
  <1> QED
    BY <1>1, <1>2, <1>3, <1>4, <1>5, <1>6, <1>7, <1>8, <1>9, <1>10, <1>11,
       <1>12, <1>13, <1>14, <1>15, <1>16, <1>17, <1>18 DEF DialStep

LEMMA CancelStepCalm ==
  ASSUME Lone, "hangup" \notin Failures, TypeOK, LoneInv, CalmInv,
         NEW d \in Dials, CancelStep(d)
  PROVE  CalmInv'
  <1> USE DialAssumption DEF Lone, TypeOK, LoneInv, LoneLock, LoneOrder, LoneHandle,
        CalmInv, CalmControl, CalmTask, CalmSettles, CalmBusy, CalmEap, Cancelling,
        Ended, Settled, Live, Early, HungUp, Outside, Building, Calling, Returned,
        InTry, Settling, CallerHolds, CancelHolds, CallerPC, CancelPC, TaskState,
        EapState, AttemptState, Disposed, HandlerDisposed, HangUpMayFail, serviceVars,
        handlerVars, tokenVars, attemptVars, callbackVars, disposeVars, To
  <1>1. CASE CancelChecksBusy(d)
    BY <1>1 DEF CancelChecksBusy
  <1>2. CASE CancelEnters(d)
    BY <1>2 DEF CancelEnters, Take
  <1>3. CASE CancelHangsUp(d)
    BY <1>3 DEF CancelHangsUp, HangUpIfNecessary, HangUp
  <1>4. CASE CancelFrees(d)
    BY <1>4 DEF CancelFrees, FreeEap
  <1>5. CASE CancelNotBusy(d)
    BY <1>5 DEF CancelNotBusy, SetNotBusy
  <1>6. CASE CancelInspectsTask(d)
    BY <1>6 DEF CancelInspectsTask, CancelIsNecessary
  <1>7. CASE CancelSetsCanceled(d)
    <2>1. CASE task[d] = "pending"
      <3>1. current = d /\ task' = [task EXCEPT ![d] = "canceled"]
        BY <1>7, <2>1 DEF CancelSetsCanceled
      <3> QED
        BY <1>7, <2>1, <3>1 DEF CancelSetsCanceled
    <2>2. CASE task[d] # "pending"
      BY <1>7, <2>2 DEF CancelSetsCanceled
    <2> QED
      BY <2>1, <2>2
  <1>8. CASE CancelLeaves(d)
    BY <1>8 DEF CancelLeaves, Release
  <1> QED
    BY <1>1, <1>2, <1>3, <1>4, <1>5, <1>6, <1>7, <1>8 DEF CancelStep

LEMMA CallbackStepCalm ==
  ASSUME Lone, "hangup" \notin Failures, TypeOK, LoneInv, CalmInv,
         NEW d \in Dials, CallbackStep(d)
  PROVE  CalmInv'
  <1> USE DialAssumption DEF Lone, TypeOK, LoneInv, LoneLock, LoneOrder, LoneHandle,
        CalmInv, CalmControl, CalmTask, CalmSettles, CalmBusy, CalmEap, Cancelling,
        Ended, Settled, Live, Early, HungUp, Outside, Building, Calling, Returned,
        InTry, Settling, CallerHolds, CancelHolds, CallerPC, CancelPC, TaskState,
        EapState, AttemptState, Disposed, HandlerDisposed, HangUpMayFail, serviceVars,
        handlerVars, tokenVars, attemptVars, callbackVars, disposeVars, Goes
  <1>1. CASE CaptureToken(d)
    BY <1>1 DEF CaptureToken
  <1>2. CASE HandleArrives(d)
    BY <1>2 DEF HandleArrives, WaitOver
  <1>3. CASE WaitThrows(d)
    BY <1>3 DEF WaitThrows
  <1>4. CASE PassGuards(d)
    BY <1>4 DEF PassGuards, GuardFails
  <1>5. CASE CreateConnection(d)
    BY <1>5 DEF CreateConnection, ConnectionExists
  <1>6. CASE CompletedFrees(d)
    BY <1>6 DEF CompletedFrees, FreeEap
  <1>7. CASE CompletedNotBusy(d)
    BY <1>7 DEF CompletedNotBusy, SetNotBusy
  <1>8. CASE SettleTask(d)
    BY <1>8 DEF SettleTask
  <1>9. CASE CatchHangsUp(d)
    BY <1>9 DEF CatchHangsUp, HangUpConnection, HangUp
  <1>10. CASE CallbackReturns(d)
    BY <1>10 DEF CallbackReturns
  <1> QED
    BY <1>1, <1>2, <1>3, <1>4, <1>5, <1>6, <1>7, <1>8, <1>9, <1>10 DEF CallbackStep

LEMMA EnvironmentCalm ==
  ASSUME Lone, "hangup" \notin Failures, TypeOK, LoneInv, CalmInv,
         NEW d \in Dials, Environment(d)
  PROVE  CalmInv'
  <1> USE DialAssumption DEF Lone, TypeOK, LoneInv, LoneLock, LoneOrder, LoneHandle,
        CalmInv, CalmControl, CalmTask, CalmSettles, CalmBusy, CalmEap, Cancelling,
        Ended, Settled, Live, Early, HungUp, Outside, Building, Calling, Returned,
        InTry, Settling, CallerHolds, CancelHolds, CallerPC, CancelPC, TaskState,
        EapState, AttemptState, Disposed, HandlerDisposed, HangUpMayFail, serviceVars,
        handlerVars, tokenVars, attemptVars, callbackVars, disposeVars, At, Goes
  <1>1. CASE CallDialAsync(d)
    BY <1>1 DEF CallDialAsync
  <1>2. CASE CancelToken(d)
    BY <1>2 DEF CancelToken, MayCancel, Over
  <1>3. CASE ReportState(d)
    BY <1>3 DEF ReportState, CallbackBegins
  <1>4. CASE ReportOutcome(d)
    BY <1>4 DEF ReportOutcome, CallbackBegins
  <1>5. CASE Drop(d)
    BY <1>5 DEF Drop
  <1> QED
    BY <1>1, <1>2, <1>3, <1>4, <1>5 DEF Environment

LEMMA CalmIsUndisposed ==
  ASSUME ~MayDispose, Dials # {}, CalmInv
  PROVE  ~DisposeStep /\ ~CallDispose
  BY DEF CalmInv, CalmControl, DisposeStep, DisposeChecksBusy, DisposeCancels,
     DisposeCancelReturns, DisposeSource, DisposeRest, CallDispose, Disposes

LEMMA InitLone == Init => LoneInv /\ CalmInv
  BY DialAssumption DEF Init, LoneInv, LoneLock, LoneOrder, LoneHandle, LoneDispose,
     CalmInv, CalmControl, CalmTask, CalmSettles, CalmBusy, CalmEap, Cancelling,
     Ended, Settled, Live, Early, HungUp, Outside, Building, Calling, Returned, InTry,
     Settling, CallerHolds, CancelHolds

LEMMA StutterLone ==
  ASSUME UNCHANGED vars
  PROVE  (LoneInv => LoneInv') /\ (CalmInv => CalmInv')
  BY DEF vars, LoneInv, LoneLock, LoneOrder, LoneHandle, LoneDispose,
     CalmInv, CalmControl, CalmTask, CalmSettles, CalmBusy, CalmEap,
     Ended, Settled, Live, serviceVars, handlerVars, tokenVars, attemptVars,
     callbackVars, disposeVars

LEMMA LoneInvariant ==
  ASSUME Lone
  PROVE  Spec => []LoneInv
  <1>1. TypeOK /\ LoneInv /\ [Next]_vars => LoneInv'
    BY DialStepLone, CancelStepLone, CallbackStepLone, EnvironmentLone, DisposeLone,
       StutterLone DEF Next, Rest
  <1> QED
    BY InitLone, TypeCorrect, <1>1, PTL DEF Spec

LEMMA CalmInvariant ==
  ASSUME Lone, ~MayDispose, "hangup" \notin Failures
  PROVE  Spec => []CalmInv
  <1>1. TypeOK /\ LoneInv /\ CalmInv /\ [Next]_vars => CalmInv'
    <2>1. CASE Dials = {}
      BY <2>1 DEF CalmInv
    <2>2. CASE Dials # {}
      BY <2>2, DialStepCalm, CancelStepCalm, CallbackStepCalm, EnvironmentCalm,
         CalmIsUndisposed, StutterLone DEF Next, Rest
    <2> QED
      BY <2>1, <2>2
  <1> QED
    BY InitLone, TypeCorrect, LoneInvariant, <1>1, PTL DEF Spec

-----------------------------------------------------------------------------
(* SyncRoot is a lock for a lone dial however early its token is           *)
(* cancelled: the permit that is made up then comes when the call throws.  *)
THEOREM LoneSyncRootExcludes ==
  ASSUME Lone
  PROVE  Spec => []SyncRootIsLock
  <1>1. LoneInv => SyncRootIsLock
    BY DEF Lone, LoneInv, LoneLock, SyncRootIsLock
  <1> QED
    BY LoneInvariant, <1>1, PTL

(* The handle handshake stands cancelling and disposing at any moment, and *)
(* every failure: OnCallback works on the handle RasDial returned.         *)
THEOREM LoneHandshakeHolds ==
  ASSUME Lone
  PROVE  Spec => []HandleIsOurs
  <1>1. LoneInv => HandleIsOurs
    BY DEF LoneInv, LoneHandle, HandleIsOurs, InTry
  <1> QED
    BY LoneInvariant, <1>1, PTL

(* An attempt that Dispose cancels, at whatever point of the dial, is no   *)
(* longer dialing when the dialer is disposed, even when RasHangUp fails:  *)
(* then Dispose itself throws.                                             *)
THEOREM DisposeEndsItsAttempt ==
  ASSUME Lone
  PROVE  Spec => []DisposeEndsAttempt
  <1>1. LoneInv => DisposeEndsAttempt
    BY DEF LoneInv, LoneOrder, LoneDispose, DisposeEndsAttempt, Disposed
  <1> QED
    BY LoneInvariant, <1>1, PTL

(* No attempt outlives its dial, whenever that is cancelled.               *)
THEOREM LoneIsNotOrphaned ==
  ASSUME Lone, ~MayDispose, "hangup" \notin Failures
  PROVE  Spec => []NoOrphanedAttempt
  <1>1. CalmInv => NoOrphanedAttempt
    BY DEF CalmInv, CalmControl, CalmTask, NoOrphanedAttempt
  <1> QED
    BY CalmInvariant, <1>1, PTL

(* The dialer is busy until the outcome or the cancellation is being set.  *)
THEOREM LoneBusyWhilePending ==
  ASSUME Lone, ~MayDispose, "hangup" \notin Failures
  PROVE  Spec => []BusyWhilePending
  <1>1. CalmInv => BusyWhilePending
    BY DEF CalmInv, CalmBusy, BusyWhilePending, Returned
  <1> QED
    BY CalmInvariant, <1>1, PTL

(* Only a dial cancelled before RasDial leaves the dialer busy for good.   *)
THEOREM LoneIdleIsNotBusy ==
  ASSUME Lone, ~MayDispose, "hangup" \notin Failures
  PROVE  Spec => []IdleIsNotBusy
  <1>1. LoneInv /\ CalmInv => IdleIsNotBusy
    BY DEF Lone, LoneInv, LoneOrder, CalmInv, CalmBusy, IdleIsNotBusy, Over, Early, Outside
  <1>2. Spec => [](LoneInv /\ CalmInv)
    BY LoneInvariant, CalmInvariant, PTL
  <1> QED
    BY <1>1, <1>2, PTL

(* The EAP buffer is freed; twice only when the dial was cancelled.        *)
THEOREM LoneEapFreedOnce ==
  ASSUME Lone, ~MayDispose, "hangup" \notin Failures
  PROVE  Spec => []EapFreedOnce
  <1>1. TypeOK /\ LoneInv /\ CalmInv => EapFreedOnce
    <2> SUFFICES ASSUME TypeOK, LoneInv, CalmInv, NEW d \in Dials
                 PROVE  /\ eap[d] = "freedTwice" => cancelled[d]
                        /\ task[d] \in {"result", "faulted"} => eap[d] # "allocated"
                        /\ Quiet /\ eap[d] = "allocated" => pc[d] = "thrown" \/ ras[d] = "none"
      BY DEF EapFreedOnce
    <2>1. /\ eap[d] = "freedTwice" => cancelled[d]
          /\ task[d] \in {"result", "faulted"} => eap[d] # "allocated"
      BY DEF CalmInv, CalmEap, Ended
    <2>2. ASSUME Quiet, eap[d] = "allocated", pc[d] # "thrown", ras[d] # "none"
          PROVE  FALSE
      <3>1. /\ pc[d] = "returned" /\ task[d] \in {"pending"}
            /\ kpc[d] \in {"idle", "done", "threw"} /\ cpc[d] \in {"idle", "stopped", "escaped"}
            /\ cpc[d] = "idle" => ras[d] # "dialing"
        BY <2>2 DEF Quiet, CalmInv, CalmEap, CalmTask, Ended, LoneInv, LoneOrder, Early, Outside,
           Returned, TypeOK, TaskState
      <3> QED
        BY <3>1 DEF CalmInv, CalmSettles, Cancelling, Returned, Calling, Settled
    <2> QED
      BY <2>1, <2>2
  <1>2. Spec => [](TypeOK /\ LoneInv /\ CalmInv)
    BY TypeCorrect, LoneInvariant, CalmInvariant, PTL
  <1> QED
    BY <1>1, <1>2, PTL

-----------------------------------------------------------------------------
(* A lone dial keeps DialPromise too: this is where its Cancel, and its    *)
(* Cut of a connection whose caller asked, are taken.                      *)

LEMMA LoneTold ==
  ASSUME Lone, NEW d \in Dials
  PROVE  /\ Status' = [Status EXCEPT ![d] = StatusOf(d)']
         /\ Line' = [Line EXCEPT ![d] = LineOf(d)']
         /\ UNCHANGED <<task[d], ras[d], cancelled>> /\ (pc'[d] = "thrown" <=> pc[d] = "thrown")
               => UNCHANGED Told
  <1>1. \A e \in Dials : e = d
    BY DEF Lone
  <1>2. /\ Status' = [Status EXCEPT ![d] = StatusOf(d)']
        /\ Line' = [Line EXCEPT ![d] = LineOf(d)']
    BY <1>1, StatusBecomes, LineBecomes
  <1>3. ASSUME UNCHANGED <<task[d], ras[d], cancelled>>, pc'[d] = "thrown" <=> pc[d] = "thrown"
        PROVE  UNCHANGED Told
    <2>1. StatusOf(d)' = StatusOf(d) /\ LineOf(d)' = LineOf(d)
      BY <1>3 DEF StatusOf, LineOf, Live
    <2> QED
      BY <1>2, <1>3, <2>1 DEF Told, Status, Line
  <1> QED
    BY <1>2, <1>3

(* A hang up of a dial that is pending or whose caller asked.              *)
LEMMA HangUpTold ==
  ASSUME Lone, TypeOK, NEW d \in Dials, HangUp(d), UNCHANGED <<task, cancelled>>,
         (pc[d] # "thrown" /\ pc'[d] # "thrown") \/ (pc'[d] = pc[d] /\ ~Live(d)),
         task[d] = "pending" \/ cancelled[d]
  PROVE  [Promise!Next]_Told
  <1>1. CASE ~Live(d)
    BY <1>1, LoneTold DEF HangUp, TypeOK
  <1>2. CASE Live(d)
    <2>1. ras'[d] = "ended"
      BY <1>2 DEF HangUp, TypeOK
    <2>2. Line[d] = "up" /\ Line' = [Line EXCEPT ![d] = "cut"]
      BY <1>2, <2>1, LoneTold DEF Line, LineOf, Live
    <2>3. Status' = Status
      <3>1. StatusOf(d)' = StatusOf(d)
        BY <1>2 DEF StatusOf
      <3> QED
        BY <3>1, LoneTold DEF Status
    <2>4. Status[d] = "dialing" \/ cancelled[d]
      BY <1>2 DEF Status, StatusOf
    <2> QED
      BY <2>2, <2>3, <2>4 DEF Promise!Next, Promise!Cut, Promise!LineIs, Status, Line
  <1> QED
    BY <1>1, <1>2

(* A pending task that is canceled by either thread.                       *)
LEMMA CancelTold ==
  ASSUME Lone, TypeOK, NEW d \in Dials,
         task[d] = "pending", task' = [task EXCEPT ![d] = "canceled"],
         cancelled[d], ~Live(d), UNCHANGED <<ras, cancelled>>,
         pc'[d] = "thrown" <=> pc[d] = "thrown"
  PROVE  [Promise!Next]_Told
  <1>1. task'[d] = "canceled"
    BY DEF TypeOK
  <1>2. Line' = Line /\ Line[d] # "up"
    BY LoneTold DEF Line, LineOf, Live
  <1>3. CASE pc[d] = "thrown"
    <2>1. StatusOf(d)' = StatusOf(d)
      BY <1>3 DEF StatusOf
    <2> QED
      BY <1>2, <2>1, LoneTold DEF Told, Status
  <1>4. CASE pc[d] # "thrown"
    <2>1. Status[d] = "dialing" /\ Status' = [Status EXCEPT ![d] = "canceled"]
      BY <1>1, <1>4, LoneTold DEF Status, StatusOf
    <2> QED
      BY <1>2, <2>1 DEF Promise!Next, Promise!Cancel, Promise!Becomes, Status, Line
  <1> QED
    BY <1>3, <1>4

LEMMA LoneDialStepTold ==
  ASSUME Lone, "hangup" \notin Failures,
         TypeOK, LoneInv, CalmInv, NEW d \in Dials, DialStep(d)
  PROVE  [Promise!Next]_Told
  <1> USE DEF At
  <1>1. pc \in [Dials -> CallerPC] /\ cancelled' = cancelled
    BY DEF TypeOK, DialStep, GuardBusy, Enter, EnterIsCancelled, EnterIsDisposed,
       Prepare, RegisterReturns, InitializeCallbackHandler, SetBusy,
       BuildExtensions, BuildParams, CheckToken, RasDialStarts, RasDialFails,
       RasDialReturns, TransferHandle, CatchHangUp, CatchNotBusy, Leave, tokenVars
  <1>2. CASE UNCHANGED <<task[d], ras[d]>> /\ pc'[d] # "thrown" /\ pc[d] # "thrown"
    BY <1>1, <1>2, LoneTold
  <1>3. CASE pc'[d] = "thrown" /\ pc[d] # "thrown"
    <2>1. pc[d] \in {"guard", "enter", "releaseThrow", "releaseOnly"} /\ UNCHANGED <<task, ras>>
      BY <1>1, <1>3 DEF DialStep, GuardBusy, Enter, EnterIsCancelled, EnterIsDisposed,
         Prepare, RegisterReturns, InitializeCallbackHandler, SetBusy, BuildExtensions,
         BuildParams, CheckToken, RasDialStarts, RasDialFails, RasDialReturns,
         TransferHandle, CatchHangUp, CatchNotBusy, Leave, attemptVars, Disposed,
         CalmInv, CalmControl
    <2>2. task[d] \in {"none", "pending"} /\ ~Live(d)
      BY <2>1 DEF LoneInv, LoneOrder, CalmInv, CalmControl, CalmTask, Early, Outside,
         CallerHolds, Live
    <2>3. Line[d] # "up" /\ Line' = Line
      BY <2>1, <2>2, LoneTold DEF Line, LineOf, Live
    <2>4. Status[d] \in {"idle", "dialing"} /\ Status' = [Status EXCEPT ![d] = "rejected"]
      BY <1>3, <2>2, LoneTold DEF Status, StatusOf
    <2> QED
      BY <1>1, <2>3, <2>4 DEF Promise!Next, Promise!Reject, Promise!Becomes, Status, Line
  <1>4. CASE Prepare(d)
    <2>1. /\ pc[d] = "prepare" /\ pc'[d] # "thrown" /\ ras' = ras
          /\ task[d] = "none" /\ task'[d] = "pending"
      BY <1>1, <1>4 DEF Prepare, TypeOK, CalmInv, CalmTask, Outside, attemptVars
    <2>2. Status[d] = "idle" /\ Status' = [Status EXCEPT ![d] = "dialing"]
      BY <2>1, LoneTold DEF Status, StatusOf
    <2>3. \A e \in Dials : Status[e] # "dialing"
      BY <2>2 DEF Lone
    <2>4. Line' = Line
      BY <2>1 DEF Line, LineOf, Live
    <2> QED
      BY <1>1, <2>2, <2>3, <2>4 DEF Promise!Next, Promise!Accept, Promise!Becomes, Status, Line
  <1>5. CASE RasDialStarts(d) \/ RasDialFails(d)
    <2>1. /\ pc[d] = "dial" /\ pc'[d] # "thrown" /\ task' = task
          /\ task[d] = "pending" /\ ras[d] = "none"
      BY <1>1, <1>5 DEF RasDialStarts, RasDialFails, LoneInv, LoneOrder, CalmInv, CalmTask,
         Building, CallerHolds
    <2>2. CASE ras' = ras
      BY <1>2, <2>1, <2>2
    <2>3. CASE ras'[d] \in {"dialing", "failed"}
      <3>1. Line[d] = "none" /\ Line' = [Line EXCEPT ![d] = "up"]
        BY <2>1, <2>3, LoneTold DEF Line, LineOf, Live
      <3>2. Status[d] = "dialing" /\ Status' = Status
        BY <2>1, LoneTold DEF Status, StatusOf
      <3> QED
        BY <1>1, <3>1, <3>2 DEF Promise!Next, Promise!Open, Promise!LineIs, Status, Line
    <2> QED
      BY <1>5, <2>2, <2>3 DEF RasDialStarts, RasDialFails, TypeOK
  <1>6. CASE CatchHangUp(d)
    <2>1. /\ pc[d] = "catch" /\ pc'[d] # "thrown" /\ task' = task /\ task[d] = "pending"
          /\ HangUp(d) \/ UNCHANGED ras
      BY <1>1, <1>6 DEF CatchHangUp, HangUpIfNecessary, CalmInv, CalmTask, CallerHolds
    <2> QED
      BY <1>1, <1>2, <2>1, HangUpTold
  <1>7. CASE CheckToken(d)
    <2>1. current = d /\ pc[d] = "check" /\ pc'[d] # "thrown" /\ ras' = ras /\ ~Live(d)
      BY <1>1, <1>7 DEF CheckToken, LoneInv, LoneOrder, Outside, Building, Live, attemptVars
    <2>2. CASE task' = task
      BY <1>2, <2>1, <2>2
    <2>3. CASE task' # task
      BY <1>1, <1>7, <2>1, <2>3, CancelTold DEF CheckToken
    <2> QED
      BY <2>2, <2>3
  <1> QED
    BY <1>1, <1>2, <1>3, <1>4, <1>5, <1>6, <1>7 DEF DialStep, GuardBusy, Enter,
       EnterIsCancelled, EnterIsDisposed, RegisterReturns,
       InitializeCallbackHandler, SetBusy, BuildExtensions, BuildParams,
       RasDialReturns, TransferHandle, CatchNotBusy, Leave, attemptVars

LEMMA LoneCancelStepTold ==
  ASSUME Lone, TypeOK, LoneInv, CalmInv, NEW d \in Dials, CancelStep(d)
  PROVE  [Promise!Next]_Told
  <1>1. CASE CancelHangsUp(d)
    <2>1. /\ UNCHANGED <<task, pc, cancelled>> /\ cancelled[d]
          /\ HangUp(d) \/ UNCHANGED ras
          /\ pc[d] = "thrown" => ~Live(d)
      BY <1>1 DEF CancelHangsUp, HangUpIfNecessary, To, LoneInv, LoneLock, CalmInv,
         CalmControl, tokenVars
    <2> QED
      BY <2>1, HangUpTold, LoneTold
  <1>2. CASE CancelSetsCanceled(d)
    <2>1. /\ current = d /\ UNCHANGED <<pc, ras, cancelled>>
          /\ cancelled[d] /\ ~Live(d)
      BY <1>2 DEF CancelSetsCanceled, To, LoneInv, LoneLock, LoneOrder, CalmInv, CalmTask,
         HungUp, tokenVars, attemptVars
    <2> QED
      BY <1>2, <2>1, CancelTold, LoneTold DEF CancelSetsCanceled
  <1>3. CASE UNCHANGED <<task, pc, ras, cancelled>>
    BY <1>3, LoneTold
  <1> QED
    BY <1>1, <1>2, <1>3 DEF CancelStep, CancelChecksBusy, CancelEnters, CancelFrees,
       CancelNotBusy, CancelInspectsTask, CancelLeaves, tokenVars, attemptVars

LEMMA LoneCallbackStepTold ==
  ASSUME Lone, TypeOK, LoneInv, CalmInv, NEW d \in Dials, CallbackStep(d)
  PROVE  [Promise!Next]_Told
  <1>1. CASE SettleTask(d)
    <2>1. /\ hTask = d /\ pc[d] # "thrown" /\ UNCHANGED <<pc, ras, cancelled>>
          /\ \/ verdict[d] = "result" /\ (ras[d] \in {"connected", "dropped"} \/ cancelled[d])
             \/ verdict[d] = "faulted" /\ ~Live(d)
      BY <1>1 DEF SettleTask, Goes, LoneInv, LoneHandle, CalmInv, CalmControl, CalmTask,
         Settling, Calling, Returned, attemptVars, tokenVars
    <2>2. CASE task' = task
      BY <2>1, <2>2, LoneTold
    <2>3. CASE task' # task
      <3>1. task[d] = "pending" /\ task'[d] = verdict[d]
        BY <1>1, <2>1, <2>3 DEF SettleTask, TypeOK
      <3>2. Status[d] = "dialing" /\ Line' = Line
        BY <2>1, <3>1, LoneTold DEF Status, StatusOf, Line, LineOf, Live
      <3>3. CASE verdict[d] = "result"
        <4>1. Status' = [Status EXCEPT ![d] = "connected"]
          BY <2>1, <3>1, <3>3, LoneTold DEF StatusOf
        <4>2. Line[d] \in {"up", "lost"} \/ cancelled[d]
          BY <2>1, <3>3 DEF Line, LineOf, Live
        <4> QED
          BY <2>1, <3>2, <4>1, <4>2
          DEF Promise!Next, Promise!Connect, Promise!Becomes, Status, Line
      <3>4. CASE verdict[d] = "faulted"
        <4>1. Status' = [Status EXCEPT ![d] = "faulted"] /\ Line[d] # "up"
          BY <2>1, <3>1, <3>4, LoneTold DEF StatusOf, Line, LineOf, Live
        <4> QED
          BY <2>1, <3>2, <4>1 DEF Promise!Next, Promise!Fault, Promise!Becomes, Status, Line
      <3> QED
        BY <2>1, <3>3, <3>4
    <2> QED
      BY <2>2, <2>3
  <1>2. CASE CatchHangsUp(d)
    <2>1. /\ UNCHANGED <<task, pc, cancelled>>
          /\ HangUp(d) \/ UNCHANGED ras
          /\ pc[d] # "thrown" /\ (task[d] = "pending" \/ cancelled[d])
      BY <1>2 DEF CatchHangsUp, HangUpConnection, Goes, LoneInv, LoneHandle, CalmInv,
         CalmControl, CalmTask, InTry, tokenVars
    <2> QED
      BY <2>1, HangUpTold, LoneTold
  <1>3. CASE UNCHANGED <<task, pc, ras, cancelled>>
    BY <1>3, LoneTold
  <1> QED
    BY <1>1, <1>2, <1>3 DEF CallbackStep, CaptureToken, HandleArrives, WaitThrows,
       PassGuards, CreateConnection, CompletedFrees, CompletedNotBusy,
       CallbackReturns, tokenVars, attemptVars

(* A dial that may be cancelled at any moment comes to one end, is not     *)
(* canceled unless its caller asked, and its line is down when its caller  *)
(* is told of any end but a connection.                                    *)
THEOREM LoneStaysInPromise ==
  ASSUME Lone, ~MayDispose, "hangup" \notin Failures
  PROVE  Spec => Promise!Allowed
  <1>1. TypeOK /\ LoneInv /\ CalmInv /\ [Next]_vars => [Promise!Next]_Told
    <2> SUFFICES ASSUME TypeOK, LoneInv, CalmInv, [Next]_vars PROVE [Promise!Next]_Told
      OBVIOUS
    <2>1. CASE UNCHANGED vars
      BY <2>1 DEF vars, Told, Status, StatusOf, Line, LineOf, Live, tokenVars, attemptVars
    <2>2. CASE DisposeStep \/ CallDispose
      <3>1. UNCHANGED <<task, pc, ras>> /\ Dials = {}
        BY <2>2, CalmIsUndisposed DEF DisposeStep, DisposeChecksBusy, DisposeCancels,
           DisposeCancelReturns, DisposeSource, DisposeRest, CallDispose, attemptVars
      <3>2. cancelled' = cancelled
        BY <2>2, <3>1 DEF TypeOK, DisposeStep, DisposeChecksBusy, DisposeCancels,
           DisposeCancelReturns, DisposeSource, DisposeRest, CallDispose, tokenVars
      <3> QED
        BY <3>1, <3>2 DEF Told, Status, StatusOf, Line, LineOf, Live
    <2> QED
      BY <2>1, <2>2, LoneDialStepTold, LoneCancelStepTold, LoneCallbackStepTold, EnvironmentTold
      DEF Next, Rest
  <1> QED
    BY <1>1, TypeCorrect, LoneInvariant, CalmInvariant, InitTold, PTL
    DEF Spec, Promise!Allowed, Promise!vars, Told, Status, Line
=============================================================================
