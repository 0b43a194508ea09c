----------------------------- MODULE DialingProofs -----------------------------
(***************************************************************************)
(* Theorems about Dialing, for any number of dials and every choice of     *)
(* what callers and RAS may do.                                            *)
(***************************************************************************)
EXTENDS Dialing, FiniteSetTheorems, TLAPS

-----------------------------------------------------------------------------
(* Types.                                                                  *)

LEMMA InitTypes == Init => TypeOK
  <1> SUFFICES ASSUME Init PROVE TypeOK
    OBVIOUS
  <1>1. notified \in [Dials -> 0..MaxStates]
    BY DialAssumption DEF Init
  <1>2. /\ task \in [Dials -> TaskState]
        /\ eap \in [Dials -> EapState]
        /\ ras \in [Dials -> AttemptState]
    BY DEF Init, TaskState, EapState, AttemptState
  <1>3. /\ pc \in [Dials -> CallerPC]
        /\ kpc \in [Dials -> CancelPC]
        /\ cpc \in [Dials -> CallbackPC]
        /\ xpc \in DisposePC
    BY DEF Init, CallerPC, CancelPC, CallbackPC, DisposePC
  <1> QED
    BY <1>1, <1>2, <1>3 DEF Init, TypeOK

LEMMA DialStepTypes ==
  ASSUME TypeOK, NEW d \in Dials, DialStep(d)
  PROVE  TypeOK'
  <1> USE DEF TypeOK, CallerPC, CallerHolds, CancelPC, TaskState, EapState,
        AttemptState, At, serviceVars, handlerVars, tokenVars, attemptVars,
        callbackVars, disposeVars
  <1>1. CASE GuardBusy(d)
    BY <1>1 DEF GuardBusy
  <1>2. CASE Enter(d)
    BY <1>2 DEF Enter, Take
  <1>3. CASE EnterIsCancelled(d)
    BY <1>3 DEF EnterIsCancelled
  <1>4. CASE EnterIsDisposed(d)
    BY <1>4 DEF EnterIsDisposed
  <1>5. CASE Prepare(d)
    BY <1>5 DEF Prepare
  <1>6. CASE RegisterReturns(d)
    BY <1>6 DEF RegisterReturns
  <1>7. CASE InitializeCallbackHandler(d)
    <2>1. pc' \in [Dials -> CallerPC]
      BY <1>7 DEF InitializeCallbackHandler
    <2>2. /\ hTask' \in Dials \cup {NoDial}
          /\ hContext' \in Dials \cup {NoDial}
          /\ waiter' \in Dials \cup {NoDial}
          /\ completed' \in BOOLEAN
      BY <1>7 DEF InitializeCallbackHandler, InitializeHandler, ResetWaiter
    <2> QED
      BY <1>7, <2>1, <2>2 DEF InitializeCallbackHandler
  <1>8. CASE SetBusy(d)
    BY <1>8 DEF SetBusy
  <1>9. CASE BuildExtensions(d)
    BY <1>9 DEF BuildExtensions
  <1>10. CASE BuildParams(d)
    BY <1>10 DEF BuildParams
  <1>11. CASE CheckToken(d)
    BY <1>11 DEF CheckToken
  <1>12. CASE RasDialStarts(d)
    BY <1>12 DEF RasDialStarts
  <1>13. CASE RasDialFails(d)
    <2>1. /\ pc' \in [Dials -> CallerPC]
          /\ handle' \in [Dials -> BOOLEAN]
          /\ ras' \in [Dials -> AttemptState]
      BY <1>13 DEF RasDialFails
    <2> QED
      BY <1>13, <2>1 DEF RasDialFails
  <1>14. CASE RasDialReturns(d)
    BY <1>14 DEF RasDialReturns
  <1>15. CASE TransferHandle(d)
    BY <1>15 DEF TransferHandle, SetHandle
  <1>16. CASE CatchHangUp(d)
    BY <1>16 DEF CatchHangUp, HangUpIfNecessary, HangUp
  <1>17. CASE CatchNotBusy(d)
    BY <1>17 DEF CatchNotBusy, SetNotBusy
  <1>18. CASE Leave(d)
    BY <1>18 DEF Leave, Release
  <1> QED
    BY <1>1, <1>2, <1>3, <1>4, <1>5, <1>6, <1>7, <1>8, <1>9, <1>10, <1>11, <1>12,
       <1>13, <1>14, <1>15, <1>16, <1>17, <1>18 DEF DialStep

LEMMA CancelStepTypes ==
  ASSUME TypeOK, NEW d \in Dials, CancelStep(d)
  PROVE  TypeOK'
  <1> USE DEF TypeOK, CancelPC, CancelHolds, TaskState, EapState, AttemptState,
        To, serviceVars, handlerVars, tokenVars, attemptVars, callbackVars,
        disposeVars
  <1>1. CASE CancelChecksBusy(d)
    BY <1>1 DEF CancelChecksBusy
  <1>2. CASE CancelEnters(d)
    BY <1>2 DEF CancelEnters, Take
  <1>3. CASE CancelHangsUp(d)
    BY <1>3 DEF CancelHangsUp, HangUpIfNecessary, HangUp
  <1>4. CASE CancelFrees(d)
    BY <1>4 DEF CancelFrees, FreeEap
  <1>5. CASE CancelNotBusy(d)
    BY <1>5 DEF CancelNotBusy, SetNotBusy
  <1>6. CASE CancelInspectsTask(d)
    BY <1>6 DEF CancelInspectsTask
  <1>7. CASE CancelSetsCanceled(d)
    BY <1>7 DEF CancelSetsCanceled
  <1>8. CASE CancelLeaves(d)
    BY <1>8 DEF CancelLeaves, Release
  <1> QED
    BY <1>1, <1>2, <1>3, <1>4, <1>5, <1>6, <1>7, <1>8 DEF CancelStep

LEMMA CallbackStepTypes ==
  ASSUME TypeOK, NEW d \in Dials, CallbackStep(d)
  PROVE  TypeOK'
  <1> USE DEF TypeOK, CallbackPC, TaskState, EapState, AttemptState, Goes,
        serviceVars, handlerVars, tokenVars, attemptVars, callbackVars,
        disposeVars
  <1>1. CASE CaptureToken(d)
    BY <1>1 DEF CaptureToken
  <1>2. CASE HandleArrives(d)
    BY <1>2 DEF HandleArrives
  <1>3. CASE WaitThrows(d)
    BY <1>3 DEF WaitThrows
  <1>4. CASE PassGuards(d)
    BY <1>4 DEF PassGuards
  <1>5. CASE CreateConnection(d)
    BY <1>5 DEF CreateConnection
  <1>6. CASE CompletedFrees(d)
    BY <1>6 DEF CompletedFrees, FreeEap
  <1>7. CASE CompletedNotBusy(d)
    BY <1>7 DEF CompletedNotBusy, SetNotBusy
  <1>8. CASE SettleTask(d)
    <2>1. verdict[d] \in TaskState
      OBVIOUS
    <2>2. task' \in [Dials -> TaskState]
      BY <1>8, <2>1 DEF SettleTask
    <2> QED
      BY <1>8, <2>2 DEF SettleTask
  <1>9. CASE CatchHangsUp(d)
    <2>1. ras' \in [Dials -> AttemptState]
      BY <1>9 DEF CatchHangsUp, HangUpConnection, HangUp
    <2>2. /\ cpc' \in [Dials -> CallbackPC]
          /\ completed' \in BOOLEAN
          /\ verdict' \in [Dials -> {"none", "result", "faulted"}]
      BY <1>9 DEF CatchHangsUp
    <2> QED
      BY <1>9, <2>1, <2>2 DEF CatchHangsUp
  <1>10. CASE CallbackReturns(d)
    BY <1>10 DEF CallbackReturns
  <1> QED
    BY <1>1, <1>2, <1>3, <1>4, <1>5, <1>6, <1>7, <1>8, <1>9, <1>10 DEF CallbackStep

LEMMA EnvironmentTypes ==
  ASSUME TypeOK, NEW d \in Dials, Environment(d)
  PROVE  TypeOK'
  <1> USE DEF TypeOK, CallerPC, CancelPC, CallbackPC, AttemptState, At, Goes,
        serviceVars, handlerVars, tokenVars, attemptVars, callbackVars,
        disposeVars
  <1>1. CASE CallDialAsync(d)
    BY <1>1 DEF CallDialAsync
  <1>2. CASE CancelToken(d)
    BY <1>2 DEF CancelToken
  <1>3. CASE ReportState(d)
    <2>1. notified' \in [Dials -> 0..MaxStates]
      BY <1>3, DialAssumption DEF ReportState
    <2> QED
      BY <1>3, <2>1 DEF ReportState, CallbackBegins
  <1>4. CASE ReportOutcome(d)
    BY <1>4 DEF ReportOutcome, CallbackBegins
  <1>5. CASE Drop(d)
    BY <1>5 DEF Drop
  <1> QED
    BY <1>1, <1>2, <1>3, <1>4, <1>5 DEF Environment

LEMMA DisposeTypes ==
  ASSUME TypeOK, DisposeStep \/ CallDispose
  PROVE  TypeOK'
  <1> USE DEF TypeOK, DisposePC, CancelPC, Disposes, serviceVars, handlerVars,
        tokenVars, attemptVars, callbackVars, disposeVars
  <1>1. CASE DisposeChecksBusy
    BY <1>1 DEF DisposeChecksBusy
  <1>2. CASE DisposeCancels
    BY <1>2 DEF DisposeCancels
  <1>3. CASE DisposeCancelReturns
    BY <1>3 DEF DisposeCancelReturns
  <1>4. CASE DisposeSource
    BY <1>4 DEF DisposeSource
  <1>5. CASE DisposeRest
    BY <1>5 DEF DisposeRest
  <1>6. CASE CallDispose
    BY <1>6 DEF CallDispose
  <1> QED
    BY <1>1, <1>2, <1>3, <1>4, <1>5, <1>6 DEF DisposeStep

LEMMA StutterTypes ==
  ASSUME TypeOK, UNCHANGED vars
  PROVE  TypeOK'
  BY DEF TypeOK, vars, serviceVars, handlerVars, tokenVars, attemptVars,
     callbackVars, disposeVars

(* Every variable of the dialer keeps its type: no field, semaphore count  *)
(* or thread location ever leaves the values DialState gives it.           *)
THEOREM TypeCorrect == Spec => []TypeOK
  <1>1. TypeOK /\ [Next]_vars => TypeOK'
    <2> SUFFICES ASSUME TypeOK, [Next]_vars PROVE TypeOK'
      OBVIOUS
    <2> QED
      BY DialStepTypes, CancelStepTypes, CallbackStepTypes, EnvironmentTypes,
         DisposeTypes, StutterTypes DEF Next, Rest
  <1> QED
    BY InitTypes, <1>1, PTL DEF Spec

-----------------------------------------------------------------------------
(* SyncRoot is a lock when no token is cancelled before its call has the   *)
(* lock.  Mutual exclusion is not inductive by itself: a thread can enter  *)
(* as long as there is a permit, so a permit must mean that nobody is      *)
(* inside; and a Release makes a permit, so no thread may release what it  *)
(* did not take, which is what happens when the Wait itself is cancelled.  *)

PermitMeansFree ==
    /\ sem \in {0, 1}
    /\ sem = 1 => \A d \in Dials : pc[d] \notin CallerHolds /\ kpc[d] \notin CancelHolds

Waiting == {"idle", "guard", "enter"}

WaitNotCancelled ==
    \A d \in Dials :
        /\ pc[d] # "releaseOnly"
        /\ pc[d] \in Waiting => ~cancelled[d] /\ current # d

LockInv == SyncRootIsLock /\ PermitMeansFree /\ WaitNotCancelled

LEMMA InitLock == Init => LockInv
  BY DialAssumption DEF Init, LockInv, SyncRootIsLock, PermitMeansFree,
     WaitNotCancelled, CallerHolds, CancelHolds

LEMMA DialStepLock ==
  ASSUME TypeOK, LockInv, NEW d \in Dials, DialStep(d)
  PROVE  LockInv'
  <1> USE DEF TypeOK, LockInv, SyncRootIsLock, PermitMeansFree, WaitNotCancelled,
        Waiting, CallerHolds, CancelHolds, At, serviceVars, tokenVars
  <1>1. CASE GuardBusy(d)
    BY <1>1 DEF GuardBusy
  <1>2. CASE Enter(d)
    BY <1>2 DEF Enter, Take
  <1>3. CASE EnterIsCancelled(d)
    BY <1>3 DEF EnterIsCancelled
  <1>4. CASE EnterIsDisposed(d)
    BY <1>4 DEF EnterIsDisposed
  <1>5. CASE Prepare(d)
    BY <1>5 DEF Prepare
  <1>6. CASE RegisterReturns(d)
    BY <1>6 DEF RegisterReturns
  <1>7. CASE InitializeCallbackHandler(d)
    BY <1>7 DEF InitializeCallbackHandler
  <1>8. CASE SetBusy(d)
    BY <1>8 DEF SetBusy
  <1>9. CASE BuildExtensions(d)
    BY <1>9 DEF BuildExtensions
  <1>10. CASE BuildParams(d)
    BY <1>10 DEF BuildParams
  <1>11. CASE CheckToken(d)
    BY <1>11 DEF CheckToken
  <1>12. CASE RasDialStarts(d)
    BY <1>12 DEF RasDialStarts
  <1>13. CASE RasDialFails(d)
    BY <1>13 DEF RasDialFails
  <1>14. CASE RasDialReturns(d)
    BY <1>14 DEF RasDialReturns
  <1>15. CASE TransferHandle(d)
    BY <1>15 DEF TransferHandle
  <1>16. CASE CatchHangUp(d)
    BY <1>16 DEF CatchHangUp
  <1>17. CASE CatchNotBusy(d)
    BY <1>17 DEF CatchNotBusy
  <1>18. CASE Leave(d)
    BY <1>18 DEF Leave, Release
  <1> QED
    BY <1>1, <1>2, <1>3, <1>4, <1>5, <1>6, <1>7, <1>8, <1>9, <1>10, <1>11, <1>12,
       <1>13, <1>14, <1>15, <1>16, <1>17, <1>18 DEF DialStep

LEMMA CancelStepLock ==
  ASSUME TypeOK, LockInv, NEW d \in Dials, CancelStep(d)
  PROVE  LockInv'
  <1> USE DEF TypeOK, LockInv, SyncRootIsLock, PermitMeansFree, WaitNotCancelled,
        CancelHolds, To, serviceVars, tokenVars
  <1>1. CASE CancelChecksBusy(d)
    BY <1>1 DEF CancelChecksBusy
  <1>2. CASE CancelEnters(d)
    BY <1>2 DEF CancelEnters, Take
  <1>3. CASE CancelHangsUp(d)
    BY <1>3 DEF CancelHangsUp
  <1>4. CASE CancelFrees(d)
    BY <1>4 DEF CancelFrees
  <1>5. CASE CancelNotBusy(d)
    BY <1>5 DEF CancelNotBusy
  <1>6. CASE CancelInspectsTask(d)
    BY <1>6 DEF CancelInspectsTask
  <1>7. CASE CancelSetsCanceled(d)
    BY <1>7 DEF CancelSetsCanceled
  <1>8. CASE CancelLeaves(d)
    BY <1>8 DEF CancelLeaves, Release
  <1> QED
    BY <1>1, <1>2, <1>3, <1>4, <1>5, <1>6, <1>7, <1>8 DEF CancelStep

(* The RAS threads and the RAS subsystem never touch the lock.             *)
LEMMA CallbackLeavesLockAlone ==
  ASSUME NEW d \in Dials,
         CallbackStep(d) \/ ReportState(d) \/ ReportOutcome(d) \/ Drop(d)
  PROVE  UNCHANGED <<sem, pc, kpc, current, cancelled>>
  BY DEF CallbackStep, CaptureToken, HandleArrives, WaitThrows, PassGuards,
     CreateConnection, CompletedFrees, CompletedNotBusy, SettleTask,
     CatchHangsUp, CallbackReturns, ReportState, ReportOutcome, Drop,
     serviceVars, tokenVars

LEMMA EnvironmentLock ==
  ASSUME "before" \notin CancelWindows,
         TypeOK, LockInv, NEW d \in Dials, CallbackStep(d) \/ Environment(d)
  PROVE  LockInv'
  <1> USE DEF TypeOK, LockInv, SyncRootIsLock, PermitMeansFree, WaitNotCancelled,
        Waiting, CancelHolds, CallerHolds, At, serviceVars, tokenVars
  <1>1. CASE CallDialAsync(d)
    BY <1>1 DEF CallDialAsync
  <1>2. CASE CancelToken(d)
    <2>1. pc[d] \notin Waiting
      BY <1>2 DEF CancelToken, MayCancel, Over
    <2> QED
      BY <1>2, <2>1 DEF CancelToken
  <1>3. CASE CallbackStep(d) \/ ReportState(d) \/ ReportOutcome(d) \/ Drop(d)
    <2>1. UNCHANGED <<sem, pc, kpc, current, cancelled>>
      BY <1>3, CallbackLeavesLockAlone
    <2> QED
      BY <2>1
  <1> QED
    BY <1>1, <1>2, <1>3 DEF Environment

LEMMA DisposeLock ==
  ASSUME TypeOK, LockInv, DisposeStep \/ CallDispose
  PROVE  LockInv'
  <1> USE DEF TypeOK, LockInv, SyncRootIsLock, PermitMeansFree, WaitNotCancelled,
        CancelHolds, serviceVars, tokenVars
  <1>1. CASE DisposeChecksBusy
    BY <1>1 DEF DisposeChecksBusy
  <1>2. CASE DisposeCancels
    BY <1>2 DEF DisposeCancels
  <1>3. CASE DisposeCancelReturns
    BY <1>3 DEF DisposeCancelReturns
  <1>4. CASE DisposeSource
    BY <1>4 DEF DisposeSource
  <1>5. CASE DisposeRest
    BY <1>5 DEF DisposeRest
  <1>6. CASE CallDispose
    BY <1>6 DEF CallDispose
  <1> QED
    BY <1>1, <1>2, <1>3, <1>4, <1>5, <1>6 DEF DisposeStep

LEMMA StutterLock ==
  ASSUME LockInv, UNCHANGED vars
  PROVE  LockInv'
  BY DEF LockInv, SyncRootIsLock, PermitMeansFree, WaitNotCancelled, vars,
     serviceVars, tokenVars

(* SyncRoot excludes: as long as callers pass DialAsync no token that is   *)
(* cancelled before the call has entered, no two calls of DialAsync and no *)
(* cancellation callback are ever inside SyncRoot together, however many   *)
(* dials overlap, whatever fails and whenever the dialer is disposed.      *)
THEOREM SyncRootExcludes ==
  ASSUME "before" \notin CancelWindows
  PROVE  Spec => []SyncRootIsLock
  <1>1. TypeOK /\ LockInv /\ [Next]_vars => LockInv'
    <2> SUFFICES ASSUME TypeOK, LockInv, [Next]_vars PROVE LockInv'
      OBVIOUS
    <2> QED
      BY DialStepLock, CancelStepLock, EnvironmentLock, DisposeLock, StutterLock
      DEF Next, Rest
  <1>2. LockInv => SyncRootIsLock
    BY DEF LockInv
  <1> QED
    BY InitLock, TypeCorrect, <1>1, <1>2, PTL DEF Spec

-----------------------------------------------------------------------------
(* A DialAsync that throws leaves no attempt behind.  The reason is what   *)
(* BeginDial's finally clause does: from the moment RasDial returns, the   *)
(* context has the handle of whatever RAS has started, so the catch block  *)
(* can hang it up.                                                         *)

AttemptHasHandle ==
    \A d \in Dials :
        Live(d) => /\ pc[d] \in {"dialing", "setHandle", "catch", "releaseReturn", "returned"}
                   /\ pc[d] # "dialing" => handle[d]

ThrownInv == xpc = "idle" /\ AttemptHasHandle

LEMMA InitThrown == Init => ThrownInv
  BY DEF Init, ThrownInv, AttemptHasHandle, Live

LEMMA DialStepThrown ==
  ASSUME "hangup" \notin Failures,
         TypeOK, ThrownInv, NEW d \in Dials, DialStep(d)
  PROVE  ThrownInv'
  <1> USE DEF TypeOK, ThrownInv, AttemptHasHandle, Live, At, Disposed,
        attemptVars, disposeVars
  <1>1. CASE GuardBusy(d)
    BY <1>1 DEF GuardBusy
  <1>2. CASE Enter(d)
    BY <1>2 DEF Enter
  <1>3. CASE EnterIsCancelled(d)
    BY <1>3 DEF EnterIsCancelled
  <1>4. CASE EnterIsDisposed(d)
    BY <1>4 DEF EnterIsDisposed
  <1>5. CASE Prepare(d)
    BY <1>5 DEF Prepare
  <1>6. CASE RegisterReturns(d)
    BY <1>6 DEF RegisterReturns
  <1>7. CASE InitializeCallbackHandler(d)
    BY <1>7 DEF InitializeCallbackHandler
  <1>8. CASE SetBusy(d)
    BY <1>8 DEF SetBusy
  <1>9. CASE BuildExtensions(d)
    BY <1>9 DEF BuildExtensions
  <1>10. CASE BuildParams(d)
    BY <1>10 DEF BuildParams
  <1>11. CASE CheckToken(d)
    BY <1>11 DEF CheckToken
  <1>12. CASE RasDialStarts(d)
    BY <1>12 DEF RasDialStarts
  <1>13. CASE RasDialFails(d)
    BY <1>13 DEF RasDialFails
  <1>14. CASE RasDialReturns(d)
    BY <1>14 DEF RasDialReturns
  <1>15. CASE TransferHandle(d)
    BY <1>15 DEF TransferHandle
  <1>16. CASE CatchHangUp(d)
    <2>1. /\ pc' = [pc EXCEPT ![d] = "setNotBusy"]
          /\ IF handle[d] THEN HangUp(d) ELSE UNCHANGED ras
          /\ pc[d] = "catch"
          /\ UNCHANGED <<handle, disposeVars>>
      BY <1>16 DEF CatchHangUp, HangUpMayFail, HangUpIfNecessary
    <2>2. ras'[d] \notin {"dialing", "connected", "failed"}
      BY <2>1 DEF HangUp
    <2> QED
      BY <2>1, <2>2 DEF HangUp
  <1>17. CASE CatchNotBusy(d)
    BY <1>17 DEF CatchNotBusy
  <1>18. CASE Leave(d)
    BY <1>18 DEF Leave
  <1> QED
    BY <1>1, <1>2, <1>3, <1>4, <1>5, <1>6, <1>7, <1>8, <1>9, <1>10, <1>11, <1>12,
       <1>13, <1>14, <1>15, <1>16, <1>17, <1>18 DEF DialStep

(* No other step starts an attempt or takes a handle away: it leaves ras   *)
(* alone, or hangs up, or reports an outcome of an attempt that is live.   *)
OnlyEnds ==
    /\ UNCHANGED <<handle, disposeVars>>
    /\ \A e \in Dials : (Live(e))' => Live(e)

LEMMA CancelStepOnlyEnds ==
  ASSUME TypeOK, NEW d \in Dials, CancelStep(d)
  PROVE  OnlyEnds /\ UNCHANGED pc
  BY DEF TypeOK, OnlyEnds, Live, CancelStep, CancelChecksBusy, CancelEnters,
     CancelHangsUp, CancelFrees, CancelNotBusy, CancelInspectsTask,
     CancelSetsCanceled, CancelLeaves, HangUpIfNecessary, HangUp, attemptVars

LEMMA CallbackStepOnlyEnds ==
  ASSUME TypeOK, NEW d \in Dials, CallbackStep(d)
  PROVE  OnlyEnds /\ UNCHANGED pc
  BY DEF TypeOK, OnlyEnds, Live, CallbackStep, CaptureToken, HandleArrives,
     WaitThrows, PassGuards, CreateConnection, CompletedFrees, CompletedNotBusy,
     SettleTask, CatchHangsUp, CallbackReturns, HangUpConnection, HangUp, attemptVars

LEMMA EnvironmentOnlyEnds ==
  ASSUME TypeOK, NEW d \in Dials, Environment(d)
  PROVE  OnlyEnds /\ (UNCHANGED pc \/ At(d, "idle", "guard"))
  BY DEF TypeOK, OnlyEnds, Live, Environment, CallDialAsync, CancelToken,
     ReportState, ReportOutcome, Drop, attemptVars

(* A call of DialAsync that throws, whatever made it throw and however     *)
(* many other dials overlap with it, has left no attempt of its own with   *)
(* RAS, provided RasHangUp does not fail and nobody disposes the dialer.   *)
THEOREM ThrownLeavesNothing ==
  ASSUME "hangup" \notin Failures, ~MayDispose
  PROVE  Spec => []ThrownLeavesNoAttempt
  <1>1. TypeOK /\ ThrownInv /\ [Next]_vars => ThrownInv'
    <2> SUFFICES ASSUME TypeOK, ThrownInv, [Next]_vars PROVE ThrownInv'
      OBVIOUS
    <2>1. ASSUME OnlyEnds, NEW d \in Dials, UNCHANGED pc \/ At(d, "idle", "guard")
          PROVE  ThrownInv'
      BY <2>1 DEF OnlyEnds, ThrownInv, AttemptHasHandle, Live, At, TypeOK, disposeVars
    <2>2. ASSUME NEW d \in Dials, DialStep(d) PROVE ThrownInv'
      BY <2>2, DialStepThrown
    <2>3. ASSUME NEW d \in Dials, CancelStep(d) \/ CallbackStep(d) \/ Environment(d)
          PROVE  ThrownInv'
      BY <2>1, <2>3, CancelStepOnlyEnds, CallbackStepOnlyEnds, EnvironmentOnlyEnds
    <2>4. ~DisposeStep /\ ~CallDispose
      BY DEF ThrownInv, DisposeStep, DisposeChecksBusy, DisposeCancels,
         DisposeCancelReturns, DisposeSource, DisposeRest, CallDispose, Disposes
    <2>5. CASE UNCHANGED vars
      BY <2>5 DEF vars, ThrownInv, AttemptHasHandle, Live, attemptVars, disposeVars
    <2> QED
      BY <2>2, <2>3, <2>4, <2>5 DEF Next, Rest
  <1>2. ThrownInv => ThrownLeavesNoAttempt
    BY DEF ThrownInv, AttemptHasHandle, ThrownLeavesNoAttempt
  <1> QED
    BY InitThrown, TypeCorrect, <1>1, <1>2, PTL DEF Spec

-----------------------------------------------------------------------------
(* Permits.  Every Release but that of a cancelled Wait gives back what a  *)
(* Wait took.  What must be known besides is that a cancellation callback  *)
(* is never started over while it is inside, and which thread it is that   *)
(* releases what it never had.                                             *)

(* The call has not registered its cancellation callback.                  *)
Outside == {"idle", "guard", "enter", "releaseOnly", "prepare"}

Callers      == {d \in Dials : pc[d] \in CallerHolds}
Cancellers   == {d \in Dials : kpc[d] \in CancelHolds}
NeverEntered == {d \in Dials : pc[d] = "thrown" /\ cancelled[d] /\ d \notin registered}
Permits      == sem + Cardinality(Callers) + Cardinality(Cancellers)

Unregistered ==
    \A d \in Dials :
        /\ pc[d] \in Outside => kpc[d] = "idle" /\ current # d /\ d \notin registered
        /\ pc[d] = "releaseOnly" => cancelled[d]
        /\ kpc[d] # "idle" => cancelled[d]

Counted ==
    /\ IsFiniteSet(Callers)
    /\ IsFiniteSet(Cancellers)
    /\ IsFiniteSet(NeverEntered)
    /\ Permits \in 1..(1 + Cardinality(NeverEntered))

PermitInv == Unregistered /\ (~Disposed => Counted)

(* More dials may be found to have thrown, one at a time.                  *)
Thrown ==
    NeverEntered' = NeverEntered \/ \E d \in Dials : NeverEntered' = NeverEntered \cup {d}

LEMMA ThrownCounted ==
  ASSUME IsFiniteSet(NeverEntered), Thrown
  PROVE  /\ IsFiniteSet(NeverEntered')
         /\ Cardinality(NeverEntered) \in Nat
         /\ Cardinality(NeverEntered') \in Nat
         /\ Cardinality(NeverEntered) <= Cardinality(NeverEntered')
  <1>1. Cardinality(NeverEntered) \in Nat
    BY FS_CardinalityType
  <1>2. CASE NeverEntered' = NeverEntered
    BY <1>1, <1>2
  <1>3. ASSUME NEW d \in Dials, NeverEntered' = NeverEntered \cup {d}
        PROVE  /\ IsFiniteSet(NeverEntered')
               /\ Cardinality(NeverEntered') \in Nat
               /\ Cardinality(NeverEntered) <= Cardinality(NeverEntered')
    <2>1. /\ IsFiniteSet(NeverEntered \cup {d})
          /\ Cardinality(NeverEntered \cup {d}) =
                IF d \in NeverEntered THEN Cardinality(NeverEntered)
                                      ELSE Cardinality(NeverEntered) + 1
      BY FS_AddElement
    <2> QED
      BY <1>1, <1>3, <2>1
  <1> QED
    BY <1>1, <1>2, <1>3 DEF Thrown

LEMMA NoneMoves ==
  ASSUME Counted, sem \in Nat, UNCHANGED <<sem, Callers, Cancellers>>, Thrown
  PROVE  Counted'
  <1>1. Cardinality(Callers) \in Nat /\ Cardinality(Cancellers) \in Nat
    BY FS_CardinalityType DEF Counted
  <1> QED
    BY <1>1, ThrownCounted DEF Counted, Permits

(* A Wait.                                                                 *)
LEMMA OneEnters ==
  ASSUME Counted, sem \in Nat, Take, NeverEntered' = NeverEntered, NEW d,
         \/ d \notin Callers /\ Callers' = Callers \cup {d} /\ Cancellers' = Cancellers
         \/ d \notin Cancellers /\ Cancellers' = Cancellers \cup {d} /\ Callers' = Callers
  PROVE  Counted'
  <1>1. /\ Cardinality(Callers) \in Nat /\ Cardinality(Cancellers) \in Nat
        /\ Cardinality(NeverEntered) \in Nat
    BY FS_CardinalityType DEF Counted
  <1>2. /\ IsFiniteSet(Callers') /\ IsFiniteSet(Cancellers')
        /\ Cardinality(Callers') + Cardinality(Cancellers')
              = Cardinality(Callers) + Cardinality(Cancellers) + 1
        /\ Cardinality(Callers') \in Nat /\ Cardinality(Cancellers') \in Nat
    <2>1. CASE d \notin Callers /\ Callers' = Callers \cup {d} /\ Cancellers' = Cancellers
      <3>1. IsFiniteSet(Callers') /\ Cardinality(Callers') = Cardinality(Callers) + 1
        BY <2>1, FS_AddElement DEF Counted
      <3> QED
        BY <1>1, <2>1, <3>1 DEF Counted
    <2>2. CASE d \notin Cancellers /\ Cancellers' = Cancellers \cup {d} /\ Callers' = Callers
      <3>1. IsFiniteSet(Cancellers') /\ Cardinality(Cancellers') = Cardinality(Cancellers) + 1
        BY <2>2, FS_AddElement DEF Counted
      <3> QED
        BY <1>1, <2>2, <3>1 DEF Counted
    <2> QED
      BY <2>1, <2>2
  <1>3. sem' = sem - 1 /\ sem > 0
    BY DEF Take
  <1>4. Permits' = Permits
    BY <1>1, <1>2, <1>3 DEF Permits
  <1> QED
    BY <1>2, <1>4 DEF Counted

(* The Release that belongs to it.                                         *)
LEMMA OneLeaves ==
  ASSUME Counted, sem \in Nat, Release, Thrown, NEW d,
         \/ d \in Callers /\ Callers' = Callers \ {d} /\ Cancellers' = Cancellers
         \/ d \in Cancellers /\ Cancellers' = Cancellers \ {d} /\ Callers' = Callers
  PROVE  Counted'
  <1>1. /\ Cardinality(Callers) \in Nat /\ Cardinality(Cancellers) \in Nat
        /\ IsFiniteSet(NeverEntered')
        /\ Cardinality(NeverEntered) \in Nat /\ Cardinality(NeverEntered') \in Nat
        /\ Cardinality(NeverEntered) <= Cardinality(NeverEntered')
    BY ThrownCounted, FS_CardinalityType DEF Counted
  <1>2. /\ IsFiniteSet(Callers \ {d}) /\ IsFiniteSet(Cancellers \ {d})
        /\ d \in Callers => Cardinality(Callers \ {d}) = Cardinality(Callers) - 1
        /\ d \in Cancellers => Cardinality(Cancellers \ {d}) = Cardinality(Cancellers) - 1
    BY FS_RemoveElement DEF Counted
  <1> QED
    BY <1>1, <1>2 DEF Counted, Permits, Release

(* The Release of a Wait that was cancelled: it makes a permit up, and its *)
(* call is one that never entered.                                         *)
LEMMA OneMadeUp ==
  ASSUME Counted, sem \in Nat, Release, UNCHANGED <<Callers, Cancellers>>, NEW d,
         d \notin NeverEntered, NeverEntered' = NeverEntered \cup {d}
  PROVE  Counted'
  <1>1. /\ Cardinality(Callers) \in Nat /\ Cardinality(Cancellers) \in Nat
        /\ Cardinality(NeverEntered) \in Nat
    BY FS_CardinalityType DEF Counted
  <1>2. /\ IsFiniteSet(NeverEntered \cup {d})
        /\ Cardinality(NeverEntered \cup {d}) = Cardinality(NeverEntered) + 1
    BY FS_AddElement DEF Counted
  <1> QED
    BY <1>1, <1>2 DEF Counted, Permits, Release

LEMMA InitPermits == Init => PermitInv
  <1> SUFFICES ASSUME Init PROVE PermitInv
    OBVIOUS
  <1>1. Callers = {} /\ Cancellers = {} /\ NeverEntered = {}
    BY DEF Init, Callers, Cancellers, NeverEntered, CallerHolds, CancelHolds
  <1>2. Counted
    BY <1>1, FS_EmptySet DEF Init, Counted, Permits
  <1> QED
    BY <1>2, DialAssumption DEF Init, PermitInv, Unregistered

(* A DialAsync on its way that neither takes nor releases.                 *)
LEMMA CallerMoves ==
  ASSUME TypeOK, NEW d \in Dials, DialStep(d), ~Enter(d), ~Leave(d), Unregistered
  PROVE  /\ UNCHANGED <<sem, Callers, Cancellers, xpc>> /\ Thrown
         /\ Unregistered'
  <1> USE DEF TypeOK, Unregistered, Outside, CallerPC, CallerHolds, CancelHolds, At,
        serviceVars, tokenVars, disposeVars, Disposed
  <1>1. ASSUME sem' = sem, UNCHANGED <<kpc, cancelled, registered, disposeVars, current>>,
               NEW t, pc' = [pc EXCEPT ![d] = t],
               pc[d] \notin Outside /\ t \notin Outside,
               pc[d] \in CallerHolds /\ t \in CallerHolds
        PROVE  /\ UNCHANGED <<sem, Callers, Cancellers, xpc>> /\ Thrown
               /\ Unregistered'
    BY <1>1 DEF Callers, Cancellers, Thrown, NeverEntered
  <1>2. CASE GuardBusy(d)
    BY <1>2 DEF GuardBusy, Callers, Cancellers, Thrown, NeverEntered
  <1>3. CASE EnterIsCancelled(d)
    BY <1>3 DEF EnterIsCancelled, Callers, Cancellers, Thrown, NeverEntered
  <1>4. CASE Prepare(d)
    <2>1. Unregistered'
      BY <1>4 DEF Prepare
    <2>2. UNCHANGED <<sem, Callers, Cancellers, xpc>> /\ NeverEntered' = NeverEntered
      BY <1>4 DEF Prepare, Callers, Cancellers, NeverEntered
    <2> QED
      BY <2>1, <2>2 DEF Thrown
  <1>5. CASE \/ RegisterReturns(d) \/ InitializeCallbackHandler(d) \/ SetBusy(d)
             \/ BuildExtensions(d) \/ BuildParams(d) \/ CheckToken(d) \/ RasDialStarts(d)
             \/ RasDialFails(d) \/ RasDialReturns(d) \/ TransferHandle(d)
             \/ CatchHangUp(d) \/ CatchNotBusy(d)
    <2>1. sem' = sem /\ UNCHANGED <<kpc, cancelled, registered, disposeVars, current>>
      BY <1>5 DEF RegisterReturns, InitializeCallbackHandler, SetBusy, BuildExtensions,
         BuildParams, CheckToken, RasDialStarts, RasDialFails, RasDialReturns,
         TransferHandle, CatchHangUp, CatchNotBusy
    <2>2. \E t \in CallerHolds \ Outside : pc' = [pc EXCEPT ![d] = t]
      BY <1>5 DEF RegisterReturns, InitializeCallbackHandler, SetBusy, BuildExtensions,
         BuildParams, CheckToken, RasDialStarts, RasDialFails, RasDialReturns,
         TransferHandle, CatchHangUp, CatchNotBusy
    <2>3. pc[d] \in CallerHolds \ Outside
      BY <1>5 DEF RegisterReturns, InitializeCallbackHandler, SetBusy, BuildExtensions,
         BuildParams, CheckToken, RasDialStarts, RasDialFails, RasDialReturns,
         TransferHandle, CatchHangUp, CatchNotBusy
    <2> QED
      BY <1>1, <2>1, <2>2, <2>3
  <1>6. CASE EnterIsDisposed(d)
    BY <1>6 DEF EnterIsDisposed, Callers, Cancellers, Thrown, NeverEntered
  <1> QED
    BY <1>2, <1>3, <1>4, <1>5, <1>6 DEF DialStep

LEMMA DialStepPermits ==
  ASSUME TypeOK, NEW d \in Dials, DialStep(d), PermitInv
  PROVE  PermitInv'
  <1> USE DEF TypeOK, Unregistered, Outside, CallerPC, CallerHolds, CancelHolds, At,
        serviceVars, tokenVars, disposeVars, Disposed
  <1>1. CASE Enter(d)
    <2>1. Unregistered'
      BY <1>1 DEF Enter, PermitInv
    <2>2. /\ Take /\ xpc' = xpc /\ NeverEntered' = NeverEntered /\ Cancellers' = Cancellers
          /\ d \notin Callers /\ Callers' = Callers \cup {d}
      BY <1>1 DEF Enter, Callers, Cancellers, NeverEntered
    <2>3. ASSUME ~Disposed' PROVE Counted'
      BY <2>2, <2>3, OneEnters DEF PermitInv
    <2> QED
      BY <2>1, <2>3 DEF PermitInv
  <1>2. CASE Leave(d)
    <2>1. Unregistered'
      BY <1>2 DEF Leave, PermitInv
    <2>2. ASSUME ~Disposed', pc[d] # "releaseOnly" PROVE Counted'
      <3>1. Release /\ xpc' = xpc
        BY <1>2, <2>2 DEF Leave
      <3>2. d \in Callers /\ Callers' = Callers \ {d} /\ Cancellers' = Cancellers /\ Thrown
        BY <1>2, <2>2 DEF Leave, Callers, Cancellers, NeverEntered, Thrown
      <3> QED
        BY <2>2, <3>1, <3>2, OneLeaves DEF PermitInv
    <2>3. ASSUME ~Disposed', pc[d] = "releaseOnly" PROVE Counted'
      <3>1. Release /\ xpc' = xpc
        BY <1>2, <2>3 DEF Leave
      <3>2. UNCHANGED <<Callers, Cancellers>>
        BY <1>2, <2>3 DEF Leave, Callers, Cancellers
      <3>3. d \notin NeverEntered /\ NeverEntered' = NeverEntered \cup {d}
        BY <1>2, <2>3 DEF Leave, NeverEntered, PermitInv
      <3> QED
        BY <2>3, <3>1, <3>2, <3>3, OneMadeUp DEF PermitInv
    <2> QED
      BY <2>1, <2>2, <2>3 DEF PermitInv
  <1>3. CASE ~Enter(d) /\ ~Leave(d)
    BY <1>3, CallerMoves, NoneMoves DEF PermitInv
  <1> QED
    BY <1>1, <1>2, <1>3

LEMMA CancelStepPermits ==
  ASSUME TypeOK, NEW d \in Dials, CancelStep(d), PermitInv
  PROVE  PermitInv'
  <1> USE DEF TypeOK, Unregistered, Outside, CancelPC, CancelHolds, To,
        serviceVars, tokenVars, disposeVars, Disposed
  <1>1. /\ UNCHANGED <<pc, cancelled, registered, current, disposeVars>>
        /\ kpc[d] # "idle"
        /\ \A e \in Dials \ {d} : kpc'[e] = kpc[e]
    BY DEF CancelStep, CancelChecksBusy, CancelEnters, CancelHangsUp, CancelFrees,
       CancelNotBusy, CancelInspectsTask, CancelSetsCanceled, CancelLeaves
  <1>2. Unregistered'
    BY <1>1 DEF PermitInv
  <1>3. UNCHANGED <<Callers, NeverEntered, xpc>> /\ Thrown
    BY <1>1 DEF Callers, NeverEntered, Thrown
  <1>4. CASE CancelEnters(d) /\ ~Disposed
    <2>1. Take /\ d \notin Cancellers /\ Cancellers' = Cancellers \cup {d}
      BY <1>4 DEF CancelEnters, Cancellers
    <2> QED
      BY <1>2, <1>3, <1>4, <2>1, OneEnters DEF PermitInv
  <1>5. CASE CancelLeaves(d) /\ ~Disposed
    <2>1. Release /\ d \in Cancellers /\ Cancellers' = Cancellers \ {d}
      BY <1>5 DEF CancelLeaves, Cancellers
    <2> QED
      BY <1>2, <1>3, <1>5, <2>1, OneLeaves DEF PermitInv
  <1>6. CASE \/ CancelChecksBusy(d) \/ CancelHangsUp(d) \/ CancelFrees(d)
             \/ CancelNotBusy(d) \/ CancelInspectsTask(d) \/ CancelSetsCanceled(d)
    <2>1. sem' = sem /\ Cancellers' = Cancellers
      BY <1>6 DEF Cancellers, CancelChecksBusy, CancelHangsUp, CancelFrees,
         CancelNotBusy, CancelInspectsTask, CancelSetsCanceled
    <2> QED
      BY <1>2, <1>3, <2>1, NoneMoves DEF PermitInv
  <1>7. CASE Disposed
    BY <1>1, <1>2, <1>7 DEF PermitInv
  <1> QED
    BY <1>4, <1>5, <1>6, <1>7 DEF CancelStep

LEMMA EnvironmentPermits ==
  ASSUME TypeOK, NEW d \in Dials, CallbackStep(d) \/ Environment(d), PermitInv
  PROVE  PermitInv'
  <1> USE DEF TypeOK, Unregistered, Outside, CallerHolds, CancelHolds, At,
        serviceVars, tokenVars, disposeVars, Disposed
  <1>1. /\ UNCHANGED <<sem, Callers, Cancellers, xpc>> /\ Thrown
        /\ Unregistered'
    <2>1. CASE CallDialAsync(d)
      BY <2>1 DEF CallDialAsync, Callers, Cancellers, NeverEntered, Thrown, PermitInv
    <2>2. CASE CancelToken(d)
      <3>1. kpc[d] = "idle"
        BY <2>2 DEF CancelToken, PermitInv
      <3>2. Unregistered'
        BY <2>2 DEF CancelToken, PermitInv
      <3>3. UNCHANGED <<sem, Callers, Cancellers, xpc>>
        BY <2>2, <3>1 DEF CancelToken, Callers, Cancellers
      <3>4. NeverEntered' \in {NeverEntered, NeverEntered \cup {d}}
        BY <2>2 DEF CancelToken, NeverEntered
      <3> QED
        BY <3>2, <3>3, <3>4 DEF Thrown
    <2>3. CASE CallbackStep(d) \/ ReportState(d) \/ ReportOutcome(d) \/ Drop(d)
      <3>1. UNCHANGED <<sem, pc, kpc, current, cancelled>>
        BY <2>3, CallbackLeavesLockAlone
      <3>2. UNCHANGED <<registered, xpc>>
        BY <2>3 DEF CallbackStep, CaptureToken, HandleArrives, WaitThrows, PassGuards,
           CreateConnection, CompletedFrees, CompletedNotBusy, SettleTask,
           CatchHangsUp, CallbackReturns, ReportState, ReportOutcome, Drop
      <3> QED
        BY <3>1, <3>2 DEF Callers, Cancellers, NeverEntered, Thrown, PermitInv
    <2> QED
      BY <2>1, <2>2, <2>3 DEF Environment
  <1> QED
    BY <1>1, NoneMoves DEF PermitInv

LEMMA DisposePermits ==
  ASSUME TypeOK, DisposeStep \/ CallDispose, PermitInv
  PROVE  PermitInv'
  <1> USE DEF TypeOK, Unregistered, Outside, CallerHolds, CancelHolds, Disposes,
        serviceVars, tokenVars, disposeVars, Disposed
  <1>1. ~Disposed
    BY DEF DisposeStep, DisposeChecksBusy, DisposeCancels, DisposeCancelReturns,
       DisposeSource, DisposeRest, CallDispose
  <1>2. UNCHANGED <<sem, Callers, Cancellers>> /\ Unregistered'
    <2>1. CASE DisposeCancels
      <3>1. Unregistered'
        BY <2>1 DEF DisposeCancels, PermitInv
      <3>2. UNCHANGED <<sem, Callers, Cancellers>>
        BY <2>1 DEF DisposeCancels, PermitInv, Callers, Cancellers
      <3> QED
        BY <3>1, <3>2
    <2>2. CASE ~DisposeCancels
      <3>1. UNCHANGED <<sem, pc, kpc, current, cancelled>> /\ registered' \subseteq registered
        BY <2>2 DEF DisposeStep, DisposeChecksBusy, DisposeCancelReturns,
           DisposeSource, DisposeRest, CallDispose
      <3> QED
        BY <3>1 DEF Callers, Cancellers, PermitInv
    <2> QED
      BY <2>1, <2>2
  <1>3. Thrown
    <2>1. pc' = pc /\ \A d \in Dials \ {current} :
              /\ cancelled'[d] = cancelled[d]
              /\ d \in registered' <=> d \in registered
      BY DEF DisposeStep, DisposeChecksBusy, DisposeCancels, DisposeCancelReturns,
         DisposeSource, DisposeRest, CallDispose
    <2>2. NeverEntered \subseteq NeverEntered'
      BY DEF NeverEntered, DisposeStep, DisposeChecksBusy, DisposeCancels,
         DisposeCancelReturns, DisposeSource, DisposeRest, CallDispose
    <2> QED
      BY <2>1, <2>2 DEF Thrown, NeverEntered
  <1> QED
    BY <1>1, <1>2, <1>3, NoneMoves DEF PermitInv

LEMMA StutterPermits ==
  ASSUME PermitInv, UNCHANGED vars
  PROVE  PermitInv'
  <1>1. UNCHANGED <<Callers, Cancellers, NeverEntered>>
    BY DEF vars, Callers, Cancellers, NeverEntered, serviceVars, tokenVars
  <1> QED
    BY <1>1 DEF PermitInv, Unregistered, Counted, Permits, Disposed, vars, serviceVars,
       tokenVars, disposeVars

(* The permits balance: whatever fails, however dials, cancellations and   *)
(* their overlaps fall, and with no assumption on the constants, only a    *)
(* Release after a cancelled Wait ever makes a permit up.                  *)
THEOREM PermitsBalance == Spec => []PermitsAreAccountedFor
  <1>1. TypeOK /\ PermitInv /\ [Next]_vars => PermitInv'
    <2> SUFFICES ASSUME TypeOK, PermitInv, [Next]_vars PROVE PermitInv'
      OBVIOUS
    <2>1. ASSUME NEW d \in Dials,
                 DialStep(d) \/ CancelStep(d) \/ CallbackStep(d) \/ Environment(d)
          PROVE  PermitInv'
      BY <2>1, DialStepPermits, CancelStepPermits, EnvironmentPermits
    <2>2. ASSUME UNCHANGED vars PROVE PermitInv'
      BY <2>2, StutterPermits
    <2> QED
      BY <2>1, <2>2, DisposePermits DEF Next, Rest
  <1>2. PermitInv => PermitsAreAccountedFor
    BY DEF PermitInv, Counted, Permits, Callers, Cancellers, NeverEntered,
       PermitsAreAccountedFor
  <1> QED
    BY InitPermits, TypeCorrect, <1>1, <1>2, PTL DEF Spec
=============================================================================
