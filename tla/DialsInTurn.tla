----------------------------- MODULE DialsInTurn -----------------------------
(***************************************************************************)
(* Theorems about a dialer whose callers wait for one dial to end before   *)
(* they make the next, cancel a dial at most before its DialAsync has the  *)
(* lock, and do not dispose the dialer: for any number of dials, whatever  *)
(* RAS does and whichever call into Windows fails.                         *)
(*                                                                         *)
(* All of them rest on one inductive invariant, TurnInv.  It says how far  *)
(* a dial is by its own three pieces of control state (Progress,           *)
(* CallbackProgress), and that the one dial that is not over owns what the *)
(* service and its handler share (Owns).                                   *)
(***************************************************************************)
EXTENDS DialingProofs

InTurn == CancelWindows \subseteq {"before"} /\ ~Overlap /\ ~MayDispose

Building  == {"setBusy", "extensions", "params", "check", "dial"}
Calling   == {"dialing", "setHandle"}
Returned  == {"releaseReturn", "returned"}
Failing   == {"catch", "setNotBusy", "releaseThrow", "thrown"}
InTry     == {"capture", "wait", "guards", "connect", "free", "notBusy", "settle", "hangUp"}
Settling  == {"free", "notBusy", "settle"}
Ended(d)  == task[d] \in {"result", "faulted"}

(* Nobody cancels a dial that has the lock, so no cancellation callback    *)
(* ever runs, and nobody disposes anything.                                *)
Undisturbed ==
    /\ xpc = "idle"
    /\ dead = {}
    /\ \A d \in Dials :
        /\ kpc[d] = "idle"
        /\ cancelled[d] => pc[d] \in {"guard", "enter", "releaseOnly", "thrown"}
        /\ d \in registered => pc[d] \notin Outside

OneAtATime == \A d, e \in Dials : ~Over(d) /\ ~Over(e) => d = e

(* The caller's thread, the task it is about to return and the attempt.    *)
Progress(d) ==
    /\ pc[d] \in Outside \cup Building \cup {"initialize"} \cup Calling \cup Returned \cup Failing
    /\ pc[d] \in Outside => task[d] = "none" /\ eap[d] = "none"
    /\ pc[d] \in {"initialize"} \cup Building \cup Calling \cup {"catch", "setNotBusy"}
          => task[d] = "pending"
    /\ pc[d] \in Outside \cup {"initialize"} \cup Building => ras[d] = "none"
    /\ pc[d] \in Failing =>
          /\ task[d] \in {"none", "pending"}
          /\ ras[d] \in {"none", "failed", "ended"}
          /\ pc[d] = "catch" /\ ras[d] = "failed" => handle[d]
          /\ pc[d] # "catch" /\ ras[d] = "failed" => HangUpMayFail
    /\ pc[d] \in Calling \cup Returned => ras[d] # "none"
    /\ pc[d] \in Returned =>
          task[d] \in {"pending", "result", "faulted"} /\ handle[d]
    /\ pc[d] = "setHandle" => handle[d]

(* The RAS thread of the attempt.                                          *)
CallbackProgress(d) ==
    /\ cpc[d] # "idle" => pc[d] \in Calling \cup Returned /\ msg[d] # "none"
    /\ cpc[d] \in InTry => task[d] = "pending"
    /\ pc[d] \in Calling => cpc[d] \in {"idle", "capture", "wait"}
    /\ cpc[d] = "idle" /\ pc[d] \in Calling \cup Returned /\ task[d] = "pending"
          => ras[d] = "dialing"
    /\ cpc[d] # "idle" /\ msg[d] = "state" => ras[d] = "dialing" /\ task[d] = "pending"
    /\ cpc[d] # "idle" /\ msg[d] # "state" => ras[d] # "dialing"
    /\ cpc[d] \in {"capture", "wait", "guards"} /\ msg[d] = "connected"
          => ras[d] \in {"connected", "dropped"}
    /\ cpc[d] \in {"capture", "wait", "guards"} /\ msg[d] = "error"
          => ras[d] = "failed"
    /\ cpc[d] = "hangUp" => ras[d] \in {"connected", "dropped", "failed"}
    /\ cpc[d] = "connect" => ras[d] \in {"connected", "dropped"} /\ msg[d] # "state"
    /\ cpc[d] \in {"hangUp", "stopped", "escaped"} \cup Settling => msg[d] # "state"
    /\ cpc[d] = "return" /\ msg[d] # "state" => Ended(d)
    /\ cpc[d] = "stopped" => Ended(d)
    /\ cpc[d] = "escaped" => HangUpMayFail
    /\ cpc[d] = "wait" => ctok[d] = d
    /\ cpc[d] \in Settling =>
          \/ verdict[d] = "result" /\ ras[d] \in {"connected", "dropped"}
          \/ verdict[d] = "faulted" /\ ras[d] \in {"ended", "dropped"}
    /\ task[d] = "result"  => ras[d] \in {"connected", "dropped"}
    /\ task[d] = "faulted" => ras[d] \in {"ended", "dropped"}
    /\ Ended(d) => pc[d] \in Returned

(* The EAP buffer is there from BuildExtensions to the callback's          *)
(* RunPostCompleted, which comes before the task is completed.             *)
EapProgress(d) ==
    eap[d] \in IF Ended(d) \/ cpc[d] \in {"notBusy", "settle"}
               THEN {"none", "freed"} ELSE {"none", "allocated"}

(* A dial that is not over owns the fields of the service from Prepare on  *)
(* and those of the handler from InitializeCallbackHandler on.             *)
Owns(d) ==
    /\ ~Over(d) /\ pc[d] \notin Outside => current = d
    /\ pc[d] \in Building \cup Calling =>
          hTask = d /\ hContext = d /\ waiter = NoDial /\ ~completed
    /\ pc[d] \in Returned /\ task[d] = "pending" =>
          /\ hTask = d /\ hContext = d /\ waiter = d
          /\ completed <=> cpc[d] \in Settling
    /\ hContext = d /\ Ended(d) => completed

(* The dial that keeps the dialer busy: from BeginDial to RunPostCompleted *)
(* or the catch block.                                                     *)
KeepsBusy(d) ==
    \/ pc[d] \in (Building \ {"setBusy"}) \cup Calling \cup {"catch", "setNotBusy"}
    \/ pc[d] \in Returned /\ task[d] = "pending" /\ cpc[d] # "settle"

BusyIffDialing ==
    /\ \A d \in Dials : KeepsBusy(d) => busy
    /\ busy /\ ~HangUpMayFail => current \in Dials /\ KeepsBusy(current)

TurnInv ==
    /\ Undisturbed
    /\ OneAtATime
    /\ \A d \in Dials : Progress(d) /\ CallbackProgress(d) /\ EapProgress(d) /\ Owns(d)
    /\ BusyIffDialing

LEMMA DialStepTurn ==
  ASSUME InTurn, TypeOK, TurnInv, NEW d \in Dials, DialStep(d)
  PROVE  TurnInv'
  <1> USE DialAssumption DEF TypeOK, TurnInv, Undisturbed, OneAtATime, Over, Settled, Progress,
        CallbackProgress, EapProgress, Owns, KeepsBusy, BusyIffDialing, Ended,
        Outside, Building, Calling, Returned, Failing, InTry, Settling, At,
        serviceVars, handlerVars, tokenVars, attemptVars, callbackVars, disposeVars,
        Disposed, HandlerDisposed
  <1>1. CASE GuardBusy(d)
    BY <1>1 DEF GuardBusy
  <1>2. CASE Enter(d)
    BY <1>2 DEF Enter, Take
  <1>3. CASE EnterIsCancelled(d)
    BY <1>3 DEF EnterIsCancelled
  <1>4. CASE EnterIsDisposed(d)
    BY <1>4 DEF EnterIsDisposed
  <1>5. CASE Prepare(d)
    BY <1>5 DEF Prepare
  <1>6. CASE RegisterReturns(d)
    BY <1>6 DEF RegisterReturns
  <1>7. CASE InitializeCallbackHandler(d)
    <2>1. current = d /\ ~InitializeThrows
      BY <1>7 DEF InitializeCallbackHandler, InitializeThrows
    <2> QED
      BY <1>7, <2>1 DEF InitializeCallbackHandler, InitializeHandler, ResetWaiter
  <1>8. CASE SetBusy(d)
    BY <1>8 DEF SetBusy
  <1>9. CASE BuildExtensions(d)
    <2>1. CASE pc' = [pc EXCEPT ![d] = "params"]
      <3>1. PICK b \in {"allocated", "none"} : eap' = [eap EXCEPT ![d] = b]
        BY <1>9, <2>1 DEF BuildExtensions
      <3> QED
        BY <1>9, <2>1, <3>1 DEF BuildExtensions
    <2>2. CASE UNCHANGED eap /\ pc' = [pc EXCEPT ![d] = "catch"]
      BY <1>9, <2>2 DEF BuildExtensions
    <2> QED
      BY <1>9, <2>1, <2>2 DEF BuildExtensions
  <1>10. CASE BuildParams(d)
    BY <1>10 DEF BuildParams
  <1>11. CASE CheckToken(d)
    BY <1>11 DEF CheckToken
  <1>12. CASE RasDialStarts(d)
    BY <1>12 DEF RasDialStarts
  <1>13. CASE RasDialFails(d)
    BY <1>13 DEF RasDialFails
  <1>14. CASE RasDialReturns(d)
    BY <1>14 DEF RasDialReturns
  <1>15. CASE TransferHandle(d)
    BY <1>15 DEF TransferHandle, SetHandle
  <1>16. CASE CatchHangUp(d)
    BY <1>16 DEF CatchHangUp, HangUpIfNecessary, HangUp, Live
  <1>17. CASE CatchNotBusy(d)
    BY <1>17 DEF CatchNotBusy, SetNotBusy
  <1>18. CASE Leave(d)
    BY <1>18 DEF Leave, Release
  <1> QED
    BY <1>1, <1>2, <1>3, <1>4, <1>5, <1>6, <1>7, <1>8, <1>9, <1>10, <1>11, <1>12,
       <1>13, <1>14, <1>15, <1>16, <1>17, <1>18 DEF DialStep

LEMMA CancelStepTurn ==
  ASSUME TurnInv, NEW d \in Dials
  PROVE  ~CancelStep(d)
  BY DEF TurnInv, Undisturbed, CancelStep, CancelChecksBusy, CancelEnters,
     CancelHangsUp, CancelFrees, CancelNotBusy, CancelInspectsTask,
     CancelSetsCanceled, CancelLeaves, To

LEMMA DisposeTurn ==
  ASSUME InTurn, TurnInv
  PROVE  ~DisposeStep /\ ~CallDispose
  BY DEF InTurn, TurnInv, Undisturbed, DisposeStep, DisposeChecksBusy, DisposeCancels,
     DisposeCancelReturns, DisposeSource, DisposeRest, CallDispose, Disposes

LEMMA CallbackStepTurn ==
  ASSUME InTurn, TypeOK, TurnInv, NEW d \in Dials, CallbackStep(d)
  PROVE  TurnInv'
  <1> USE DialAssumption DEF TypeOK, TurnInv, Undisturbed, OneAtATime, Over, Settled, Progress,
        CallbackProgress, EapProgress, Owns, KeepsBusy, BusyIffDialing, Ended,
        Outside, Building, Calling, Returned, Failing, InTry, Settling, Goes,
        serviceVars, handlerVars, tokenVars, attemptVars, callbackVars, disposeVars,
        Disposed, HandlerDisposed
  <1>1. CASE CaptureToken(d)
    BY <1>1 DEF CaptureToken
  <1>2. CASE HandleArrives(d)
    BY <1>2 DEF HandleArrives, WaitOver
  <1>3. CASE WaitThrows(d)
    BY <1>3 DEF WaitThrows
  <1>4. CASE PassGuards(d)
    BY <1>4 DEF PassGuards, GuardFails
  <1>5. CASE CreateConnection(d)
    BY <1>5 DEF CreateConnection, ConnectionExists
  <1>6. CASE CompletedFrees(d)
    BY <1>6 DEF CompletedFrees, FreeEap
  <1>7. CASE CompletedNotBusy(d)
    BY <1>7 DEF CompletedNotBusy, SetNotBusy
  <1>8. CASE SettleTask(d)
    BY <1>8 DEF SettleTask
  <1>9. CASE CatchHangsUp(d)
    BY <1>9 DEF CatchHangsUp, HangUpConnection, HangUp, Live
  <1>10. CASE CallbackReturns(d)
    BY <1>10 DEF CallbackReturns
  <1> QED
    BY <1>1, <1>2, <1>3, <1>4, <1>5, <1>6, <1>7, <1>8, <1>9, <1>10 DEF CallbackStep

LEMMA EnvironmentTurn ==
  ASSUME InTurn, TypeOK, TurnInv, NEW d \in Dials, Environment(d)
  PROVE  TurnInv'
  <1> USE DialAssumption DEF TypeOK, TurnInv, Undisturbed, OneAtATime, Over, Settled, Progress,
        CallbackProgress, EapProgress, Owns, KeepsBusy, BusyIffDialing, Ended,
        Outside, Building, Calling, Returned, Failing, InTry, Settling, Goes, At,
        serviceVars, handlerVars, tokenVars, attemptVars, callbackVars, disposeVars
  <1>1. CASE CallDialAsync(d)
    BY <1>1 DEF CallDialAsync, MayCall, InTurn
  <1>2. CASE CancelToken(d)
    BY <1>2 DEF CancelToken, MayCancel, InTurn
  <1>3. CASE ReportState(d)
    BY <1>3 DEF ReportState, CallbackBegins
  <1>4. CASE ReportOutcome(d)
    BY <1>4 DEF ReportOutcome, CallbackBegins
  <1>5. CASE Drop(d)
    BY <1>5 DEF Drop
  <1> QED
    BY <1>1, <1>2, <1>3, <1>4, <1>5 DEF Environment

LEMMA TurnStep ==
  ASSUME InTurn, TypeOK, TurnInv, [Next]_vars
  PROVE  TurnInv'
  <1>1. CASE UNCHANGED vars
    BY <1>1 DEF vars, TurnInv, Undisturbed, OneAtATime, Over, Settled, Progress,
        CallbackProgress, EapProgress, Owns, KeepsBusy, BusyIffDialing, Ended,
        serviceVars, handlerVars, tokenVars, attemptVars, callbackVars, disposeVars
  <1> QED
    BY <1>1, DialStepTurn, CancelStepTurn, CallbackStepTurn, EnvironmentTurn, DisposeTurn
    DEF Next, Rest

LEMMA InitTurn == Init => TurnInv
  BY DialAssumption DEF Init, TurnInv, Undisturbed, OneAtATime, Over, Settled, Progress,
     CallbackProgress, EapProgress, Owns, KeepsBusy, BusyIffDialing, Ended,
     Outside, Building, Calling, Returned, Failing, InTry, Settling

LEMMA TurnInvariant ==
  ASSUME InTurn
  PROVE  Spec => []TurnInv
  <1>1. TypeOK /\ TurnInv /\ [Next]_vars => TurnInv'
    BY TurnStep
  <1> QED
    BY InitTurn, TypeCorrect, <1>1, PTL DEF Spec

-----------------------------------------------------------------------------
(* The handle handshake works for every dial in turn: OnCallback, past its *)
(* wait, finds in the handler the handle that RasDial returned for its own *)
(* attempt, whichever dials the handler served before.                     *)
THEOREM HandshakeHolds ==
  ASSUME InTurn
  PROVE  Spec => []HandleIsOurs
  <1>1. TurnInv => HandleIsOurs
    BY DEF TurnInv, CallbackProgress, Owns, Progress, HandleIsOurs, InTry, Calling, Returned
  <1> QED
    BY TurnInvariant, <1>1, PTL

(* A connection that was given to a caller is never hung up by the dialer. *)
THEOREM ResultsStay ==
  ASSUME InTurn
  PROVE  Spec => []ResultStaysConnected
  <1>1. TurnInv => ResultStaysConnected
    BY DEF TurnInv, CallbackProgress, ResultStaysConnected
  <1> QED
    BY TurnInvariant, <1>1, PTL

(* IsBusy stays set while a caller awaits its task.                        *)
THEOREM BusyUntilSettled ==
  ASSUME InTurn
  PROVE  Spec => []BusyWhilePending
  <1>1. TurnInv => BusyWhilePending
    BY DEF TurnInv, BusyIffDialing, KeepsBusy, BusyWhilePending, Returned
  <1> QED
    BY TurnInvariant, <1>1, PTL

(* IsBusy is reset by whatever ends a dial, as long as RasHangUp works.    *)
THEOREM NotBusyWhenOver ==
  ASSUME InTurn, "hangup" \notin Failures
  PROVE  Spec => []IdleIsNotBusy
  <1>1. TurnInv => IdleIsNotBusy
    BY DEF TurnInv, BusyIffDialing, KeepsBusy, IdleIsNotBusy, HangUpMayFail, Over,
       Settled, Building, Calling, Returned
  <1> QED
    BY TurnInvariant, <1>1, PTL

(* No attempt and no connection outlives a dial that failed.               *)
THEOREM NothingIsOrphaned ==
  ASSUME InTurn, "hangup" \notin Failures
  PROVE  Spec => []NoOrphanedAttempt
  <1>1. TypeOK /\ TurnInv => NoOrphanedAttempt
    BY DEF TypeOK, TurnInv, Progress, CallbackProgress, NoOrphanedAttempt, Live, HangUpMayFail,
       Outside, Building, Calling, Returned, Failing
  <1> QED
    BY TypeCorrect, TurnInvariant, <1>1, PTL

(* The EAP buffer of an attempt is freed, once.                            *)
THEOREM EapIsFreedOnce ==
  ASSUME InTurn, "hangup" \notin Failures
  PROVE  Spec => []EapFreedOnce
  <1>1. TypeOK /\ TurnInv => EapFreedOnce
    <2> SUFFICES ASSUME TypeOK, TurnInv PROVE EapFreedOnce
      OBVIOUS
    <2>1. ASSUME NEW d \in Dials
          PROVE  /\ eap[d] # "freedTwice"
                 /\ task[d] \in {"result", "faulted"} => eap[d] # "allocated"
      BY DEF TurnInv, EapProgress, Ended
    <2>2. ASSUME Quiet, NEW d \in Dials, eap[d] = "allocated", ras[d] # "none"
          PROVE  pc[d] = "thrown"
      BY <2>2 DEF TurnInv, EapProgress, Ended, Quiet, Progress, CallbackProgress,
         HangUpMayFail, Outside, Returned, Calling
    <2> QED
      BY <2>1, <2>2 DEF EapFreedOnce
  <1> QED
    BY TypeCorrect, TurnInvariant, <1>1, PTL

(* OnCallback never throws into the RAS thread: neither its wait, whose    *)
(* token nobody cancels, nor SetException, whose task nobody else settles. *)
THEOREM NothingEscapes ==
  ASSUME InTurn, "hangup" \notin Failures
  PROVE  Spec => []NothingEscapesToRas
  <1>1. TurnInv => NothingEscapesToRas
    BY DEF TurnInv, CallbackProgress, NothingEscapesToRas, HangUpMayFail
  <1> QED
    BY TurnInvariant, <1>1, PTL

(* The callback that completed a dial answers FALSE, until another dial    *)
(* takes the handler over.                                                 *)
THEOREM LastCallbackStopsRas ==
  ASSUME InTurn
  PROVE  Spec => LastCallbackStops
  <1> DEFINE Stops == \A d \in Dials :
               cpc[d] = "return" /\ msg[d] # "state" /\ hContext = d => cpc'[d] # "idle"
  <1>1. TypeOK /\ TurnInv /\ [Next]_vars => [Stops]_vars
    <2> SUFFICES ASSUME TypeOK, TurnInv, Next, NEW d \in Dials,
                        cpc[d] = "return", msg[d] # "state", hContext = d
                 PROVE  cpc'[d] # "idle"
      OBVIOUS
    <2>1. completed
      BY DEF TurnInv, CallbackProgress, Owns
    <2>2. ASSUME NEW e \in Dials, CallbackStep(e)
          PROVE  cpc'[d] # "idle"
      BY <2>1, <2>2 DEF TypeOK, CallbackStep, CaptureToken, HandleArrives, WaitThrows, PassGuards,
         CreateConnection, CompletedFrees, CompletedNotBusy, SettleTask,
         CatchHangsUp, CallbackReturns, Goes
    <2>3. ASSUME NEW e \in Dials, DialStep(e) PROVE cpc' = cpc
      BY <2>3 DEF DialStep, GuardBusy, Enter, EnterIsCancelled, EnterIsDisposed,
         Prepare, RegisterReturns, InitializeCallbackHandler, SetBusy,
         BuildExtensions, BuildParams, CheckToken, RasDialStarts, RasDialFails,
         RasDialReturns, TransferHandle, CatchHangUp, CatchNotBusy, Leave, callbackVars
    <2>4. ASSUME NEW e \in Dials, Environment(e) PROVE cpc'[d] # "idle"
      BY <2>4 DEF TypeOK, Environment, CallDialAsync, CancelToken, ReportState, ReportOutcome,
         Drop, CallbackBegins, Goes, callbackVars
    <2>5. CASE Rest
      BY <2>5 DEF Rest, vars, callbackVars
    <2> QED
      BY <2>2, <2>3, <2>4, <2>5, CancelStepTurn, DisposeTurn DEF Next
  <1> QED
    BY TypeCorrect, TurnInvariant, <1>1, PTL DEF Spec, LastCallbackStops

-----------------------------------------------------------------------------
(* A dialer used in turn implements DialPromise: what its tasks, attempts  *)
(* and tokens do is what that module allows.                               *)

Status == [d \in Dials |-> StatusOf(d)]
Line   == [d \in Dials |-> LineOf(d)]
Told   == <<Status, Line, cancelled>>

(* What the owner of a step may change is its own status and line.         *)
LEMMA StatusBecomes ==
  ASSUME NEW d \in Dials,
         \A e \in Dials \ {d} : task'[e] = task[e] /\ pc'[e] = pc[e]
  PROVE  Status' = [Status EXCEPT ![d] = StatusOf(d)']
  BY DEF Status, StatusOf

LEMMA LineBecomes ==
  ASSUME NEW d \in Dials,
         \A e \in Dials \ {d} : ras'[e] = ras[e]
  PROVE  Line' = [Line EXCEPT ![d] = LineOf(d)']
  BY DEF Line, LineOf, Live

LEMMA InitTold == Init => Promise!Init
  BY DEF Init, Promise!Init, StatusOf, LineOf, Live

LEMMA DialStepTold ==
  ASSUME InTurn, "hangup" \notin Failures,
         TypeOK, TurnInv, NEW d \in Dials, DialStep(d)
  PROVE  [Promise!Next]_Told
  <1> USE DEF At
  <1>0. pc \in [Dials -> CallerPC]
    BY DEF TypeOK
  <1>1. /\ \A e \in Dials \ {d} : pc'[e] = pc[e]
        /\ \A e \in Dials \ {d} : task'[e] = task[e]
        /\ \A e \in Dials \ {d} : ras'[e] = ras[e]
        /\ cancelled' = cancelled
    BY DEF TypeOK, TurnInv, Undisturbed, Owns, Progress, DialStep, GuardBusy, Enter,
       EnterIsCancelled, EnterIsDisposed, Prepare, RegisterReturns, Over, Outside,
       InitializeCallbackHandler, SetBusy, BuildExtensions, BuildParams, CheckToken,
       RasDialStarts, RasDialFails, RasDialReturns, TransferHandle, CatchHangUp,
       CatchNotBusy, Leave, HangUpIfNecessary, HangUp, tokenVars, attemptVars
  <1>2. /\ Status' = [Status EXCEPT ![d] = StatusOf(d)']
        /\ Line' = [Line EXCEPT ![d] = LineOf(d)']
    BY <1>1, StatusBecomes, LineBecomes
  <1>3. CASE UNCHANGED <<task[d], ras[d]>> /\ pc'[d] # "thrown" /\ pc[d] # "thrown"
    <2>1. StatusOf(d)' = StatusOf(d) /\ LineOf(d)' = LineOf(d)
      BY <1>3 DEF StatusOf, LineOf, Live
    <2> QED
      BY <1>1, <1>2, <2>1 DEF Told, Status, Line
  <1>4. CASE pc'[d] = "thrown" /\ pc[d] # "thrown"
    <2>1. pc[d] \in {"guard", "enter", "releaseThrow", "releaseOnly"} /\ UNCHANGED <<task, ras>>
      BY <1>0, <1>4 DEF DialStep, GuardBusy, Enter, EnterIsCancelled, EnterIsDisposed,
         Prepare, RegisterReturns, InitializeCallbackHandler, SetBusy, BuildExtensions,
         BuildParams, CheckToken, RasDialStarts, RasDialFails, RasDialReturns,
         TransferHandle, CatchHangUp, CatchNotBusy, Leave, attemptVars, Disposed,
         TurnInv, Undisturbed
    <2>2. task[d] \in {"none", "pending"} /\ ~Live(d)
      BY <2>1 DEF TurnInv, Progress, Outside, Failing, Live, HangUpMayFail
    <2>3. Line[d] # "up" /\ Line' = Line
      BY <2>1, <2>2 DEF Line, LineOf, Live
    <2>4. Status[d] \in {"idle", "dialing"}
      BY <1>4, <2>2 DEF Status, StatusOf
    <2>5. Status' = [Status EXCEPT ![d] = "rejected"]
      BY <1>2, <1>4 DEF StatusOf
    <2> QED
      BY <1>1, <2>3, <2>4, <2>5 DEF Promise!Next, Promise!Reject, Promise!Becomes, Status, Line
  <1>5. CASE Prepare(d)
    <2>1. /\ pc[d] = "prepare" /\ pc'[d] # "thrown" /\ ras' = ras
          /\ task[d] = "none" /\ task'[d] = "pending"
      BY <1>0, <1>5 DEF Prepare, TypeOK, TurnInv, Progress, Undisturbed, Outside, attemptVars
    <2>2. \A e \in Dials : Status[e] # "dialing"
      BY <2>1 DEF TypeOK, TurnInv, OneAtATime, Over, Settled, Progress, Outside, Status, StatusOf
    <2>3. Status[d] = "idle" /\ Status' = [Status EXCEPT ![d] = "dialing"]
      BY <1>2, <2>1 DEF Status, StatusOf
    <2>4. Line' = Line
      BY <2>1 DEF Line, LineOf, Live
    <2> QED
      BY <1>1, <2>2, <2>3, <2>4 DEF Promise!Next, Promise!Accept, Promise!Becomes, Status, Line
  <1>6. CASE RasDialStarts(d) \/ RasDialFails(d)
    <2>1. /\ pc[d] = "dial" /\ pc'[d] # "thrown" /\ task' = task
          /\ task[d] = "pending" /\ ras[d] = "none"
      BY <1>0, <1>6 DEF RasDialStarts, RasDialFails, TurnInv, Progress, Building
    <2>2. Status[d] = "dialing" /\ Status' = Status
      BY <1>1, <1>2, <2>1 DEF Status, StatusOf
    <2>3. CASE ras' = ras
      BY <1>3, <2>1, <2>3
    <2>4. CASE ras'[d] \in {"dialing", "failed"}
      <3>1. Line[d] = "none" /\ Line' = [Line EXCEPT ![d] = "up"]
        BY <1>2, <2>1, <2>4 DEF Line, LineOf, Live
      <3> QED
        BY <1>1, <2>2, <3>1 DEF Promise!Next, Promise!Open, Promise!LineIs, Status, Line
    <2> QED
      BY <1>6, <2>3, <2>4 DEF RasDialStarts, RasDialFails, TypeOK
  <1>7. CASE CatchHangUp(d)
    <2>1. /\ pc[d] = "catch" /\ pc'[d] # "thrown" /\ task' = task /\ task[d] = "pending"
          /\ ras'[d] = ras[d] \/ (Live(d) /\ ras'[d] = "ended")
      BY <1>0, <1>7 DEF CatchHangUp, HangUpIfNecessary, HangUp, TurnInv, Progress, TypeOK
    <2>2. Status[d] = "dialing" /\ Status' = Status
      BY <1>1, <1>2, <2>1 DEF Status, StatusOf
    <2>3. CASE ras'[d] = ras[d]
      BY <1>3, <2>1, <2>3
    <2>4. CASE Live(d) /\ ras'[d] = "ended"
      <3>1. Line[d] = "up" /\ Line' = [Line EXCEPT ![d] = "cut"]
        BY <1>2, <2>4 DEF Line, LineOf, Live
      <3> QED
        BY <1>1, <2>2, <3>1 DEF Promise!Next, Promise!Cut, Promise!LineIs, Status, Line
    <2> QED
      BY <2>1, <2>3, <2>4
  <1>8. CASE CheckToken(d)
    BY <1>0, <1>3, <1>8 DEF CheckToken, TurnInv, Owns, Undisturbed, Building, Outside, Over,
       attemptVars
  <1> QED
    BY <1>0, <1>3, <1>4, <1>5, <1>6, <1>7, <1>8 DEF DialStep, GuardBusy, Enter,
       EnterIsCancelled, EnterIsDisposed, RegisterReturns,
       InitializeCallbackHandler, SetBusy, BuildExtensions, BuildParams,
       RasDialReturns, TransferHandle, CatchNotBusy, Leave, attemptVars

LEMMA CallbackStepTold ==
  ASSUME TypeOK, TurnInv, NEW d \in Dials, CallbackStep(d)
  PROVE  [Promise!Next]_Told
  <1>1. CASE SettleTask(d)
    <2>1. /\ hTask = d /\ task[d] = "pending" /\ pc[d] # "thrown"
          /\ \/ verdict[d] = "result" /\ ras[d] \in {"connected", "dropped"}
             \/ verdict[d] = "faulted" /\ ras[d] \in {"ended", "dropped"}
      BY <1>1 DEF SettleTask, Goes, TurnInv, CallbackProgress, Owns, InTry, Settling,
         Calling, Returned
    <2>2. /\ UNCHANGED <<pc, ras, cancelled>>
          /\ task' = [task EXCEPT ![d] = verdict[d]]
      BY <1>1, <2>1 DEF SettleTask, attemptVars, tokenVars
    <2>3. /\ \A e \in Dials \ {d} : task'[e] = task[e] /\ pc'[e] = pc[e]
          /\ task'[d] = verdict[d]
      BY <2>2 DEF TypeOK
    <2>4. Status[d] = "dialing" /\ Line' = Line
      BY <2>1, <2>2 DEF Status, StatusOf, Line, LineOf, Live
    <2>5. CASE verdict[d] = "result"
      <3>1. Status' = [Status EXCEPT ![d] = "connected"] /\ Line[d] \in {"up", "lost"}
        BY <2>1, <2>2, <2>3, <2>5, StatusBecomes DEF StatusOf, Line, LineOf, Live
      <3> QED
        BY <2>2, <2>4, <3>1 DEF Promise!Next, Promise!Connect, Promise!Becomes, Status, Line
    <2>6. CASE verdict[d] = "faulted"
      <3>1. Status' = [Status EXCEPT ![d] = "faulted"] /\ Line[d] # "up"
        BY <2>1, <2>2, <2>3, <2>6, StatusBecomes DEF StatusOf, Line, LineOf, Live
      <3> QED
        BY <2>2, <2>4, <3>1 DEF Promise!Next, Promise!Fault, Promise!Becomes, Status, Line
    <2> QED
      BY <2>1, <2>5, <2>6
  <1>2. CASE CatchHangsUp(d)
    <2>1. /\ UNCHANGED <<task, pc, cancelled>>
          /\ UNCHANGED ras \/ HangUp(d)
          /\ task[d] = "pending" /\ pc[d] # "thrown"
      BY <1>2 DEF CatchHangsUp, HangUpConnection, Goes, tokenVars, TurnInv, CallbackProgress,
         Owns, InTry, Calling, Returned
    <2>2. Status' = Status /\ Status[d] = "dialing"
      BY <2>1 DEF Status, StatusOf
    <2>3. CASE UNCHANGED ras
      BY <2>1, <2>2, <2>3 DEF Told, Line, LineOf, Live
    <2>4. CASE HangUp(d) /\ ~Live(d)
      BY <2>1, <2>2, <2>4 DEF Told, Line, LineOf, Live, HangUp, TypeOK
    <2>5. CASE HangUp(d) /\ Live(d)
      <3>1. ras'[d] = "ended" /\ \A e \in Dials \ {d} : ras'[e] = ras[e]
        BY <2>5 DEF HangUp, TypeOK
      <3>2. Line[d] = "up" /\ Line' = [Line EXCEPT ![d] = "cut"]
        BY <2>5, <3>1, LineBecomes DEF Line, LineOf, Live
      <3> QED
        BY <2>1, <2>2, <3>2 DEF Promise!Next, Promise!Cut, Promise!LineIs, Status, Line
    <2> QED
      BY <2>1, <2>3, <2>4, <2>5
  <1>3. CASE UNCHANGED <<task, pc, ras, cancelled>>
    BY <1>3 DEF Told, Status, StatusOf, Line, LineOf, Live
  <1> QED
    BY <1>1, <1>2, <1>3 DEF CallbackStep, CaptureToken, HandleArrives, WaitThrows,
       PassGuards, CreateConnection, CompletedFrees, CompletedNotBusy,
       CallbackReturns, tokenVars, attemptVars

LEMMA EnvironmentTold ==
  ASSUME TypeOK, NEW d \in Dials, Environment(d)
  PROVE  [Promise!Next]_Told
  <1>1. CASE CallDialAsync(d)
    <2>1. /\ UNCHANGED <<task, ras, cancelled>>
          /\ \A e \in Dials : pc[e] = "thrown" <=> pc'[e] = "thrown"
      BY <1>1 DEF CallDialAsync, At, TypeOK, tokenVars, attemptVars
    <2> QED
      BY <2>1 DEF Told, Status, StatusOf, Line, LineOf, Live
  <1>2. CASE CancelToken(d)
    <2>1. /\ UNCHANGED <<task, pc, ras>>
          /\ cancelled' = [cancelled EXCEPT ![d] = TRUE]
      BY <1>2 DEF CancelToken, attemptVars
    <2>2. Status' = Status /\ Line' = Line
      BY <2>1 DEF Status, StatusOf, Line, LineOf, Live
    <2> QED
      BY <2>1, <2>2 DEF Promise!Next, Promise!Ask, Status, Line
  <1>3. CASE ReportState(d) \/ ReportOutcome(d)
    <2>1. /\ UNCHANGED <<task, pc, cancelled>>
          /\ \/ ras' = ras
             \/ /\ ras[d] = "dialing" /\ ras'[d] \in {"connected", "failed"}
                /\ \A e \in Dials \ {d} : ras'[e] = ras[e]
      BY <1>3 DEF ReportState, ReportOutcome, TypeOK, tokenVars
    <2> QED
      BY <2>1 DEF Told, Status, StatusOf, Line, LineOf, Live
  <1>4. CASE Drop(d)
    <2>1. /\ UNCHANGED <<task, pc, cancelled>>
          /\ ras[d] = "connected" /\ ras'[d] = "dropped"
          /\ \A e \in Dials \ {d} : ras'[e] = ras[e]
      BY <1>4 DEF Drop, TypeOK, tokenVars
    <2>2. Line[d] = "up" /\ Line' = [Line EXCEPT ![d] = "lost"]
      BY <2>1, LineBecomes DEF Line, LineOf, Live
    <2>3. Status' = Status
      BY <2>1 DEF Status, StatusOf
    <2> QED
      BY <2>1, <2>2, <2>3 DEF Promise!Next, Promise!Lose, Promise!LineIs, Status, Line
  <1> QED
    BY <1>1, <1>2, <1>3, <1>4 DEF Environment

(* Every step of the dialer is a step DialPromise allows, or no step: one  *)
(* dial at a time, one end for each, no connection cut under a caller who  *)
(* did not ask, and no end but "connected" while the line is up.           *)
THEOREM StaysInPromise ==
  ASSUME InTurn, "hangup" \notin Failures
  PROVE  Spec => Promise!Allowed
  <1>1. TypeOK /\ TurnInv /\ [Next]_vars => [Promise!Next]_Told
    <2>1. CASE UNCHANGED vars
      BY <2>1 DEF vars, Told, Status, StatusOf, Line, LineOf, Live, tokenVars, attemptVars
    <2> QED
      BY <2>1, DialStepTold, CancelStepTurn, CallbackStepTold, EnvironmentTold, DisposeTurn
      DEF Next, Rest
  <1> QED
    BY <1>1, TypeCorrect, TurnInvariant, InitTold, PTL
    DEF Spec, Promise!Allowed, Promise!vars, Told, Status, Line
=============================================================================
