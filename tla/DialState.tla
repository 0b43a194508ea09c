------------------------------- MODULE DialState -------------------------------
(***************************************************************************)
(* The state shared by the parts of one RasDialer: the dial service        *)
(* (RasDialService.cs), its callback handler                               *)
(* (DefaultRasDialCallbackHandler.cs with the ValueWaiter it owns), the    *)
(* RAS subsystem of Windows and the code that uses the dialer.             *)
(*                                                                         *)
(* A dial d is one call of DialAsync with a RasDialContext and a           *)
(* cancellation token of its own.  It involves three threads:              *)
(*   pc[d]   the caller's, inside DialAsync;                               *)
(*   kpc[d]  the one that cancels d's token, inside                        *)
(*           OnCancellationRequestedCallback;                              *)
(*   cpc[d]  the RAS thread of d's attempt, inside OnCallback.             *)
(* xpc is the thread that disposes the dialer.                             *)
(* Each location is named after the statement the thread runs next.        *)
(***************************************************************************)
EXTENDS Naturals

CONSTANTS
    Dials,          \* the calls of DialAsync made on one dialer
    NoDial,         \* "no dial": a null field, a zero handle
    MaxStates,      \* bound: intermediate state notifications per attempt
    CancelWindows,  \* when a caller may cancel the token of a dial
    EapData,        \* whether an entry has EAP data, a set of Booleans
    Failures,       \* which calls into Windows may fail
    MayDispose,     \* TRUE: the dialer may be disposed, at any time
    Overlap,        \* TRUE: callers do not wait for the previous dial to end
    Inline          \* TRUE: a caller may redial in a continuation that runs
                    \* on the thread that cancelled the previous dial

ASSUME DialAssumption ==
    /\ NoDial \notin Dials
    /\ MaxStates \in Nat
    /\ CancelWindows \subseteq {"before", "during", "late"}
    /\ EapData \in SUBSET BOOLEAN
    /\ Failures \subseteq {"build", "dial", "hangup", "enum", "drop"}
    /\ MayDispose \in BOOLEAN
    /\ Overlap \in BOOLEAN
    /\ Inline \in BOOLEAN

VARIABLES
    sem,        \* count of the service's SyncRoot, a SemaphoreSlim(1)
    busy,       \* RasDialService.IsBusy
    current,    \* the dial CompletionSource and CancellationSource belong to
    hTask,      \* the dial whose completion source and token the handler has
    hContext,   \* the dial whose context the handler's onCompleted closes over
    waiter,     \* ValueWaiter: the handle (its dial), NoDial while not set
    completed,  \* DefaultRasDialCallbackHandler.Completed
    task,       \* the Task of each dial's completion source
    handle,     \* context.Handle is not zero
    eap,        \* the unmanaged EAP buffer in context.RasDialExtensions
    cancelled,  \* each dial's token
    registered, \* dials whose cancellation callback is registered
    dead,       \* dials whose linked cancellation source was disposed
    ras,        \* each attempt as RAS sees it
    notified,   \* intermediate states RAS reported for an attempt
    pc, kpc, cpc, xpc,
    xdial,      \* the dial whose callback the disposing thread runs
    msg,        \* the notification the RAS thread is delivering
    ctok,       \* the token that thread waits with
    verdict,    \* the outcome that thread is about to set
    host        \* the cancelling thread a DialAsync call runs on, if any

disposeVars  == <<xpc, xdial>>
serviceVars  == <<busy, current>>
handlerVars  == <<hTask, hContext, waiter, completed>>
tokenVars    == <<cancelled, registered, dead>>
attemptVars  == <<ras, notified>>
callbackVars == <<cpc, msg, ctok, verdict>>
vars == <<sem, serviceVars, handlerVars, task, handle, eap, tokenVars,
          attemptVars, pc, kpc, callbackVars, disposeVars, host>>

-----------------------------------------------------------------------------
(* Locations.  A caller or a cancelling thread in one of the Holds sets    *)
(* has passed SyncRoot.Wait and has not yet called SyncRoot.Release.       *)

CallerHolds ==
    {"prepare", "registering", "initialize", "setBusy", "extensions",
     "params", "check", "dial", "dialing", "setHandle", "catch",
     "setNotBusy", "releaseReturn", "releaseThrow"}
CallerPC ==
    CallerHolds \cup {"idle", "guard", "enter", "releaseOnly", "returned", "thrown"}

CancelHolds ==
    {"hangUp", "free", "notBusy", "inspect", "setCanceled", "continue",
     "release", "releaseThrow"}
CancelPC == CancelHolds \cup {"idle", "check", "enter", "done", "threw"}

CallbackPC ==
    {"idle", "capture", "wait", "guards", "connect", "free", "notBusy",
     "settle", "hangUp", "return", "stopped", "escaped"}

DisposePC ==
    {"idle", "check", "cancel", "cancelling", "source", "handler", "base",
     "done", "threw"}
HandlerDisposed == xpc \in {"base", "done"}
Disposed        == xpc = "done"

TaskState    == {"none", "pending", "result", "canceled", "faulted"}
Settled(d)   == task[d] \in {"result", "canceled", "faulted"}
AttemptState == {"none", "dialing", "connected", "failed", "ended", "dropped"}
Live(d)      == ras[d] \in {"dialing", "connected", "failed"}
EapState     == {"none", "allocated", "freed", "freedTwice"}

(* The type invariant. *)
TypeOK ==
    /\ sem \in Nat
    /\ busy \in BOOLEAN
    /\ current \in Dials \cup {NoDial}
    /\ hTask \in Dials \cup {NoDial}
    /\ hContext \in Dials \cup {NoDial}
    /\ waiter \in Dials \cup {NoDial}
    /\ completed \in BOOLEAN
    /\ task \in [Dials -> TaskState]
    /\ handle \in [Dials -> BOOLEAN]
    /\ eap \in [Dials -> EapState]
    /\ cancelled \in [Dials -> BOOLEAN]
    /\ registered \in SUBSET Dials
    /\ dead \in SUBSET Dials
    /\ ras \in [Dials -> AttemptState]
    /\ notified \in [Dials -> 0..MaxStates]
    /\ pc \in [Dials -> CallerPC]
    /\ kpc \in [Dials -> CancelPC]
    /\ cpc \in [Dials -> CallbackPC]
    /\ xpc \in DisposePC
    /\ xdial \in Dials \cup {NoDial}
    /\ msg \in [Dials -> {"none", "state", "connected", "error"}]
    /\ ctok \in [Dials -> Dials \cup {NoDial}]
    /\ verdict \in [Dials -> {"none", "result", "faulted"}]
    /\ host \in [Dials -> Dials \cup {NoDial}]

(* A dialer just constructed: SyncRoot is free and nothing was dialed. *)
Init ==
    /\ sem = 1
    /\ busy = FALSE
    /\ current = NoDial
    /\ hTask = NoDial
    /\ hContext = NoDial
    /\ waiter = NoDial
    /\ completed = FALSE
    /\ task = [d \in Dials |-> "none"]
    /\ handle = [d \in Dials |-> FALSE]
    /\ eap = [d \in Dials |-> "none"]
    /\ cancelled = [d \in Dials |-> FALSE]
    /\ registered = {}
    /\ dead = {}
    /\ ras = [d \in Dials |-> "none"]
    /\ notified = [d \in Dials |-> 0]
    /\ pc = [d \in Dials |-> "idle"]
    /\ kpc = [d \in Dials |-> "idle"]
    /\ cpc = [d \in Dials |-> "idle"]
    /\ xpc = "idle"
    /\ xdial = NoDial
    /\ msg = [d \in Dials |-> "none"]
    /\ ctok = [d \in Dials |-> NoDial]
    /\ verdict = [d \in Dials |-> "none"]
    /\ host = [d \in Dials |-> NoDial]

-----------------------------------------------------------------------------
(* Operations that more than one of the threads performs.  A definition    *)
(* marked "Defect" is a wrong version of the one after it; the runs show   *)
(* that a property fails with it.                                          *)

(* Defect: does not wait for the permit. *)
TakeUnwaited == sem' = sem - 1

(* SyncRoot.Wait: takes the permit when there is one. *)
Take == sem > 0 /\ sem' = sem - 1

(* Defect: a path that leaves without releasing. *)
KeepPermit == UNCHANGED sem

(* SyncRoot.Release, which knows no maximum. *)
Release == sem' = sem + 1

(* RasHangUp on the handle of dial d: the attempt or the connection ends;  *)
(* on a handle that has no connection any more it changes nothing.         *)
HangUp(d) ==
    ras' = [ras EXCEPT ![d] = IF Live(d) THEN "ended" ELSE @]

HangUpMayFail == "hangup" \in Failures

(* Defect: the buffer is left to itself. *)
KeepEap(d) == UNCHANGED eap

(* FreeHGlobalIfNeeded(context.RasDialExtensions...pbEapInfo): the field   *)
(* keeps the address after the buffer is freed.                            *)
FreeEap(d) ==
    eap' = [eap EXCEPT ![d] = CASE @ = "none"      -> "none"
                                [] @ = "allocated" -> "freed"
                                [] OTHER           -> "freedTwice"]

(* Defect: the flag is not reset. *)
StayBusy == UNCHANGED busy

SetNotBusy == busy' = FALSE
=============================================================================
